--------------------------- MODULE Service_proofs ---------------------------
(***************************************************************************)
(* Proofs about Service, for any number of requests: once the goroutines   *)
(* of the requests have come to rest the monitor does what the service     *)
(* reports, and a service that has returned has closed what it started.    *)
(***************************************************************************)
EXTENDS Service, TLAPS

BeforeListen == {"begin", "cfgStart", "waitReady", "waiting", "woken", "listen"}
BeforeLoop == BeforeListen \cup {"start"}
InLoop == {"loop", "act"}
Closing == {"closeMon", "closeCfg", "closingCfg", "returned"}

(* A monitor polls only between Start and the return of Stop or Close, and its
   mutex is held over Stop and Close. *)
MonitorsRest ==
    \A m \in {"cfg", "mon"} :
        /\ life[m].by # None <=> life[m].phase \in {"stopping", "closing"}
        /\ life[m].polling => life[m].phase \in {"running", "stopping", "closing"}

(* Execute alone starts and closes the configuration monitor, to which nobody
   listens. *)
ConfigurationFollows ==
    /\ life["cfg"].attached = {}
    /\ life["cfg"].by \in {"execute", None}
    /\ pc \in {"begin", "cfgStart"} => life["cfg"].phase = "stopped"
    /\ pc = "returned" => life["cfg"].phase \in {"stopped", "closed"}

(* The backlog monitor is untouched until Execute listens to it; it is stopped
   and closed by the goroutines of requests only, each for as long as it is in
   its call, and Execute leaves its loop only after one of them has closed it. *)
MonitorFollows ==
    /\ \A j \in Jobs :
          /\ job[j].at = "called" <=> life["mon"].by = j
          /\ job[j].at = "new" <=> job[j].do = None
          /\ life["mon"].by = j => \/ life["mon"].phase = "stopping" /\ job[j].do = "stop"
                                   \/ life["mon"].phase = "closing" /\ job[j].do = "close"
    /\ life["mon"].by # "execute"
    /\ pc \in BeforeLoop => life["mon"].phase = "stopped"
    /\ pc \in BeforeLoop \cup Closing /\ life["mon"].phase # "closed" =>
          \A j \in Jobs : job[j].at = "new"
    /\ pc \in BeforeListen => life["mon"].attached = {}
    /\ pc \in {"start", "loop", "act"} /\ life["mon"].phase # "closed"
          => "monChan" \in life["mon"].attached
    /\ pc = "closeMon" => life["mon"].phase = "closed"
    /\ pc \in Closing => life["mon"].phase \in {"stopped", "closed"}
    /\ life["mon"].phase = "closed" \/ pc \in Closing => life["mon"].attached = {}

(* What the service reports while it is in its loop. *)
Reported == {"Running", "Paused", "StopPending"}

(* The manager makes requests only once the service has reported to be running;
   and so an Interrogate brings back no earlier status. *)
RequestsAccepted ==
    /\ pc \in BeforeLoop => /\ status \in {"Stopped", "StartPending"}
                            /\ accepted = None /\ request = None /\ doing = None
    /\ pc \in InLoop => /\ status \in Reported
                        /\ request = "interrogate" => current.request \in Reported
                        /\ doing = "interrogate" => current.doing \in Reported

Spawned(j) == job[j].at = "spawned"

(* Unless requests have crossed, all goroutines that are still to reach the
   monitor do what the last request has called for; and when there are none
   left, the monitor does it or is about to.  A Pause or a Continue that was
   accepted before a Stop was acted on is overtaken by its goroutine, or comes
   too late for the monitor. *)
MonitorObeys ==
    pc \in InLoop /\ ~crossed /\ life["mon"].phase \in {"stopped", "running", "stopping"} =>
        /\ target = "Running" =>
              /\ \A j \in Jobs : Spawned(j) => job[j].do = "start"
              /\ (\A j \in Jobs : ~Spawned(j)) => life["mon"].phase = "running"
        /\ target = "Paused" =>
              /\ \A j \in Jobs : Spawned(j) => job[j].do = "stop"
              /\ (\A j \in Jobs : ~Spawned(j)) => life["mon"].phase \in {"stopping", "stopped"}

IndInv ==
    /\ TypeOK
    /\ MonitorsRest
    /\ ConfigurationFollows
    /\ MonitorFollows
    /\ RequestsAccepted
    /\ MonitorObeys

(* Nothing is left running when Execute has returned. *)
LeavesNothing == pc = "returned" => \A m \in {"cfg", "mon"} : AtRest(m)

-----------------------------------------------------------------------------
(* What the lemmas about a step use of the types. *)
Monitors == {"cfg", "mon"}
Life == [phase    : {"stopped", "running", "stopping", "closing", "closed"},
         by       : Callers \cup {None},
         polling  : BOOLEAN,
         stalled  : {"listener", "query", "no"},
         attached : SUBSET {"monChan", "stathat"}]
JobType == [do : Actions \cup {None}, at : {"new", "spawned", "called", "done"}]

LEMMA Types ==
    ASSUME TypeOK
    PROVE  /\ life \in [Monitors -> Life]
           /\ job \in [Jobs -> JobType]
           /\ "mon" \in Monitors /\ "cfg" \in Monitors
           /\ None \notin Jobs /\ None # "execute" /\ "execute" \notin Jobs
           /\ None \notin Actions /\ None \notin Requests
BY ServiceAssumption DEF TypeOK, L!TypeOK, L!Phases, L!Causes, Life, JobType, Monitors

(* Only monitor m changes, to these fields. *)
Becomes(m, phase, by, polling, attached) ==
    /\ life' \in [Monitors -> Life]
    /\ life'[m].phase = phase /\ life'[m].by = by
    /\ life'[m].polling = polling /\ life'[m].attached = attached
    /\ \A n \in Monitors \ {m} : life'[n] = life[n]

(* One monitor's state is replaced. *)
LEMMA OneMonitor ==
    ASSUME life \in [Monitors -> Life], NEW m \in Monitors, NEW new \in Life,
           life' = [life EXCEPT ![m] = new]
    PROVE  Becomes(m, new.phase, new.by, new.polling, new.attached)
BY DEF Becomes

(* Start begins the polling of a stopped monitor. *)
LEMMA StartEffect ==
    ASSUME TypeOK, NEW m \in Monitors, L!Start(m)
    PROVE  /\ life[m].by = None /\ life[m].phase = "stopped"
           /\ Becomes(m, "running", life[m].by, life[m].polling, life[m].attached)
<1> DEFINE new == [life[m] EXCEPT !.phase = "running"]
<1>1. life \in [Monitors -> Life] /\ life[m] \in Life /\ None \in Callers \cup {None}
  BY Types
<1>2. /\ new \in Life /\ new.phase = "running" /\ new.by = life[m].by
      /\ new.polling = life[m].polling /\ new.attached = life[m].attached
  BY <1>1 DEF Life
<1>3. life' = [life EXCEPT ![m] = new]
  BY DEF L!Start, L!Free
<1>4. life[m].by = None /\ life[m].phase = "stopped"
  BY DEF L!Start, L!Free
<1> HIDE DEF new
<1>5. Becomes(m, new.phase, new.by, new.polling, new.attached)
  BY <1>1, <1>2, <1>3, OneMonitor
<1>6. QED
  BY <1>2, <1>4, <1>5

(* Stop begins to stop a running monitor. *)
LEMMA StopEffect ==
    ASSUME TypeOK, NEW m \in Monitors, NEW c \in Callers, L!Stop(m, c)
    PROVE  /\ life[m].by = None /\ life[m].phase = "running"
           /\ Becomes(m, "stopping", c, life[m].polling, life[m].attached)
<1> DEFINE new == [life[m] EXCEPT !.phase = "stopping", !.by = c]
<1>1. life \in [Monitors -> Life] /\ life[m] \in Life /\ None \in Callers \cup {None}
  BY Types
<1>2. /\ new \in Life /\ new.phase = "stopping" /\ new.by = c
      /\ new.polling = life[m].polling /\ new.attached = life[m].attached
  BY <1>1 DEF Life
<1>3. life' = [life EXCEPT ![m] = new]
  BY DEF L!Stop, L!Free
<1>4. life[m].by = None /\ life[m].phase = "running"
  BY DEF L!Stop, L!Free
<1> HIDE DEF new
<1>5. Becomes(m, new.phase, new.by, new.polling, new.attached)
  BY <1>1, <1>2, <1>3, OneMonitor
<1>6. QED
  BY <1>2, <1>4, <1>5

(* Close begins to close a monitor that is not closed. *)
LEMMA CloseEffect ==
    ASSUME TypeOK, NEW m \in Monitors, NEW c \in Callers, L!Close(m, c)
    PROVE  /\ life[m].by = None /\ life[m].phase \in {"stopped", "running"}
           /\ Becomes(m, "closing", c, life[m].polling, life[m].attached)
<1> DEFINE new == [life[m] EXCEPT !.phase = "closing", !.by = c]
<1>1. life \in [Monitors -> Life] /\ life[m] \in Life /\ None \in Callers \cup {None}
  BY Types
<1>2. /\ new \in Life /\ new.phase = "closing" /\ new.by = c
      /\ new.polling = life[m].polling /\ new.attached = life[m].attached
  BY <1>1 DEF Life
<1>3. life' = [life EXCEPT ![m] = new]
  BY DEF L!Close, L!Free
<1>4. life[m].by = None /\ life[m].phase \in {"stopped", "running"}
  BY DEF L!Close, L!Free
<1> HIDE DEF new
<1>5. Becomes(m, new.phase, new.by, new.polling, new.attached)
  BY <1>1, <1>2, <1>3, OneMonitor
<1>6. QED
  BY <1>2, <1>4, <1>5

(* A running monitor polls. *)
LEMMA PollBeginsEffect ==
    ASSUME TypeOK, NEW m \in Monitors, L!PollBegins(m)
    PROVE  /\ life[m].phase = "running"
           /\ Becomes(m, life[m].phase, life[m].by, TRUE, life[m].attached)
<1> DEFINE new == [life[m] EXCEPT !.polling = TRUE]
<1>1. life \in [Monitors -> Life] /\ life[m] \in Life /\ None \in Callers \cup {None}
  BY Types
<1>2. /\ new \in Life /\ new.phase = life[m].phase /\ new.by = life[m].by
      /\ new.polling = TRUE /\ new.attached = life[m].attached
  BY <1>1 DEF Life
<1>3. life' = [life EXCEPT ![m] = new]
  BY DEF L!PollBegins
<1>4. life[m].phase = "running"
  BY DEF L!PollBegins
<1> HIDE DEF new
<1>5. Becomes(m, new.phase, new.by, new.polling, new.attached)
  BY <1>1, <1>2, <1>3, OneMonitor
<1>6. QED
  BY <1>2, <1>4, <1>5

(* A poll ends. *)
LEMMA PollEndsEffect ==
    ASSUME TypeOK, NEW m \in Monitors, L!PollEnds(m)
    PROVE  /\ life[m].polling
           /\ Becomes(m, life[m].phase, life[m].by, FALSE, life[m].attached)
<1> DEFINE new == [life[m] EXCEPT !.polling = FALSE]
<1>1. life \in [Monitors -> Life] /\ life[m] \in Life /\ None \in Callers \cup {None}
  BY Types
<1>2. /\ new \in Life /\ new.phase = life[m].phase /\ new.by = life[m].by
      /\ new.polling = FALSE /\ new.attached = life[m].attached
  BY <1>1 DEF Life
<1>3. life' = [life EXCEPT ![m] = new]
  BY DEF L!PollEnds
<1>4. life[m].polling
  BY DEF L!PollEnds
<1> HIDE DEF new
<1>5. Becomes(m, new.phase, new.by, new.polling, new.attached)
  BY <1>1, <1>2, <1>3, OneMonitor
<1>6. QED
  BY <1>2, <1>4, <1>5

(* A poll stalls, which changes nothing else. *)
LEMMA StallEffect ==
    ASSUME TypeOK, NEW m \in Monitors, NEW cause \in L!Causes, L!Stall(m, cause)
    PROVE  /\ life[m].polling
           /\ Becomes(m, life[m].phase, life[m].by, life[m].polling, life[m].attached)
<1> DEFINE new == [life[m] EXCEPT !.stalled = cause]
<1>1. life \in [Monitors -> Life] /\ life[m] \in Life /\ None \in Callers \cup {None}
  BY Types
<1>2. /\ new \in Life /\ new.phase = life[m].phase /\ new.by = life[m].by
      /\ new.polling = life[m].polling /\ new.attached = life[m].attached
  BY <1>1 DEF Life, L!Causes
<1>3. life' = [life EXCEPT ![m] = new]
  BY DEF L!Stall
<1>4. life[m].polling
  BY DEF L!Stall
<1> HIDE DEF new
<1>5. Becomes(m, new.phase, new.by, new.polling, new.attached)
  BY <1>1, <1>2, <1>3, OneMonitor
<1>6. QED
  BY <1>2, <1>4, <1>5

(* When Stop or Close returns the poll has ended; a closed monitor has no
   listeners. *)
LEMMA ReturnsEffect ==
    ASSUME TypeOK, NEW m \in Monitors, NEW c \in Callers, L!Returns(m, c)
    PROVE  /\ life[m].by = c /\ ~life[m].polling
           /\ \/ /\ life[m].phase = "stopping"
                 /\ Becomes(m, "stopped", None, life[m].polling, life[m].attached)
              \/ /\ life[m].phase = "closing"
                 /\ Becomes(m, "closed", None, life[m].polling, {})
<1>1. /\ life \in [Monitors -> Life] /\ life[m] \in Life /\ None \in Callers \cup {None}
      /\ {} \in SUBSET {"monChan", "stathat"}
  BY Types
<1>2. life[m].by = c /\ ~life[m].polling
  BY DEF L!Returns
<1>3. ASSUME life[m].phase = "stopping",
             life' = [life EXCEPT ![m] = [@ EXCEPT !.phase = "stopped", !.by = None]]
      PROVE  Becomes(m, "stopped", None, life[m].polling, life[m].attached)
  <2> DEFINE new == [life[m] EXCEPT !.phase = "stopped", !.by = None]
  <2>1. /\ new \in Life /\ new.phase = "stopped" /\ new.by = None
        /\ new.polling = life[m].polling /\ new.attached = life[m].attached
    BY <1>1 DEF Life
  <2>2. life' = [life EXCEPT ![m] = new]
    BY <1>3
  <2> HIDE DEF new
  <2>3. Becomes(m, new.phase, new.by, new.polling, new.attached)
    BY <1>1, <2>1, <2>2, OneMonitor
  <2>4. QED
    BY <2>1, <2>3
<1>4. ASSUME life[m].phase = "closing",
             life' = [life EXCEPT ![m] = [@ EXCEPT !.phase = "closed", !.by = None,
                                                   !.attached = {}]]
      PROVE  Becomes(m, "closed", None, life[m].polling, {})
  <2> DEFINE new == [life[m] EXCEPT !.phase = "closed", !.by = None, !.attached = {}]
  <2>1. /\ new \in Life /\ new.phase = "closed" /\ new.by = None
        /\ new.polling = life[m].polling /\ new.attached = {}
    BY <1>1 DEF Life
  <2>2. life' = [life EXCEPT ![m] = new]
    BY <1>4
  <2> HIDE DEF new
  <2>3. Becomes(m, new.phase, new.by, new.polling, new.attached)
    BY <1>1, <2>1, <2>2, OneMonitor
  <2>4. QED
    BY <2>1, <2>3
<1>5. QED
  BY <1>2, <1>3, <1>4 DEF L!Returns

(* Before the loop, Execute gives the backlog monitor its listeners. *)
LEMMA ListenEffect ==
    ASSUME TypeOK, NEW m \in Monitors, NEW attached \in SUBSET {"monChan", "stathat"},
           life' = [life EXCEPT ![m].attached = attached]
    PROVE  Becomes(m, life[m].phase, life[m].by, life[m].polling, attached)
<1> DEFINE new == [life[m] EXCEPT !.attached = attached]
<1>1. life \in [Monitors -> Life] /\ life[m] \in Life /\ None \in Callers \cup {None}
  BY Types
<1>2. /\ new \in Life /\ new.phase = life[m].phase /\ new.by = life[m].by
      /\ new.polling = life[m].polling /\ new.attached = attached
  BY <1>1 DEF Life
<1>3. life' = [life EXCEPT ![m] = new]
  OBVIOUS
<1> HIDE DEF new
<1>4. Becomes(m, new.phase, new.by, new.polling, new.attached)
  BY <1>1, <1>2, <1>3, OneMonitor
<1>5. QED
  BY <1>2, <1>4

(* A goroutine's state is replaced. *)
JobBecomes(j, do, at) ==
    /\ job' \in [Jobs -> JobType]
    /\ job'[j].do = do /\ job'[j].at = at
    /\ \A i \in Jobs \ {j} : job'[i] = job[i]

(* A goroutine begins to act on a request. *)
LEMMA SpawnEffect ==
    ASSUME TypeOK, NEW j \in Jobs, NEW action \in Actions,
           job' = [job EXCEPT ![j] = [do |-> action, at |-> "spawned"]]
    PROVE  JobBecomes(j, action, "spawned")
<1>1. job \in [Jobs -> JobType] /\ [do |-> action, at |-> "spawned"] \in JobType
  BY Types DEF JobType
<1>2. QED
  BY <1>1 DEF JobBecomes

(* A goroutine gets further. *)
LEMMA JobEffect ==
    ASSUME TypeOK, NEW j \in Jobs, NEW at \in {"called", "done"},
           job' = [job EXCEPT ![j].at = at]
    PROVE  JobBecomes(j, job[j].do, at)
<1> DEFINE new == [job[j] EXCEPT !.at = at]
<1>1. job \in [Jobs -> JobType] /\ job[j] \in JobType
  BY Types
<1>2. new \in JobType /\ new.do = job[j].do /\ new.at = at
  BY <1>1 DEF JobType
<1>3. job' = [job EXCEPT ![j] = new]
  OBVIOUS
<1> HIDE DEF new
<1>4. QED
  BY <1>1, <1>2, <1>3 DEF JobBecomes

(* Execute begins. *)
LEMMA BeginKeeps ==
    ASSUME IndInv, Begin
    PROVE  IndInv'
<1>1. TypeOK'
  BY DEF IndInv, TypeOK, Statuses, requestVars, Places, Begin, Goto, L!TypeOK
<1>2. MonitorsRest'
  BY DEF IndInv, MonitorsRest, Begin
<1>3. ConfigurationFollows'
  BY DEF IndInv, ConfigurationFollows, Begin
<1>4. MonitorFollows'
  BY DEF IndInv, MonitorFollows, BeforeListen, BeforeLoop, Begin, Goto
<1>5. RequestsAccepted'
  BY
  DEF IndInv, RequestsAccepted, Reported, InLoop, requestVars, BeforeListen, BeforeLoop, Begin, Goto
<1>6. MonitorObeys'
  BY DEF IndInv, MonitorObeys, InLoop, Begin, Goto
<1>7. QED
  BY <1>1, <1>2, <1>3, <1>4, <1>5, <1>6 DEF IndInv

(* Execute looks for a configuration. *)
LEMMA WaitReadyKeeps ==
    ASSUME IndInv, WaitReady
    PROVE  IndInv'
<1>1. TypeOK'
  BY DEF IndInv, TypeOK, Statuses, requestVars, Places, WaitReady, Goto, L!TypeOK
<1>2. MonitorsRest'
  BY DEF IndInv, MonitorsRest, WaitReady
<1>3. ConfigurationFollows'
  BY DEF IndInv, ConfigurationFollows, WaitReady, Goto
<1>4. MonitorFollows'
  BY DEF IndInv, MonitorFollows, BeforeListen, BeforeLoop, WaitReady, Goto
<1>5. RequestsAccepted'
  BY
  DEF IndInv, RequestsAccepted, Reported, InLoop, requestVars, BeforeListen, BeforeLoop, WaitReady,
      Goto
<1>6. MonitorObeys'
  BY DEF IndInv, MonitorObeys, InLoop, WaitReady, Goto
<1>7. QED
  BY <1>1, <1>2, <1>3, <1>4, <1>5, <1>6 DEF IndInv

(* Execute is woken. *)
LEMMA WaitReadyReturnsKeeps ==
    ASSUME IndInv, WaitReadyReturns
    PROVE  IndInv'
<1>1. TypeOK'
  BY
  DEF IndInv, TypeOK, Statuses, requestVars, Places, WaitReadyReturns, Goto, OnlyConfiguration,
      L!TypeOK
<1>2. MonitorsRest'
  BY DEF IndInv, MonitorsRest, WaitReadyReturns
<1>3. ConfigurationFollows'
  BY DEF IndInv, ConfigurationFollows, WaitReadyReturns, Goto, OnlyConfiguration
<1>4. MonitorFollows'
  BY
  DEF IndInv, MonitorFollows, BeforeListen, BeforeLoop, WaitReadyReturns, Goto, OnlyConfiguration
<1>5. RequestsAccepted'
  BY
  DEF IndInv, RequestsAccepted, Reported, InLoop, requestVars, BeforeListen, BeforeLoop,
      WaitReadyReturns, Goto, OnlyConfiguration
<1>6. MonitorObeys'
  BY DEF IndInv, MonitorObeys, InLoop, WaitReadyReturns, Goto, OnlyConfiguration
<1>7. QED
  BY <1>1, <1>2, <1>3, <1>4, <1>5, <1>6 DEF IndInv

(* Execute starts the configuration monitor, or returns. *)
LEMMA StartConfigurationKeeps ==
    ASSUME IndInv, StartConfiguration
    PROVE  IndInv'
<1>1. life \in [Monitors -> Life] /\ job \in [Jobs -> JobType]
  BY Types DEF IndInv
<1>2. \/ L!Start("cfg") /\ pc' = "waitReady"
      \/ pc' = "returned" /\ life' = life
  BY DEF StartConfiguration, Goto
<1>3. L!Start("cfg") => /\ life["cfg"].by = None /\ life["cfg"].phase = "stopped"
                         /\ Becomes("cfg", "running", life["cfg"].by, life["cfg"].polling,
                                    life["cfg"].attached)
  BY StartEffect DEF IndInv, Monitors
<1>4. /\ life' \in [Monitors -> Life] /\ life'["mon"] = life["mon"]
      /\ life'["cfg"].by = life["cfg"].by /\ life'["cfg"].polling = life["cfg"].polling
      /\ life'["cfg"].attached = life["cfg"].attached
      /\ \/ life'["cfg"].phase = "running" /\ pc' = "waitReady" /\ life["cfg"].by = None
         \/ life'["cfg"].phase = life["cfg"].phase /\ pc' = "returned"
  BY <1>1, <1>2, <1>3 DEF Becomes, Monitors
<1>5. TypeOK'
  BY <1>4
  DEF IndInv, TypeOK, Statuses, requestVars, Places, StartConfiguration, Monitors, Life, L!TypeOK,
      L!Phases, L!Causes
<1>6. MonitorsRest'
  BY <1>4 DEF IndInv, MonitorsRest
<1>7. ConfigurationFollows'
  BY <1>4 DEF IndInv, ConfigurationFollows, StartConfiguration
<1>8. MonitorFollows'
  BY <1>4 DEF IndInv, MonitorFollows, BeforeListen, BeforeLoop, StartConfiguration
<1>9. RequestsAccepted'
  BY <1>4 DEF IndInv, RequestsAccepted, Reported, InLoop, requestVars, BeforeListen, BeforeLoop,
              StartConfiguration
<1>10. MonitorObeys'
  BY <1>4 DEF IndInv, MonitorObeys, InLoop
<1>11. QED
  BY <1>5, <1>6, <1>7, <1>8, <1>9, <1>10 DEF IndInv

(* Execute listens to the backlog monitor. *)
LEMMA ListenToMonitorKeeps ==
    ASSUME IndInv, ListenToMonitor
    PROVE  IndInv'
<1>1. PICK channels \in {{"monChan"}, {"monChan", "stathat"}} :
         life' = [life EXCEPT !["mon"].attached = channels]
  BY DEF ListenToMonitor
<1>2. Becomes("mon", life["mon"].phase, life["mon"].by, life["mon"].polling, channels)
  BY <1>1, ListenEffect DEF IndInv, Monitors
<1>3. /\ life' \in [Monitors -> Life] /\ life'["cfg"] = life["cfg"]
      /\ life'["mon"].by = life["mon"].by /\ life'["mon"].polling = life["mon"].polling
      /\ life'["mon"].phase = life["mon"].phase /\ "monChan" \in life'["mon"].attached
      /\ job' = job
  BY <1>2 DEF Becomes, Monitors, ListenToMonitor
<1>4. TypeOK'
  BY DEF IndInv, TypeOK, Statuses, requestVars, Places, ListenToMonitor, Goto, L!TypeOK
<1>5. MonitorsRest'
  BY DEF IndInv, MonitorsRest, ListenToMonitor
<1>6. ConfigurationFollows'
  BY DEF IndInv, ConfigurationFollows, ListenToMonitor, Goto
<1>7. MonitorFollows'
  BY <1>3 DEF IndInv, MonitorFollows, BeforeListen, BeforeLoop, Closing, ListenToMonitor, Goto
<1>8. RequestsAccepted'
  BY DEF IndInv, RequestsAccepted, Reported, InLoop, requestVars, BeforeListen, BeforeLoop,
         ListenToMonitor, Goto
<1>9. MonitorObeys'
  BY DEF IndInv, MonitorObeys, InLoop, ListenToMonitor, Goto
<1>10. QED
  BY <1>4, <1>5, <1>6, <1>7, <1>8, <1>9 DEF IndInv

(* Execute starts the backlog monitor and reports that the service is running. *)
LEMMA StartMonitorKeeps ==
    ASSUME IndInv, StartMonitor
    PROVE  IndInv'
<1>1. life \in [Monitors -> Life] /\ job \in [Jobs -> JobType]
  BY Types DEF IndInv
<1>2. /\ life["mon"].by = None
      /\ Becomes("mon", "running", life["mon"].by, life["mon"].polling, life["mon"].attached)
  BY StartEffect DEF IndInv, Monitors, StartMonitor
<1>3. /\ life' \in [Monitors -> Life] /\ life'["cfg"] = life["cfg"]
      /\ life'["mon"].by = life["mon"].by /\ life'["mon"].polling = life["mon"].polling
      /\ life'["mon"].phase = "running" /\ life'["mon"].attached = life["mon"].attached
      /\ job' = job
  BY <1>1, <1>2 DEF Becomes, Monitors, StartMonitor
<1>4. \A j \in Jobs : job[j].at = "new" /\ job[j].do # "close"
  BY Types DEF IndInv, StartMonitor, MonitorFollows, BeforeLoop, Actions
<1>5. TypeOK'
  BY <1>3
  DEF IndInv, TypeOK, Statuses, requestVars, Places, StartMonitor, Goto, Monitors, Life, L!TypeOK,
      L!Phases, L!Causes
<1>6. MonitorsRest'
  BY <1>2, <1>3 DEF IndInv, MonitorsRest
<1>7. ConfigurationFollows'
  BY <1>3 DEF IndInv, ConfigurationFollows, StartMonitor, Goto
<1>8. MonitorFollows'
  BY <1>3 DEF IndInv, MonitorFollows, BeforeListen, BeforeLoop, Closing, StartMonitor, Goto
<1>9. RequestsAccepted'
  BY <1>3, <1>4, Types
  DEF IndInv, RequestsAccepted, Reported, Requests, InLoop, requestVars, BeforeListen, BeforeLoop,
      StartMonitor, Goto
<1>10. MonitorObeys'
  BY <1>3, <1>4 DEF IndInv, MonitorObeys, InLoop, Spawned, StartMonitor
<1>11. QED
  BY <1>5, <1>6, <1>7, <1>8, <1>9, <1>10 DEF IndInv

(* Execute receives an update. *)
LEMMA ReceiveUpdateKeeps ==
    ASSUME IndInv, ReceiveUpdate
    PROVE  IndInv'
<1>1. TypeOK'
  BY ServiceAssumption DEF IndInv, TypeOK, Statuses, requestVars, ReceiveUpdate, L!TypeOK
<1>2. MonitorsRest'
  BY DEF IndInv, MonitorsRest, ReceiveUpdate
<1>3. ConfigurationFollows'
  BY DEF IndInv, ConfigurationFollows, ReceiveUpdate
<1>4. MonitorFollows'
  BY DEF IndInv, MonitorFollows, ReceiveUpdate
<1>5. RequestsAccepted'
  BY DEF IndInv, RequestsAccepted, Reported, InLoop, requestVars, ReceiveUpdate
<1>6. MonitorObeys'
  BY DEF IndInv, MonitorObeys, InLoop, Spawned, ReceiveUpdate
<1>7. QED
  BY <1>1, <1>2, <1>3, <1>4, <1>5, <1>6 DEF IndInv

(* Execute leaves its loop. *)
LEMMA MonitorGoneKeeps ==
    ASSUME IndInv, MonitorGone
    PROVE  IndInv'
<1>1. TypeOK'
  BY DEF IndInv, TypeOK, Statuses, requestVars, Places, MonitorGone, Goto, L!TypeOK
<1>2. MonitorsRest'
  BY DEF IndInv, MonitorsRest, MonitorGone
<1>3. ConfigurationFollows'
  BY DEF IndInv, ConfigurationFollows, MonitorGone, Goto
<1>4. MonitorFollows'
  BY DEF IndInv, MonitorFollows, BeforeListen, BeforeLoop, MonitorGone, Goto
<1>5. RequestsAccepted'
  BY
  DEF IndInv, RequestsAccepted, Reported, InLoop, requestVars, BeforeListen, BeforeLoop,
      MonitorGone, Goto
<1>6. MonitorObeys'
  BY DEF IndInv, MonitorObeys, InLoop, Spawned, MonitorGone
<1>7. QED
  BY <1>1, <1>2, <1>3, <1>4, <1>5, <1>6 DEF IndInv

(* Execute receives a request. *)
LEMMA ReceiveRequestKeeps ==
    ASSUME IndInv, ReceiveRequest
    PROVE  IndInv'
<1>1. TypeOK'
  BY DEF IndInv, TypeOK, Statuses, Places, requestVars, ReceiveRequest, Goto, L!TypeOK
<1>2. MonitorsRest'
  BY DEF IndInv, MonitorsRest, ReceiveRequest
<1>3. ConfigurationFollows'
  BY DEF IndInv, ConfigurationFollows, ReceiveRequest, Goto
<1>4. MonitorFollows'
  BY DEF IndInv, MonitorFollows, BeforeListen, BeforeLoop, Closing, ReceiveRequest, Goto
<1>5. RequestsAccepted'
  BY Types
  DEF IndInv, RequestsAccepted, Reported, Requests, BeforeListen, BeforeLoop, InLoop,
      ReceiveRequest, Goto, TypeOK
<1>6. MonitorObeys'
  BY DEF IndInv, MonitorObeys, InLoop, Spawned, ReceiveRequest, Goto
<1>7. QED
  BY <1>1, <1>2, <1>3, <1>4, <1>5, <1>6 DEF IndInv

(* Execute reports its status. *)
LEMMA InterrogateKeeps ==
    ASSUME IndInv, Interrogate
    PROVE  IndInv'
<1>1. TypeOK'
  BY DEF IndInv, TypeOK, Statuses, Places, requestVars, Interrogate, Goto, L!TypeOK,
         RequestsAccepted, Reported, InLoop
<1>2. MonitorsRest'
  BY DEF IndInv, MonitorsRest, Interrogate
<1>3. ConfigurationFollows'
  BY DEF IndInv, ConfigurationFollows, Interrogate, Goto
<1>4. MonitorFollows'
  BY DEF IndInv, MonitorFollows, BeforeListen, BeforeLoop, Closing, Interrogate, Goto
<1>5. RequestsAccepted'
  BY Types
  DEF IndInv, RequestsAccepted, Reported, Requests, BeforeListen, BeforeLoop, InLoop,
      Interrogate, Goto, TypeOK
<1>6. MonitorObeys'
  BY DEF IndInv, MonitorObeys, InLoop, Spawned, Interrogate, Goto
<1>7. QED
  BY <1>1, <1>2, <1>3, <1>4, <1>5, <1>6 DEF IndInv

(* svc.Run takes a request from the manager. *)
LEMMA DeliverKeeps ==
    ASSUME IndInv, Deliver
    PROVE  IndInv'
<1>1. TypeOK'
  BY DEF IndInv, TypeOK, Statuses, Places, requestVars, Deliver, Goto, L!TypeOK
<1>2. MonitorsRest'
  BY DEF IndInv, MonitorsRest, Deliver
<1>3. ConfigurationFollows'
  BY DEF IndInv, ConfigurationFollows, Deliver, Goto
<1>4. MonitorFollows'
  BY DEF IndInv, MonitorFollows, BeforeListen, BeforeLoop, Closing, Deliver, Goto
<1>5. RequestsAccepted'
  BY DEF IndInv, RequestsAccepted, Reported, BeforeListen, BeforeLoop, InLoop, Deliver, Goto
<1>6. MonitorObeys'
  BY DEF IndInv, MonitorObeys, InLoop, Spawned, Deliver, Goto
<1>7. QED
  BY <1>1, <1>2, <1>3, <1>4, <1>5, <1>6 DEF IndInv

(* Execute finds the backlog monitor closed. *)
LEMMA CloseMonitorKeeps ==
    ASSUME IndInv, CloseMonitor
    PROVE  IndInv'
<1>1. TypeOK'
  BY DEF IndInv, TypeOK, Statuses, requestVars, Places, CloseMonitor, Goto, L!TypeOK
<1>2. MonitorsRest'
  BY DEF IndInv, MonitorsRest, CloseMonitor
<1>3. ConfigurationFollows'
  BY DEF IndInv, ConfigurationFollows, CloseMonitor, Goto
<1>4. MonitorFollows'
  BY DEF IndInv, MonitorFollows, BeforeListen, BeforeLoop, CloseMonitor, Goto
<1>5. RequestsAccepted'
  BY
  DEF IndInv, RequestsAccepted, Reported, InLoop, requestVars, BeforeListen, BeforeLoop,
      CloseMonitor, Goto
<1>6. MonitorObeys'
  BY DEF IndInv, MonitorObeys, InLoop, CloseMonitor, Goto
<1>7. QED
  BY <1>1, <1>2, <1>3, <1>4, <1>5, <1>6 DEF IndInv

(* The service reports that it has stopped. *)
LEMMA ReportStoppedKeeps ==
    ASSUME IndInv, ReportStopped
    PROVE  IndInv'
<1>1. TypeOK'
  BY DEF IndInv, TypeOK, Statuses, requestVars, ReportStopped, L!TypeOK
<1>2. MonitorsRest'
  BY DEF IndInv, MonitorsRest, ReportStopped
<1>3. ConfigurationFollows'
  BY DEF IndInv, ConfigurationFollows, ReportStopped
<1>4. MonitorFollows'
  BY DEF IndInv, MonitorFollows, ReportStopped
<1>5. RequestsAccepted'
  BY DEF IndInv, RequestsAccepted, Reported, InLoop, requestVars, ReportStopped
<1>6. MonitorObeys'
  BY DEF IndInv, MonitorObeys, InLoop, ReportStopped
<1>7. QED
  BY <1>1, <1>2, <1>3, <1>4, <1>5, <1>6 DEF IndInv

(* The backlog monitor broadcasts an update. *)
LEMMA BroadcastKeeps ==
    ASSUME IndInv, Broadcast
    PROVE  IndInv'
<1>1. TypeOK'
  BY ServiceAssumption DEF IndInv, TypeOK, Statuses, requestVars, Broadcast, L!TypeOK
<1>2. MonitorsRest'
  BY DEF IndInv, MonitorsRest, Broadcast
<1>3. ConfigurationFollows'
  BY DEF IndInv, ConfigurationFollows, Broadcast
<1>4. MonitorFollows'
  BY DEF IndInv, MonitorFollows, Broadcast
<1>5. RequestsAccepted'
  BY DEF IndInv, RequestsAccepted, Reported, InLoop, requestVars, Broadcast
<1>6. MonitorObeys'
  BY DEF IndInv, MonitorObeys, InLoop, Spawned, Broadcast
<1>7. QED
  BY <1>1, <1>2, <1>3, <1>4, <1>5, <1>6 DEF IndInv

(* The manager accepts a request. *)
LEMMA SendKeeps ==
    ASSUME IndInv, NEW r \in Requests, Send(r)
    PROVE  IndInv'
<1>1. TypeOK'
  BY DEF IndInv, TypeOK, Statuses, Places, requestVars, Send, Goto, L!TypeOK
<1>2. MonitorsRest'
  BY DEF IndInv, MonitorsRest, Send
<1>3. ConfigurationFollows'
  BY DEF IndInv, ConfigurationFollows, Send, Goto
<1>4. MonitorFollows'
  BY DEF IndInv, MonitorFollows, BeforeListen, BeforeLoop, Closing, Send, Goto
<1>5. RequestsAccepted'
  BY DEF IndInv, RequestsAccepted, Reported, BeforeListen, BeforeLoop, InLoop, Send, Goto
<1>6. MonitorObeys'
  BY DEF IndInv, MonitorObeys, InLoop, Spawned, Send, Goto
<1>7. QED
  BY <1>1, <1>2, <1>3, <1>4, <1>5, <1>6 DEF IndInv

(* Execute closes the configuration monitor. *)
LEMMA CloseConfigurationKeeps ==
    ASSUME IndInv, CloseConfiguration
    PROVE  IndInv'
<1>1. life \in [Monitors -> Life] /\ job \in [Jobs -> JobType]
  BY Types DEF IndInv
<1>2. "cfg" \in Monitors /\ "execute" \in Callers
  BY DEF Monitors, Callers
<1>3. ASSUME L!Close("cfg", "execute")
      PROVE  /\ life["cfg"].by = None /\ life["cfg"].phase \in {"stopped", "running"}
             /\ Becomes("cfg", "closing", "execute", life["cfg"].polling, life["cfg"].attached)
  BY <1>1, <1>2, <1>3, CloseEffect DEF IndInv
<1>4. ASSUME L!Returns("cfg", "execute")
      PROVE  /\ life["cfg"].by = "execute" /\ ~life["cfg"].polling
             /\ \/ /\ life["cfg"].phase = "stopping"
                   /\ Becomes("cfg", "stopped", None, life["cfg"].polling, life["cfg"].attached)
                \/ /\ life["cfg"].phase = "closing"
                   /\ Becomes("cfg", "closed", None, life["cfg"].polling, {})
  BY <1>1, <1>2, <1>4, ReturnsEffect DEF IndInv
<1>5. /\ life' \in [Monitors -> Life] /\ life'["mon"] = life["mon"]
      /\ life'["cfg"].polling = life["cfg"].polling /\ life'["cfg"].attached = {}
      /\ \/ /\ pc = "closeCfg" /\ pc' = "closingCfg"
            /\ life'["cfg"].by = "execute" /\ life'["cfg"].phase = "closing"
         \/ /\ pc = "closingCfg" /\ pc' = "returned" /\ ~life["cfg"].polling
            /\ life'["cfg"].by = None /\ life'["cfg"].phase \in {"stopped", "closed"}
      /\ job' = job /\ UNCHANGED <<status, requestVars, target, crossed>>
  BY <1>2, <1>3, <1>4
  DEF CloseConfiguration, Goto, Becomes, Monitors, IndInv, ConfigurationFollows
<1>6. TypeOK'
  BY <1>5
  DEF IndInv, TypeOK, Statuses, requestVars, Places, CloseConfiguration, Monitors, Life, L!TypeOK,
      L!Phases, L!Causes
<1>7. MonitorsRest'
  BY <1>5, ServiceAssumption DEF IndInv, MonitorsRest
<1>8. ConfigurationFollows'
  BY <1>5 DEF IndInv, ConfigurationFollows
<1>9. MonitorFollows'
  BY <1>5 DEF IndInv, MonitorFollows, BeforeListen, BeforeLoop, Closing
<1>10. RequestsAccepted'
  BY <1>5 DEF IndInv, RequestsAccepted, Reported, InLoop, requestVars, BeforeListen, BeforeLoop
<1>11. MonitorObeys'
  BY <1>5 DEF IndInv, MonitorObeys, InLoop
<1>12. QED
  BY <1>6, <1>7, <1>8, <1>9, <1>10, <1>11 DEF IndInv

(* What does not change of the monitors when they poll. *)
PollOnly ==
    /\ life' \in [Monitors -> Life]
    /\ life'["cfg"].phase = life["cfg"].phase /\ life'["mon"].phase = life["mon"].phase
    /\ life'["cfg"].by = life["cfg"].by /\ life'["mon"].by = life["mon"].by
    /\ life'["cfg"].attached = life["cfg"].attached
    /\ life'["mon"].attached = life["mon"].attached
    /\ life'["cfg"].polling => life["cfg"].polling \/ life["cfg"].phase = "running"
    /\ life'["mon"].polling => life["mon"].polling \/ life["mon"].phase = "running"

(* A poll begins, stalls or ends; when it ends Execute may be woken. *)
LEMMA PollKeeps ==
    ASSUME IndInv, PollOnly, UNCHANGED <<status, requestVars, job, updates, target, crossed>>,
           ready' \in BOOLEAN, pc' = pc \/ (pc = "waiting" /\ pc' = "woken")
    PROVE  IndInv'
<1>1. TypeOK'
  BY DEF IndInv, TypeOK, Statuses, requestVars, Places, PollOnly, Monitors, Life, L!TypeOK, L!Causes
<1>2. MonitorsRest'
  BY DEF IndInv, MonitorsRest, PollOnly
<1>3. ConfigurationFollows'
  BY DEF IndInv, ConfigurationFollows, PollOnly
<1>4. MonitorFollows'
  BY DEF IndInv, MonitorFollows, BeforeListen, BeforeLoop, PollOnly
<1>5. RequestsAccepted'
  BY DEF IndInv, RequestsAccepted, Reported, InLoop, requestVars, BeforeListen, BeforeLoop, PollOnly
<1>6. MonitorObeys'
  BY DEF IndInv, MonitorObeys, InLoop, Spawned, PollOnly
<1>7. QED
  BY <1>1, <1>2, <1>3, <1>4, <1>5, <1>6 DEF IndInv

(* The monitors keep the invariant. *)
LEMMA MonitorsKeep ==
    ASSUME IndInv,
           \/ \E m \in Monitors : PollBegins(m)
           \/ \E found \in BOOLEAN : Retrieve(found)
           \/ Broadcast \/ BacklogsEnd \/ StatHatStalls \/ QueryIsLost
    PROVE  IndInv'
<1>1. life \in [Monitors -> Life] /\ TypeOK /\ "cfg" \in Monitors /\ "mon" \in Monitors
  BY Types DEF IndInv
<1>2. ready \in BOOLEAN
  BY DEF IndInv, TypeOK
<1>3. ASSUME NEW m \in Monitors, PollBegins(m)
      PROVE  IndInv'
  <2>1. /\ life[m].phase = "running"
        /\ Becomes(m, life[m].phase, life[m].by, TRUE, life[m].attached)
    BY <1>1, <1>3, PollBeginsEffect DEF PollBegins
  <2>2. PollOnly
    BY <2>1, <1>1 DEF PollOnly, Becomes, Monitors
  <2>3. QED
    BY <1>2, <1>3, <2>2, PollKeeps DEF PollBegins
<1>4. ASSUME NEW found \in BOOLEAN, Retrieve(found)
      PROVE  IndInv'
  <2>1. /\ life["cfg"].polling
        /\ Becomes("cfg", life["cfg"].phase, life["cfg"].by, FALSE, life["cfg"].attached)
    BY <1>1, <1>4, PollEndsEffect DEF Retrieve
  <2>2. PollOnly
    BY <2>1, <1>1 DEF PollOnly, Becomes, Monitors
  <2>3. ready' \in BOOLEAN /\ (pc' = pc \/ (pc = "waiting" /\ pc' = "woken"))
    BY <1>2, <1>4 DEF Retrieve, Wakes
  <2>4. QED
    BY <1>4, <2>2, <2>3, PollKeeps DEF Retrieve
<1>5. ASSUME BacklogsEnd
      PROVE  IndInv'
  <2>1. /\ life["mon"].polling
        /\ Becomes("mon", life["mon"].phase, life["mon"].by, FALSE, life["mon"].attached)
    BY <1>1, <1>5, PollEndsEffect DEF BacklogsEnd
  <2>2. PollOnly
    BY <2>1, <1>1 DEF PollOnly, Becomes, Monitors
  <2>3. QED
    BY <1>2, <1>5, <2>2, PollKeeps DEF BacklogsEnd
<1>6. ASSUME StatHatStalls \/ QueryIsLost
      PROVE  IndInv'
  <2>1. /\ life["mon"].polling
        /\ Becomes("mon", life["mon"].phase, life["mon"].by, life["mon"].polling,
                   life["mon"].attached)
    BY <1>1, <1>6, StallEffect DEF StatHatStalls, QueryIsLost, L!Causes
  <2>2. PollOnly
    BY <2>1, <1>1 DEF PollOnly, Becomes, Monitors
  <2>3. QED
    BY <1>2, <1>6, <2>2, PollKeeps DEF StatHatStalls, QueryIsLost
<1>7. QED
  BY <1>3, <1>4, <1>5, <1>6, BroadcastKeeps

(* A Stop request is acted on. *)
LEMMA StopRequestKeeps ==
    ASSUME IndInv, StopRequest
    PROVE  IndInv'
<1>1. /\ pc = "act" /\ pc' = "loop" /\ doing' = None /\ target' = status'
      /\ status' = "StopPending"
      /\ crossed' = Overtakes("close") /\ "close" \in Actions /\ None # "close"
      /\ UNCHANGED <<accepted, request, current, life, ready, updates>>
  BY Types DEF IndInv, StopRequest, Act, Actions, Goto
<1>2. PICK j \in Jobs :
         /\ job[j].at = "new"
         /\ job' = [job EXCEPT ![j] = [do |-> "close", at |-> "spawned"]]
  BY DEF StopRequest, Act
<1>3. TypeOK'
  BY <1>1, <1>2 DEF IndInv, TypeOK, Statuses, Places, Overtakes, L!TypeOK
<1>4. MonitorsRest'
  BY <1>1 DEF IndInv, MonitorsRest
<1>5. ConfigurationFollows'
  BY <1>1 DEF IndInv, ConfigurationFollows
<1>6. MonitorFollows'
  BY <1>1, <1>2 DEF IndInv, MonitorFollows, BeforeListen, BeforeLoop, Closing
<1>7. RequestsAccepted'
  BY <1>1, Types
  DEF IndInv, RequestsAccepted, Reported, Requests, InLoop, BeforeListen, BeforeLoop
<1>8. MonitorObeys'
  BY <1>1 DEF IndInv, MonitorObeys, InLoop
<1>9. QED
  BY <1>3, <1>4, <1>5, <1>6, <1>7, <1>8 DEF IndInv

(* A Pause request is acted on. *)
LEMMA PauseRequestKeeps ==
    ASSUME IndInv, PauseRequest
    PROVE  IndInv'
<1>1. /\ pc = "act" /\ pc' = "loop" /\ doing' = None /\ target' = status'
      /\ status' = "Paused"
      /\ crossed' = Overtakes("stop") /\ "stop" \in Actions /\ None # "stop"
      /\ UNCHANGED <<accepted, request, current, life, ready, updates>>
  BY Types DEF IndInv, PauseRequest, Act, Actions, Goto
<1>2. PICK j \in Jobs :
         /\ job[j].at = "new"
         /\ job' = [job EXCEPT ![j] = [do |-> "stop", at |-> "spawned"]]
  BY DEF PauseRequest, Act
<1>3. JobBecomes(j, "stop", "spawned") /\ crossed' \in BOOLEAN
  BY <1>1, <1>2, SpawnEffect DEF IndInv, Overtakes
<1>4. TypeOK'
  BY <1>1, <1>2 DEF IndInv, TypeOK, Statuses, Places, Overtakes, L!TypeOK
<1>5. MonitorsRest'
  BY <1>1 DEF IndInv, MonitorsRest
<1>6. ConfigurationFollows'
  BY <1>1 DEF IndInv, ConfigurationFollows
<1>7. MonitorFollows'
  BY <1>1, <1>2 DEF IndInv, MonitorFollows, BeforeListen, BeforeLoop, Closing
<1>8. RequestsAccepted'
  BY <1>1, Types
  DEF IndInv, RequestsAccepted, Reported, Requests, InLoop, BeforeListen, BeforeLoop
<1>9. MonitorObeys'
  BY <1>1, <1>3 DEF IndInv, MonitorObeys, InLoop, Spawned, JobBecomes, Overtakes
<1>10. QED
  BY <1>4, <1>5, <1>6, <1>7, <1>8, <1>9 DEF IndInv

(* A Continue request is acted on. *)
LEMMA ContinueRequestKeeps ==
    ASSUME IndInv, ContinueRequest
    PROVE  IndInv'
<1>1. /\ pc = "act" /\ pc' = "loop" /\ doing' = None /\ target' = status'
      /\ status' = "Running"
      /\ crossed' = Overtakes("start") /\ "start" \in Actions /\ None # "start"
      /\ UNCHANGED <<accepted, request, current, life, ready, updates>>
  BY Types DEF IndInv, ContinueRequest, Act, Actions, Goto
<1>2. PICK j \in Jobs :
         /\ job[j].at = "new"
         /\ job' = [job EXCEPT ![j] = [do |-> "start", at |-> "spawned"]]
  BY DEF ContinueRequest, Act
<1>3. JobBecomes(j, "start", "spawned") /\ crossed' \in BOOLEAN
  BY <1>1, <1>2, SpawnEffect DEF IndInv, Overtakes
<1>4. TypeOK'
  BY <1>1, <1>2 DEF IndInv, TypeOK, Statuses, Places, Overtakes, L!TypeOK
<1>5. MonitorsRest'
  BY <1>1 DEF IndInv, MonitorsRest
<1>6. ConfigurationFollows'
  BY <1>1 DEF IndInv, ConfigurationFollows
<1>7. MonitorFollows'
  BY <1>1, <1>2 DEF IndInv, MonitorFollows, BeforeListen, BeforeLoop, Closing
<1>8. RequestsAccepted'
  BY <1>1, Types
  DEF IndInv, RequestsAccepted, Reported, Requests, InLoop, BeforeListen, BeforeLoop
<1>9. MonitorObeys'
  BY <1>1, <1>3 DEF IndInv, MonitorObeys, InLoop, Spawned, JobBecomes, Overtakes
<1>10. QED
  BY <1>4, <1>5, <1>6, <1>7, <1>8, <1>9 DEF IndInv

(* A goroutine gets hold of the backlog monitor, and begins to close or stop it,
   starts it, or finds nothing to do. *)
LEMMA CalledKeeps ==
    ASSUME IndInv, NEW j \in Jobs, Called(j)
    PROVE  IndInv'
<1>1. "mon" \in Monitors /\ j \in Callers
  BY DEF Monitors, Callers
<1>2. /\ job[j].at = "spawned" /\ life["mon"].by = None
      /\ UNCHANGED <<pc, status, accepted, request, doing, current, ready, updates, target,
                     crossed>>
  BY DEF Called, L!Free, requestVars
<1>3. \/ /\ job' = [job EXCEPT ![j].at = "called"]
         /\ \/ /\ job[j].do = "close" /\ life["mon"].phase \in {"stopped", "running"}
               /\ Becomes("mon", "closing", j, life["mon"].polling, life["mon"].attached)
            \/ /\ job[j].do = "stop" /\ life["mon"].phase = "running"
               /\ Becomes("mon", "stopping", j, life["mon"].polling, life["mon"].attached)
      \/ /\ job' = [job EXCEPT ![j].at = "done"]
         /\ \/ /\ job[j].do = "start" /\ life["mon"].phase = "stopped"
               /\ Becomes("mon", "running", life["mon"].by, life["mon"].polling,
                          life["mon"].attached)
            \/ /\ life' = life
               /\ \/ job[j].do = "close" /\ life["mon"].phase = "closed"
                  \/ job[j].do = "stop" /\ life["mon"].phase # "running"
                  \/ job[j].do = "start" /\ life["mon"].phase # "stopped"
  BY <1>1, CloseEffect, StopEffect, StartEffect DEF IndInv, Called
<1>4. \/ JobBecomes(j, job[j].do, "called") /\ job'[j].at = "called"
      \/ JobBecomes(j, job[j].do, "done") /\ job'[j].at = "done"
  BY <1>3, JobEffect DEF IndInv, JobBecomes
<1>5. TypeOK'
  BY <1>2, <1>3
  DEF IndInv, TypeOK, Statuses, requestVars, Becomes, Monitors, Life, L!TypeOK, L!Phases, L!Causes
<1>6. MonitorsRest'
  BY <1>3, ServiceAssumption DEF IndInv, MonitorsRest, Becomes, Monitors
<1>7. ConfigurationFollows'
  BY <1>2, <1>3 DEF IndInv, ConfigurationFollows, Becomes, Monitors
<1>8. MonitorFollows'
  BY <1>2, <1>3, <1>4, ServiceAssumption
  DEF IndInv, MonitorFollows, JobBecomes, Becomes, JobType
<1>9. RequestsAccepted'
  BY <1>2, <1>3, <1>4
  DEF IndInv, RequestsAccepted, Reported, InLoop, requestVars, JobBecomes, Becomes
<1>10. MonitorObeys'
  <2>1. SUFFICES ASSUME pc \in InLoop, ~crossed,
                        life'["mon"].phase \in {"stopped", "running", "stopping"}
                 PROVE  /\ target = "Running" =>
                              /\ \A i \in Jobs : job'[i].at = "spawned" => job'[i].do = "start"
                              /\ life'["mon"].phase = "running"
                        /\ target = "Paused" =>
                              /\ \A i \in Jobs : job'[i].at = "spawned" => job'[i].do = "stop"
                              /\ life'["mon"].phase \in {"stopping", "stopped"}
    BY <1>2 DEF MonitorObeys, Spawned
  <2>2. \A i \in Jobs : job'[i].at = "spawned" => /\ job[i].at = "spawned"
                                                 /\ job'[i].do = job[i].do
    BY <1>2, <1>4 DEF JobBecomes
  <2>3. life["mon"].phase \in {"stopped", "running"}
    <3>1. life["mon"].phase \in {"stopped", "running", "stopping", "closing", "closed"}
      BY <1>1, Types DEF IndInv, Life
    <3>2. life["mon"].phase # "closed"
      BY <1>3, <2>1 DEF Becomes
    <3> QED
      BY <1>2, <3>1, <3>2 DEF IndInv, MonitorsRest
  <2>4. /\ target = "Running" => \A i \in Jobs : job[i].at = "spawned" => job[i].do = "start"
        /\ target = "Paused" => \A i \in Jobs : job[i].at = "spawned" => job[i].do = "stop"
    BY <2>1, <2>3 DEF IndInv, MonitorObeys, Spawned
  <2>5. /\ job[j].do = "start" /\ life["mon"].phase \in {"stopped", "running"}
              => life'["mon"].phase = "running"
        /\ job[j].do = "stop" /\ life["mon"].phase \in {"stopped", "running"}
              => life'["mon"].phase \in {"stopping", "stopped"}
    BY <1>3 DEF Becomes
  <2>6. QED
    BY <1>2, <2>2, <2>3, <2>4, <2>5
<1>11. QED
  BY <1>5, <1>6, <1>7, <1>8, <1>9, <1>10 DEF IndInv

(* A goroutine has closed or stopped the backlog monitor. *)
LEMMA FinishKeeps ==
    ASSUME IndInv, NEW j \in Jobs, Finish(j)
    PROVE  IndInv'
<1>1. "mon" \in Monitors /\ j \in Callers
  BY DEF Monitors, Callers
<1>2. /\ job[j].at = "called" /\ L!Returns("mon", j) /\ job' = [job EXCEPT ![j].at = "done"]
      /\ UNCHANGED <<pc, status, accepted, request, doing, current, ready, updates, target,
                     crossed>>
  BY DEF Finish, requestVars
<1>3. /\ life["mon"].by = j /\ ~life["mon"].polling
      /\ \/ /\ life["mon"].phase = "stopping"
            /\ Becomes("mon", "stopped", None, life["mon"].polling, life["mon"].attached)
         \/ /\ life["mon"].phase = "closing"
            /\ Becomes("mon", "closed", None, life["mon"].polling, {})
  BY <1>1, <1>2, ReturnsEffect DEF IndInv
<1>4. JobBecomes(j, job[j].do, "done")
  BY <1>2, JobEffect DEF IndInv
<1>5. TypeOK'
  BY <1>2, <1>3
  DEF IndInv, TypeOK, Statuses, requestVars, Becomes, Monitors, Life, L!TypeOK, L!Phases, L!Causes
<1>6. MonitorsRest'
  BY <1>3 DEF IndInv, MonitorsRest, Becomes, Monitors
<1>7. ConfigurationFollows'
  BY <1>2, <1>3 DEF IndInv, ConfigurationFollows, Becomes, Monitors
<1>8. MonitorFollows'
  BY <1>2, <1>3, <1>4, ServiceAssumption DEF IndInv, MonitorFollows, JobBecomes, Becomes
<1>9. RequestsAccepted'
  BY <1>2, <1>3 DEF IndInv, RequestsAccepted, Reported, InLoop, requestVars, Becomes
<1>10. MonitorObeys'
  BY <1>2, <1>3 DEF IndInv, MonitorObeys, InLoop, Spawned, Becomes
<1>11. QED
  BY <1>5, <1>6, <1>7, <1>8, <1>9, <1>10 DEF IndInv

(* Initially the invariant holds. *)
LEMMA InitIndInv == Init => IndInv
<1>1. SUFFICES ASSUME Init PROVE IndInv
  OBVIOUS
<1>2. /\ pc = "begin" /\ status = "Stopped" /\ accepted = None /\ request = None
      /\ doing = None /\ current = [request |-> None, doing |-> None]
      /\ ready = FALSE /\ target = "Stopped"
      /\ updates = 0 /\ crossed = FALSE
      /\ job = [j \in Jobs |-> [do |-> None, at |-> "new"]]
      /\ life = [m \in Monitors |-> L!New]
  BY <1>1 DEF Init, L!Init, Monitors
<1>3. /\ L!New \in Life /\ L!New.phase = "stopped" /\ L!New.by = None
      /\ L!New.polling = FALSE /\ L!New.attached = {}
  BY DEF L!New, Life
<1>4. /\ life \in [Monitors -> Life]
      /\ \A m \in Monitors : /\ life[m].phase = "stopped" /\ life[m].by = None
                              /\ life[m].polling = FALSE /\ life[m].attached = {}
  BY <1>2, <1>3
<1>5. /\ job \in [Jobs -> JobType]
      /\ \A j \in Jobs : job[j].do = None /\ job[j].at = "new"
  BY <1>2 DEF JobType
<1>6. TypeOK
  <2>1. L!TypeOK /\ job \in [Jobs -> [do : Actions \cup {None},
                                      at : {"new", "spawned", "called", "done"}]]
    BY <1>4, <1>5 DEF L!TypeOK, L!Phases, L!Causes, Life, JobType, Monitors
  <2>2. updates \in 0 .. ChanSize
    BY <1>2, ServiceAssumption
  <2>3. /\ pc \in Places /\ \A v \in {accepted, request, doing} : v \in Requests \cup {None}
        /\ current \in [request : Statuses \cup {None}, doing : Statuses \cup {None}]
        /\ ready \in BOOLEAN /\ crossed \in BOOLEAN
        /\ status \in Statuses /\ target \in Statuses
    BY <1>2 DEF Places, Statuses
  <2>4. QED
    BY <1>2, <2>1, <2>2, <2>3 DEF TypeOK
<1>7. MonitorsRest /\ ConfigurationFollows
  BY <1>2, <1>4 DEF MonitorsRest, ConfigurationFollows, Monitors
<1>8. MonitorFollows /\ RequestsAccepted /\ MonitorObeys
  BY <1>2, <1>4, <1>5, ServiceAssumption
  DEF MonitorFollows, RequestsAccepted, Reported, MonitorObeys, BeforeListen, BeforeLoop, InLoop,
      Closing, Monitors
<1>9. QED
  BY <1>6, <1>7, <1>8 DEF IndInv

(* Every step keeps the invariant, and so does one that changes nothing. *)
LEMMA NextKeeps ==
    ASSUME IndInv, [Next]_vars
    PROVE  IndInv'
<1>1. ASSUME Execute
      PROVE  IndInv'
  BY <1>1, BeginKeeps, StartConfigurationKeeps, WaitReadyKeeps, WaitReadyReturnsKeeps,
     ListenToMonitorKeeps, StartMonitorKeeps, ReceiveUpdateKeeps, MonitorGoneKeeps,
     ReceiveRequestKeeps, InterrogateKeeps, StopRequestKeeps, PauseRequestKeeps,
     ContinueRequestKeeps,
     CloseMonitorKeeps, CloseConfigurationKeeps, ReportStoppedKeeps
  DEF Execute, TakesUpdate, ActsOnRequest
<1>2. ASSUME (\E r \in Asked : Send(r)) \/ Deliver
      PROVE  IndInv'
  BY <1>2, SendKeeps, DeliverKeeps, ServiceAssumption
<1>3. ASSUME NEW j \in Jobs, JobStep(j)
      PROVE  IndInv'
  BY <1>3, CalledKeeps, FinishKeeps DEF JobStep
<1>4. ASSUME \/ \E m \in Monitors : PollBegins(m)
             \/ \E found \in BOOLEAN : Retrieve(found)
             \/ Broadcast \/ BacklogsEnd \/ StatHatStalls \/ QueryIsLost
      PROVE  IndInv'
  BY <1>4, MonitorsKeep
<1>5. ASSUME UNCHANGED vars
      PROVE  IndInv'
  BY <1>5
  DEF vars, IndInv, TypeOK, L!TypeOK, MonitorsRest, ConfigurationFollows, MonitorFollows,
      RequestsAccepted, MonitorObeys, Spawned, requestVars
<1>6. QED
  BY <1>1, <1>2, <1>3, <1>4, <1>5 DEF Next, Monitors

(* The inductive invariant holds in every state. *)
THEOREM Invariance == Spec => []IndInv
<1>1. IndInv /\ [Next]_vars => IndInv'
  BY NextKeeps
<1>2. QED
  BY InitIndInv, <1>1, PTL DEF Spec

(* The variables of the service keep their types. *)
THEOREM ServiceTypes == Spec => []TypeOK
<1>1. IndInv => TypeOK
  BY DEF IndInv
<1>2. QED
  BY <1>1, Invariance, PTL

(* The status that the service reports is true: once the goroutines of the
   requests have come to rest the monitor is running when it is said to be and
   stopped when it is said to be paused, unless the last request overtook an
   earlier one or an Interrogate has brought back an older status. *)
THEOREM StatusIsTrue == Spec => []StatusAgrees
<1>1. IndInv => StatusAgrees
  <2>1. SUFFICES ASSUME IndInv, pc = "loop", ~crossed, status = target,
                        life["mon"].phase # "closed",
                        \A j \in Jobs : job[j].at \in {"new", "done"}
                 PROVE  /\ status = "Running" => life["mon"].phase = "running"
                        /\ status = "Paused" => life["mon"].phase = "stopped"
    BY DEF StatusAgrees, Settled
  <2>2. \A j \in Jobs : ~Spawned(j) /\ life["mon"].by # j
    BY <2>1 DEF IndInv, MonitorFollows, Spawned
  <2>3. life["mon"].by = None
    <3>1. life["mon"].by \in Callers \cup {None}
      BY <2>1 DEF IndInv, TypeOK, Statuses, requestVars, L!TypeOK
    <3>2. QED
      BY <2>1, <2>2, <3>1 DEF IndInv, MonitorFollows, Callers
  <2>4. life["mon"].phase \in {"stopped", "running"}
    <3>1. life["mon"].phase \in {"stopped", "running", "stopping", "closing", "closed"}
      BY <2>1, Types DEF IndInv, Life
    <3>2. QED
      BY <2>1, <2>3, <3>1 DEF IndInv, MonitorsRest
  <2>5. QED
    BY <2>1, <2>2, <2>4 DEF IndInv, MonitorObeys, InLoop
<1>2. QED
  BY <1>1, Invariance, PTL

(* When Execute has returned, whichever way, the configuration monitor and the
   backlog monitor are at rest and nobody listens to them. *)
THEOREM NothingIsLeft == Spec => []LeavesNothing
<1>1. IndInv => LeavesNothing
  BY DEF IndInv, LeavesNothing, AtRest, MonitorsRest, ConfigurationFollows, MonitorFollows, Closing
<1>2. QED
  BY <1>1, Invariance, PTL
=============================================================================
