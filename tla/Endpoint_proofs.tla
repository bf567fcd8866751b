--------------------------- MODULE Endpoint_proofs --------------------------
(***************************************************************************)
(* Proofs about Endpoint, for any callers, connections, configurations,    *)
(* channel size and number of reports: its invariants, what a failed call  *)
(* leaves behind, and that it implements EndpointContract.                 *)
(***************************************************************************)
EXTENDS Endpoint, SequenceTheorems, TLAPS

(* An attempt that is to land has ended, and nobody uses its name.  The
   connection in use, and the one about to be retired, are open, and all three
   are different. *)
Attempts ==
    /\ \A r \in landing :
          /\ conns[r].status \in {"open", "failed"}
          /\ \A c \in Callers : snap[c] # r
    /\ cur # None => conns[cur].status = "open" /\ cur \notin landing
    /\ sending # None /\ sending.retire # None =>
          /\ conns[sending.retire].status = "open"
          /\ sending.retire # cur /\ sending.retire \notin landing

(* Exactly one attempt calls ready.Done(): run() has it still to make, it is to
   land, it is being recorded, or it is done. *)
FirstLanding == {r \in landing : conns[r].first}
MakesReady == sending # None /\ sending.ready
ReadyOnce ==
    /\ ~run.initialized => ready = 1 /\ FirstLanding = {} /\ ~MakesReady
    /\ \A r, s \in FirstLanding : r = s
    /\ FirstLanding # {} => ready = 1 /\ ~MakesReady
    /\ MakesReady => ready = 1 /\ sending.to = "state"

(* The mutex is held over a send by at most one caller, which has read the
   state if it is in a query, and then no attempt is being recorded. *)
Senders ==
    /\ \A c \in Callers : pc[c] = "sending" =>
          /\ sending # None /\ ~MakesReady
          /\ sending.to = "state" => ready = 0
    /\ \A c, d \in Callers : pc[c] = "sending" /\ pc[d] = "sending" => c = d
    /\ \A c \in Callers : pc[c] \in {"query", "after"} => ready = 0

(* One caller closes the endpoint, after run() has ended. *)
Closers ==
    /\ run.at = "done" => Closed
    /\ \A c \in Callers : Closing(c) => Closed
    /\ \A c, d \in Callers : Closing(c) /\ Closing(d) => c = d
    /\ \A c \in Callers : pc[c] = "release" => run.at = "done"

(* The newest report is on its way, or it is the one that counts. *)
Newest == {p \in reports.pending : p.seq = reports.count}
ReportsInOrder ==
    /\ \A p \in reports.pending : p.seq <= reports.count
    /\ sequence <= reports.count
    /\ \A p \in Newest : p.calls = tracked
    /\ Newest = {} /\ ~Closed => sequence = reports.count /\ calls = tracked

(* A call that was overtaken, though not by a report, has nothing to add: the
   endpoint is offline already, or the call is about another connection. *)
Overtaking ==
    /\ \A c \in Callers : result[c] = "none" <=> pc[c] # "after"
    /\ \A c \in overtaken : pc[c] = "after"
    /\ \A c \in overtaken \ hidden : snap[c] = cur => ~Online

IndInv ==
    /\ TypeOK
    /\ Attempts
    /\ ReadyOnce
    /\ Senders
    /\ Closers
    /\ ReportsInOrder
    /\ Overtaking
    /\ OnlineMeansConnected
    /\ ConnectionsAccounted
    /\ RunIsInformed

-----------------------------------------------------------------------------
(* A message that is taken from a channel leaves the last one last. *)
LEMMA TailLast ==
    ASSUME NEW S, NEW s \in Seq(S), s # <<>>
    PROVE  /\ Head(s) \in S /\ Tail(s) \in Seq(S) /\ Len(Tail(s)) = Len(s) - 1
           /\ Tail(s) # <<>> => Last(Tail(s)) = Last(s)
           /\ Tail(s) = <<>> => Head(s) = Last(s)
  <1>1. /\ Head(s) \in S /\ Tail(s) \in Seq(S) /\ Len(Tail(s)) = Len(s) - 1
        /\ \A i \in 1 .. Len(Tail(s)) : Tail(s)[i] = s[i + 1]
    BY HeadTailProperties
  <1>2. Len(s) \in Nat \ {0}
    BY EmptySeq
  <1> DEFINE t == Tail(s)
  <1>3. t \in Seq(S) /\ Len(t) = Len(s) - 1 /\ \A i \in 1 .. Len(t) : t[i] = s[i + 1]
    BY <1>1
  <1>4. t # <<>> => Last(t) = Last(s)
    <2> HIDE DEF t
    <2> SUFFICES ASSUME t # <<>> PROVE t[Len(t)] = s[Len(s)]
      BY DEF Last
    <2>1. Len(t) \in Nat \ {0}
      BY <1>3, EmptySeq
    <2>2. Len(t) \in 1 .. Len(t) /\ Len(t) + 1 = Len(s)
      BY <1>2, <1>3, <2>1
    <2> QED
      BY <1>3, <2>2
  <1>5. t = <<>> => Len(s) = 1
    <2> HIDE DEF t
    <2> QED
      BY <1>2, <1>3, EmptySeq
  <1>6. Len(s) = 1 => Head(s) = Last(s)
    BY DEF Last
  <1> QED
    BY <1>1, <1>4, <1>5, <1>6

(* A message that is sent becomes the last one. *)
LEMMA AppendLast ==
    ASSUME NEW S, NEW s \in Seq(S), NEW x \in S
    PROVE  /\ Append(s, x) \in Seq(S) /\ Len(Append(s, x)) = Len(s) + 1
           /\ Append(s, x) # <<>> /\ Last(Append(s, x)) = x
  <1>1. /\ Append(s, x) \in Seq(S) /\ Len(Append(s, x)) = Len(s) + 1
        /\ Append(s, x)[Len(s) + 1] = x
    BY AppendProperties
  <1>2. Len(s) \in Nat
    BY LenProperties
  <1>3. Append(s, x) # <<>>
    BY <1>1, <1>2, EmptySeq
  <1> QED
    BY <1>1, <1>3 DEF Last

-----------------------------------------------------------------------------
(* NewEndpoint *)
LEMMA InitIndInv == Init => IndInv
  <1> SUFFICES ASSUME Init PROVE IndInv
    OBVIOUS
  <1> USE EndpointAssumption DEF Init
  <1>1. TypeOK
    <2>1. /\ <<>> \in Seq(Configs) /\ <<>> \in Seq(BOOLEAN)
          /\ Len(configChange) <= ChanSize /\ Len(stateChange) <= ChanSize
      OBVIOUS
    <2>2. /\ conns \in [Conns -> [status : {"open", "failed", "closed"}, first : BOOLEAN]]
          /\ run \in [at : {"select", "connecting", "exited", "done"}, online : BOOLEAN,
                      config : Configs, timer : {"set", "due", "postponed"},
                      initialized : BOOLEAN]
          /\ reports \in [count : 0 .. MaxReports, pending : SUBSET Reports]
      BY DEF NoConn
    <2> QED
      BY <2>1, <2>2 DEF TypeOK, Errors, Results
  <1>2. Attempts /\ ReadyOnce /\ Senders /\ Closers
    BY DEF Attempts, ReadyOnce, FirstLanding, MakesReady, Senders, Closers, Closing, Closed
  <1>3. ReportsInOrder /\ Overtaking
    BY DEF ReportsInOrder, Newest, Overtaking
  <1>4. OnlineMeansConnected /\ ConnectionsAccounted
    BY DEF OnlineMeansConnected, ConnectionsAccounted, Online, NoConn
  <1>5. RunIsInformed
    BY DEF RunIsInformed, LatestState, LatestConfig, Online
  <1> QED
    BY <1>1, <1>2, <1>3, <1>4, <1>5 DEF IndInv

-----------------------------------------------------------------------------
Timers == {"set", "due", "postponed"}
Runs == [at : {"select", "connecting", "exited", "done"}, online : BOOLEAN,
         config : Configs, timer : Timers, initialized : BOOLEAN]

(* What run() does by itself, between two attempts. *)
LEMMA RunFrame ==
    ASSUME IndInv, RunConfig \/ RunState \/ RunExit \/ TimerExpires \/ RunConnect
    PROVE  /\ UNCHANGED <<err, calls, sequence, config, cur, ready, sending, conns,
                          landing, pc, snap, result, overtaken, hidden, tracked, reports>>
           /\ run' \in Runs /\ run'.initialized = run.initialized
           /\ run.at = "select"
           /\ run'.at \in {"select", "connecting"} \/ (run'.at = "done" /\ RunExit)
  <1>1. run \in Runs
    BY DEF IndInv, TypeOK, Runs, Timers
  <1>2. CASE RunConfig
    <2>1. Head(configChange) \in Configs
      BY <1>2, TailLast DEF RunConfig, IndInv, TypeOK
    <2>2. PICK timer \in Timers :
             run' = [run EXCEPT !.config = Head(configChange), !.timer = timer]
      <3>1. run.timer \in Timers /\ Retimed \subseteq Timers
        BY <1>1 DEF Runs, Retimed, Timers
      <3> QED
        BY <1>2, <3>1 DEF RunConfig, Timers
    <2>3. run' \in Runs /\ run'.initialized = run.initialized /\ run'.at = run.at
      BY <1>1, <2>1, <2>2 DEF Runs
    <2>4. /\ run.at = "select"
          /\ UNCHANGED <<err, calls, sequence, config, cur, ready, sending, conns,
                         landing, pc, snap, result, overtaken, hidden, tracked, reports>>
      BY <1>2 DEF RunConfig, connVars, callVars, trackerVars
    <2> QED
      BY <2>3, <2>4
  <1>3. CASE RunState
    <2>1. Head(stateChange) \in BOOLEAN
      BY <1>3, TailLast DEF RunState, IndInv, TypeOK
    <2>2. TimerAfter(Head(stateChange)) \in Timers
      BY <1>1 DEF TimerAfter, Runs, Timers
    <2>3. run' \in Runs /\ run'.initialized = run.initialized /\ run'.at = run.at
      BY <1>1, <1>3, <2>1, <2>2 DEF RunState, Runs
    <2>4. /\ run.at = "select"
          /\ UNCHANGED <<err, calls, sequence, config, cur, ready, sending, conns,
                         landing, pc, snap, result, overtaken, hidden, tracked, reports>>
      BY <1>3 DEF RunState, connVars, callVars, trackerVars
    <2> QED
      BY <2>3, <2>4
  <1>4. CASE RunExit \/ TimerExpires \/ RunConnect
    <2>1. \A p \in {"select", "connecting", "exited", "done"} :
             /\ [run EXCEPT !.at = p] \in Runs /\ [run EXCEPT !.at = p].at = p
             /\ [run EXCEPT !.at = p].initialized = run.initialized
      BY <1>1 DEF Runs
    <2>2. CASE RunExit
      BY <2>1, <2>2 DEF RunExit, Exit, connVars, callVars, trackerVars
    <2>3. CASE RunConnect
      BY <2>1, <2>3 DEF RunConnect, connVars, callVars, trackerVars
    <2>4. CASE TimerExpires
      <3>1. /\ [run EXCEPT !.timer = "due"] \in Runs
            /\ [run EXCEPT !.timer = "due"].at = run.at
            /\ [run EXCEPT !.timer = "due"].initialized = run.initialized
        BY <1>1 DEF Runs, Timers
      <3> QED
        BY <2>4, <3>1 DEF TimerExpires, connVars, callVars, trackerVars
    <2> QED
      BY <1>4, <2>2, <2>3, <2>4
  <1> QED
    BY <1>2, <1>3, <1>4

(* The channels after a step of run(), and that it knows what it has read. *)
LEMMA RunChannels ==
    ASSUME IndInv, RunConfig \/ RunState \/ RunExit \/ TimerExpires \/ RunConnect
    PROVE  /\ configChange' \in Seq(Configs) /\ Len(configChange') <= ChanSize
           /\ stateChange' \in Seq(BOOLEAN) /\ Len(stateChange') <= ChanSize
           /\ LatestState' = LatestState /\ LatestConfig' = LatestConfig
  <1>1. /\ run \in Runs
        /\ configChange \in Seq(Configs) /\ Len(configChange) <= ChanSize
        /\ stateChange \in Seq(BOOLEAN) /\ Len(stateChange) <= ChanSize
    BY DEF IndInv, TypeOK, Runs, Timers
  <1>2. Len(configChange) \in Nat /\ Len(stateChange) \in Nat /\ ChanSize \in Nat
    BY <1>1, LenProperties, EndpointAssumption
  <1>3. CASE RunConfig
    <2>1. /\ configChange # <<>> /\ configChange' = Tail(configChange)
          /\ UNCHANGED <<stateChange, sending>>
          /\ run'.config = Head(configChange) /\ run'.online = run.online
      BY <1>1, <1>3 DEF RunConfig, Runs
    <2>2. /\ Tail(configChange) \in Seq(Configs)
          /\ Len(Tail(configChange)) = Len(configChange) - 1
          /\ Tail(configChange) # <<>> => Last(Tail(configChange)) = Last(configChange)
          /\ Tail(configChange) = <<>> => Head(configChange) = Last(configChange)
      BY <1>1, <2>1, TailLast
    <2> QED
      BY <1>1, <1>2, <2>1, <2>2 DEF LatestState, LatestConfig
  <1>4. CASE RunState
    <2>1. /\ stateChange # <<>> /\ stateChange' = Tail(stateChange)
          /\ UNCHANGED <<configChange, sending>>
          /\ run'.online = Head(stateChange) /\ run'.config = run.config
      BY <1>1, <1>4 DEF RunState, Runs
    <2>2. /\ Tail(stateChange) \in Seq(BOOLEAN)
          /\ Len(Tail(stateChange)) = Len(stateChange) - 1
          /\ Tail(stateChange) # <<>> => Last(Tail(stateChange)) = Last(stateChange)
          /\ Tail(stateChange) = <<>> => Head(stateChange) = Last(stateChange)
      BY <1>1, <2>1, TailLast
    <2> QED
      BY <1>1, <1>2, <2>1, <2>2 DEF LatestState, LatestConfig
  <1>5. CASE RunExit \/ TimerExpires \/ RunConnect
    <2>1. /\ UNCHANGED <<configChange, stateChange, sending>>
          /\ run'.online = run.online /\ run'.config = run.config
      BY <1>1, <1>5 DEF RunExit, TimerExpires, RunConnect, Runs, chanVars
    <2> QED
      BY <1>1, <2>1 DEF LatestState, LatestConfig
  <1> QED
    BY <1>3, <1>4, <1>5

(* These steps of run() change nothing but what it knows. *)
LEMMA RunKeeps ==
    ASSUME IndInv, RunConfig \/ RunState \/ RunExit \/ TimerExpires \/ RunConnect
    PROVE  IndInv'
  <1>1. /\ UNCHANGED <<err, calls, sequence, config, cur, ready, sending, conns, landing,
                       pc, snap, result, overtaken, hidden, tracked, reports>>
        /\ run' \in Runs /\ run'.initialized = run.initialized
        /\ run.at = "select"
        /\ run'.at \in {"select", "connecting"} \/ (run'.at = "done" /\ RunExit)
    BY RunFrame
  <1> USE DEF IndInv
  <1>2. TypeOK'
    BY <1>1, RunChannels DEF TypeOK, Runs, Timers
  <1>3. Attempts' /\ ReadyOnce' /\ Senders'
    BY <1>1 DEF Attempts, ReadyOnce, Senders, FirstLanding, MakesReady
  <1>4. Closers'
    BY <1>1 DEF Closers, Closing, Closed, RunExit
  <1>5. ReportsInOrder' /\ Overtaking'
    BY <1>1 DEF ReportsInOrder, Newest, Overtaking, Online, Closed
  <1>6. OnlineMeansConnected' /\ ConnectionsAccounted'
    BY <1>1 DEF OnlineMeansConnected, ConnectionsAccounted, Online
  <1>7. RunIsInformed'
    BY <1>1, RunChannels DEF RunIsInformed, Closed, Online
  <1> QED
    BY <1>2, <1>3, <1>4, <1>5, <1>6, <1>7

(* An attempt ends: it has a name of its own, and it is the first one exactly
   if none was made before. *)
LEMMA RunConnectedKeeps ==
    ASSUME IndInv, NEW r \in Conns, RunConnected(r)
    PROVE  IndInv'
  <1>1. /\ UNCHANGED <<err, calls, sequence, config, cur, ready, sending, configChange,
                       stateChange, pc, snap, result, overtaken, hidden, tracked, reports>>
        /\ landing' = landing \cup {r}
        /\ conns[r].status = "closed" /\ \A c \in Callers : snap[c] # r
        /\ run.at = "connecting"
    BY DEF RunConnected, Available, chanVars, callVars, trackerVars
  <1> USE DEF IndInv
  <1>2. /\ run \in Runs
        /\ conns \in [Conns -> [status : {"open", "failed", "closed"}, first : BOOLEAN]]
    BY DEF TypeOK, Runs, Timers
  <1>3. PICK status \in {"open", "failed"} :
           conns' = [conns EXCEPT ![r] = [status |-> status, first |-> ~run.initialized]]
    BY DEF RunConnected
  <1>4. /\ conns'[r].status = status /\ conns'[r].first = ~run.initialized
        /\ \A s \in Conns : s # r => conns'[s] = conns[s]
        /\ conns' \in [Conns -> [status : {"open", "failed", "closed"}, first : BOOLEAN]]
    BY <1>2, <1>3 DEF Runs
  <1>5. /\ run' \in Runs /\ run'.initialized = TRUE /\ run'.at = "select"
        /\ run'.online = run.online /\ run'.config = run.config
    BY <1>2 DEF RunConnected, Runs, Timers, SetsInitialized
  <1>6. /\ r \notin landing /\ r # cur
        /\ sending # None => r # sending.retire
    BY <1>1, EndpointAssumption DEF Attempts
  <1>7. landing \subseteq Conns
    BY DEF TypeOK
  <1>8. TypeOK'
    BY <1>1, <1>4, <1>5 DEF TypeOK, Runs, Timers
  <1>9. cur \in Conns \cup {None} /\ (sending # None => sending.retire \in Conns \cup {None})
    BY DEF TypeOK, Section
  <1>10. Attempts'
    BY <1>1, <1>4, <1>6, <1>7, <1>9 DEF Attempts
  <1>11. ReadyOnce'
    <2>1. FirstLanding' = IF run.initialized THEN FirstLanding ELSE FirstLanding \cup {r}
      BY <1>1, <1>4, <1>6, <1>7 DEF FirstLanding
    <2> QED
      BY <1>1, <1>5, <2>1 DEF ReadyOnce, MakesReady
  <1>12. Senders' /\ Closers'
    BY <1>1, <1>5 DEF Senders, MakesReady, Closers, Closing, Closed
  <1>13. ReportsInOrder' /\ Overtaking'
    BY <1>1 DEF ReportsInOrder, Newest, Overtaking, Online, Closed
  <1>14. OnlineMeansConnected' /\ ConnectionsAccounted'
    BY <1>1, <1>4, <1>6, <1>9
    DEF OnlineMeansConnected, ConnectionsAccounted, Online
  <1>15. RunIsInformed'
    BY <1>1, <1>5 DEF RunIsInformed, LatestState, LatestConfig, Closed, Online
  <1> QED
    BY <1>8, <1>10, <1>11, <1>12, <1>13, <1>14, <1>15

(* A caller begins a call. *)
LEMMA BeginKeeps ==
    ASSUME IndInv, NEW c \in Callers, BeginQuery(c) \/ BeginConfig(c) \/ BeginClose(c)
    PROVE  IndInv'
  <1>1. PICK at \in {"ready", "config", "close"} : Begin(c, at)
    BY DEF BeginQuery, BeginConfig, BeginClose
  <1>2. UNCHANGED <<err, calls, sequence, config, cur, ready, sending, configChange,
                    stateChange, run, conns, landing, snap, result, overtaken, hidden,
                    tracked, reports>>
    BY <1>1 DEF Begin, chanVars, connVars, trackerVars
  <1> USE DEF IndInv
  <1>3. /\ pc[c] = "idle" /\ pc'[c] = at /\ \A d \in Callers : d # c => pc'[d] = pc[d]
        /\ pc' \in [Callers -> {"idle", "ready", "query", "lost", "hung",
                                "after", "config", "close", "await", "release", "sending"}]
    BY <1>1 DEF Begin, TypeOK
  <1>4. TypeOK'
    BY <1>2, <1>3 DEF TypeOK
  <1>5. Attempts' /\ ReadyOnce' /\ OnlineMeansConnected' /\ ConnectionsAccounted'
    BY <1>2
    DEF Attempts, ReadyOnce, FirstLanding, MakesReady, OnlineMeansConnected,
        ConnectionsAccounted, Online
  <1>6. Senders' /\ Closers'
    BY <1>2, <1>3 DEF Senders, MakesReady, Closers, Closing, Closed
  <1>7. ReportsInOrder' /\ RunIsInformed'
    BY <1>2
    DEF ReportsInOrder, Newest, RunIsInformed, LatestState, LatestConfig, Closed, Online
  <1>8. Overtaking'
    BY <1>2, <1>3 DEF Overtaking, Online, TypeOK
  <1> QED
    BY <1>4, <1>5, <1>6, <1>7, <1>8

(* The call tracker makes a report, which is the newest. *)
LEMMA TrackKeeps ==
    ASSUME TypeOK, ReportsInOrder, NEW outstanding \in SUBSET Callers, Track(outstanding),
           UNCHANGED <<err, calls, sequence>>
    PROVE  /\ tracked' \in SUBSET Callers
           /\ reports' \in [count : 0 .. MaxReports, pending : SUBSET Reports]
           /\ ReportsInOrder'
  <1> DEFINE new == [seq |-> reports.count + 1, calls |-> outstanding]
  <1>1. /\ tracked' = outstanding /\ reports.count < MaxReports
        /\ reports'.count = reports.count + 1 /\ reports'.pending = reports.pending \cup {new}
    BY DEF Track
  <1>2. reports.count \in 0 .. MaxReports /\ reports.pending \in SUBSET Reports
    BY DEF TypeOK
  <1>3. /\ new \in Reports /\ new.seq = reports.count + 1 /\ new.calls = outstanding
        /\ MaxReports \in Nat
    BY <1>1, <1>2, EndpointAssumption DEF Reports
  <1>4. reports' \in [count : 0 .. MaxReports, pending : SUBSET Reports]
    <2>1. reports' = [count |-> reports.count + 1, pending |-> reports.pending \cup {new}]
      BY DEF Track
    <2> HIDE DEF new
    <2>2. reports.count + 1 \in 0 .. MaxReports /\ reports.pending \cup {new} \in SUBSET Reports
      BY <1>1, <1>2, <1>3
    <2> QED
      BY <2>1, <2>2
  <1> HIDE DEF new
  <1>5. \A p \in reports.pending : p.seq \in Nat /\ p.seq <= reports.count
    BY <1>2, <1>3 DEF ReportsInOrder, Reports
  <1>6. Newest' = {new}
    BY <1>1, <1>2, <1>3, <1>5 DEF Newest
  <1>7. ReportsInOrder'
    BY <1>1, <1>2, <1>3, <1>5, <1>6 DEF ReportsInOrder, TypeOK
  <1> QED
    BY <1>1, <1>4, <1>7

(* A query reads e.r and e.state. *)
LEMMA ReadStateKeeps ==
    ASSUME IndInv, NEW c \in Callers, ReadState(c)
    PROVE  IndInv'
  <1>1. UNCHANGED <<err, calls, sequence, config, cur, ready, sending, configChange,
                    stateChange, run, conns, landing, result, overtaken, hidden>>
    BY DEF ReadState, chanVars, connVars
  <1>2. pc[c] = "ready" /\ ready = 0 /\ sending = None
    BY DEF ReadState, Unlocked
  <1> USE DEF IndInv
  <1>3. /\ pc'[c] \in {"idle", "query"} /\ \A d \in Callers : d # c => pc'[d] = pc[d]
        /\ pc' \in [Callers -> {"idle", "ready", "query", "lost", "hung",
                                "after", "config", "close", "await", "release", "sending"}]
    BY DEF ReadState, TypeOK
  <1>4. /\ snap' \in [Callers -> Conns \cup {None}]
        /\ \A d \in Callers : d # c => snap'[d] = snap[d]
        /\ snap'[c] = snap[c] \/ (Online /\ snap'[c] = cur)
    BY DEF ReadState, TypeOK
  <1>5. /\ tracked' \in SUBSET Callers
        /\ reports' \in [count : 0 .. MaxReports, pending : SUBSET Reports]
        /\ ReportsInOrder'
    <2>1. CASE UNCHANGED trackerVars
      BY <1>1, <2>1 DEF trackerVars, TypeOK, ReportsInOrder, Newest, Closed
    <2>2. CASE Track(tracked \cup {c})
      <3>1. tracked \cup {c} \in SUBSET Callers
        BY DEF TypeOK
      <3> QED
        BY <1>1, <2>2, <3>1, TrackKeeps
    <2> QED
      BY <2>1, <2>2 DEF ReadState
  <1>6. TypeOK'
    BY <1>1, <1>3, <1>4, <1>5 DEF TypeOK
  <1>7. Attempts'
    BY <1>1, <1>4 DEF Attempts, OnlineMeansConnected
  <1>8. ReadyOnce' /\ OnlineMeansConnected' /\ ConnectionsAccounted'
    BY <1>1
    DEF ReadyOnce, FirstLanding, MakesReady, OnlineMeansConnected, ConnectionsAccounted,
        Online
  <1>9. Senders' /\ Closers'
    BY <1>1, <1>2, <1>3 DEF Senders, MakesReady, Closers, Closing, Closed
  <1>10. RunIsInformed'
    BY <1>1 DEF RunIsInformed, LatestState, LatestConfig, Closed, Online
  <1>11. Overtaking'
    BY <1>1, <1>2, <1>3, <1>4 DEF Overtaking, Online, TypeOK
  <1> QED
    BY <1>5, <1>6, <1>7, <1>8, <1>9, <1>10, <1>11

(* The reporter returns to a query. *)
LEMMA QueryReturnsKeeps ==
    ASSUME IndInv, NEW c \in Callers, QueryReturns(c)
    PROVE  IndInv'
  <1>1. UNCHANGED <<err, calls, sequence, config, cur, ready, sending, configChange,
                    stateChange, run, conns, landing, snap, overtaken, hidden, tracked,
                    reports>>
    BY DEF QueryReturns, chanVars, connVars, trackerVars
  <1> USE DEF IndInv
  <1>2. /\ pc[c] = "query" /\ pc'[c] = "after"
        /\ \A d \in Callers : d # c => pc'[d] = pc[d]
        /\ pc' \in [Callers -> {"idle", "ready", "query", "lost", "hung",
                                "after", "config", "close", "await", "release", "sending"}]
    BY DEF QueryReturns, TypeOK
  <1>3. /\ result'[c] # "none" /\ \A d \in Callers : d # c => result'[d] = result[d]
        /\ result' \in [Callers -> Results]
    BY DEF QueryReturns, TypeOK, Results
  <1>4. TypeOK'
    BY <1>1, <1>2, <1>3 DEF TypeOK
  <1>5. Attempts' /\ ReadyOnce' /\ OnlineMeansConnected' /\ ConnectionsAccounted'
    BY <1>1
    DEF Attempts, ReadyOnce, FirstLanding, MakesReady, OnlineMeansConnected,
        ConnectionsAccounted, Online
  <1>6. Senders' /\ Closers'
    BY <1>1, <1>2 DEF Senders, MakesReady, Closers, Closing, Closed
  <1>7. ReportsInOrder' /\ RunIsInformed'
    BY <1>1
    DEF ReportsInOrder, Newest, RunIsInformed, LatestState, LatestConfig, Closed, Online
  <1>8. Overtaking'
    BY <1>1, <1>2, <1>3 DEF Overtaking, Online, TypeOK
  <1> QED
    BY <1>4, <1>5, <1>6, <1>7, <1>8

(* A query never returns. *)
LEMMA NeverReturnsKeeps ==
    ASSUME IndInv, NEW c \in Callers, NeverReturns(c)
    PROVE  IndInv'
  <1>1. UNCHANGED <<err, calls, sequence, config, cur, ready, sending, configChange,
                    stateChange, run, conns, landing, result, overtaken, hidden, tracked,
                    reports>>
    BY DEF NeverReturns, chanVars, connVars, trackerVars
  <1> USE DEF IndInv
  <1>2. /\ pc[c] = "query" /\ pc'[c] \in {"lost", "hung"}
        /\ \A d \in Callers : d # c => pc'[d] = pc[d]
        /\ pc' \in [Callers -> {"idle", "ready", "query", "lost", "hung",
                                "after", "config", "close", "await", "release", "sending"}]
    BY DEF NeverReturns, TypeOK
  <1>3. /\ snap'[c] = None /\ \A d \in Callers : d # c => snap'[d] = snap[d]
        /\ snap' \in [Callers -> Conns \cup {None}]
    BY DEF NeverReturns, TypeOK
  <1>4. TypeOK'
    BY <1>1, <1>2, <1>3 DEF TypeOK
  <1>5. landing \subseteq Conns /\ None \notin Conns
    BY EndpointAssumption DEF TypeOK
  <1>6. Attempts'
    BY <1>1, <1>3, <1>5 DEF Attempts
  <1>7. ReadyOnce' /\ OnlineMeansConnected' /\ ConnectionsAccounted'
    BY <1>1
    DEF ReadyOnce, FirstLanding, MakesReady, OnlineMeansConnected, ConnectionsAccounted, Online
  <1>8. Senders' /\ Closers'
    BY <1>1, <1>2 DEF Senders, MakesReady, Closers, Closing, Closed
  <1>9. ReportsInOrder' /\ RunIsInformed'
    BY <1>1
    DEF ReportsInOrder, Newest, RunIsInformed, LatestState, LatestConfig, Closed, Online
  <1>10. Overtaking'
    BY <1>1, <1>2, <1>3 DEF Overtaking, Online, TypeOK
  <1> QED
    BY <1>4, <1>6, <1>7, <1>8, <1>9, <1>10

(* The remote procedure call of a query ends. *)
LEMMA CallEndsKeeps ==
    ASSUME IndInv, NEW c \in Callers, CallEnds(c)
    PROVE  IndInv'
  <1>1. UNCHANGED <<err, calls, sequence, config, cur, ready, sending, configChange,
                    stateChange, run, conns, landing, pc, snap, result, overtaken, hidden>>
    BY DEF CallEnds, chanVars, connVars, callVars
  <1> USE DEF IndInv
  <1>2. /\ tracked' \in SUBSET Callers
        /\ reports' \in [count : 0 .. MaxReports, pending : SUBSET Reports]
        /\ ReportsInOrder'
    <2>1. tracked \ {c} \in SUBSET Callers /\ Track(tracked \ {c})
      BY DEF TypeOK, CallEnds
    <2> QED
      BY <1>1, <2>1, TrackKeeps
  <1>3. TypeOK'
    BY <1>1, <1>2 DEF TypeOK
  <1>4. Attempts' /\ ReadyOnce' /\ OnlineMeansConnected' /\ ConnectionsAccounted'
    BY <1>1
    DEF Attempts, ReadyOnce, FirstLanding, MakesReady, OnlineMeansConnected,
        ConnectionsAccounted, Online
  <1>5. Senders' /\ Closers' /\ Overtaking'
    BY <1>1 DEF Senders, MakesReady, Closers, Closing, Closed, Overtaking, Online
  <1>6. RunIsInformed'
    BY <1>1 DEF RunIsInformed, LatestState, LatestConfig, Closed, Online
  <1> QED
    BY <1>2, <1>3, <1>4, <1>5, <1>6

(* What a section sends is not nil. *)
LEMMA SendsSection ==
    ASSUME NEW to \in Channels, NEW msg \in (IF to = "config" THEN Configs ELSE BOOLEAN),
           NEW retire \in Conns \cup {None}, NEW makeReady \in BOOLEAN,
           Sends(to, msg, retire, makeReady)
    PROVE  /\ sending' \in Section(to) /\ sending' # None
           /\ sending'.to = to /\ sending'.msg = msg
           /\ sending'.retire = retire /\ sending'.ready = makeReady
  <1>1. /\ sending' \in Section(to)
        /\ sending'.to = to /\ sending'.msg = msg
        /\ sending'.retire = retire /\ sending'.ready = makeReady
    BY DEF Sends, Section
  <1> QED
    BY <1>1, EndpointAssumption

(* A query records its outcome, or leaves it. *)
LEMMA UpdateStateAfterCallKeeps ==
    ASSUME IndInv, NEW c \in Callers, UpdateStateAfterCall(c)
    PROVE  IndInv'
  <1>1. UNCHANGED <<calls, sequence, config, cur, ready, configChange, stateChange, run,
                    conns, landing, tracked, reports>>
    BY DEF UpdateStateAfterCall, chanVars, connVars, trackerVars
  <1> USE DEF IndInv
  <1>2. /\ pc[c] = "after" /\ sending = None
        /\ hidden' = hidden \ {c}
        /\ snap' \in [Callers -> Conns \cup {None}] /\ snap'[c] = None
        /\ \A d \in Callers : d # c => snap'[d] = snap[d]
        /\ result' \in [Callers -> Results] /\ result'[c] = "none"
        /\ \A d \in Callers : d # c => result'[d] = result[d]
    BY DEF UpdateStateAfterCall, Unlocked, TypeOK, Results
  <1>3. /\ pc'[c] \in {"sending", "idle"} /\ \A d \in Callers : d # c => pc'[d] = pc[d]
        /\ pc' \in [Callers -> {"idle", "ready", "query", "lost", "hung",
                                "after", "config", "close", "await", "release", "sending"}]
    BY DEF UpdateStateAfterCall, TypeOK
  <1>4. \/ /\ ~Closed /\ c \notin overtaken
           /\ err' = "unavailable" /\ pc'[c] = "sending"
           /\ \E late \in Late(Callers \ {c}) : overtaken' = overtaken \cup late
           /\ sending' # None /\ sending' \in Section("state") /\ sending'.to = "state"
           /\ sending'.msg = FALSE /\ sending'.retire = None /\ sending'.ready = FALSE
        \/ /\ overtaken' = overtaken \ {c} /\ pc'[c] = "idle"
           /\ UNCHANGED <<err, sending>>
    <2>1. CASE /\ ConcernsCurrent(c) /\ ~Closed /\ c \notin overtaken
               /\ err' = "unavailable"
               /\ \E late \in Late(Callers \ {c}) : overtaken' = overtaken \cup late
               /\ pc' = [pc EXCEPT ![c] = "sending"]
               /\ Sends("state", FALSE, None, FALSE)
      <3>1. /\ sending' # None /\ sending' \in Section("state") /\ sending'.to = "state"
            /\ sending'.msg = FALSE /\ sending'.retire = None /\ sending'.ready = FALSE
        BY <2>1, SendsSection DEF Channels
      <3> QED
        BY <2>1, <3>1 DEF TypeOK
    <2>2. CASE /\ overtaken' = overtaken \ {c}
               /\ pc' = [pc EXCEPT ![c] = "idle"]
               /\ UNCHANGED <<err, sending>>
      BY <2>2 DEF TypeOK
    <2> QED
      BY <2>1, <2>2 DEF UpdateStateAfterCall
  <1>5. \A late \in Late(Callers \ {c}) : \A d \in late : d \in Callers /\ d # c /\ pc[d] = "after"
    BY DEF Late, Overtaking
  <1>6. TypeOK'
    <2>1. /\ overtaken' \in SUBSET Callers /\ hidden' \in SUBSET overtaken'
      BY <1>2, <1>4, <1>5 DEF TypeOK
    <2>2. err' \in Errors
      BY <1>4 DEF TypeOK, Errors
    <2>3. sending' = None \/ \E to \in Channels : sending'.to = to /\ sending' \in Section(to)
      BY <1>2, <1>4 DEF Channels
    <2> QED
      BY <1>1, <1>2, <1>3, <2>1, <2>2, <2>3 DEF TypeOK
  <1>7. Attempts'
    BY <1>1, <1>2, <1>4, EndpointAssumption DEF Attempts, TypeOK
  <1>8. ReadyOnce'
    BY <1>1, <1>2, <1>4 DEF ReadyOnce, FirstLanding, MakesReady
  <1>9. Senders'
    BY <1>1, <1>2, <1>3, <1>4 DEF Senders, MakesReady
  <1>10. Closers' /\ ReportsInOrder'
    BY <1>1, <1>3, <1>4 DEF Closers, Closing, Closed, ReportsInOrder, Newest
  <1>11. Overtaking'
    <2>1. \A d \in Callers : result'[d] = "none" <=> pc'[d] # "after"
      BY <1>2, <1>3 DEF Overtaking
    <2>2. \A d \in overtaken' : pc'[d] = "after"
      <3>1. overtaken' \subseteq Callers /\ c \notin overtaken'
        BY <1>4, <1>5 DEF TypeOK
      <3>2. \A d \in overtaken' : d \in overtaken \/ pc[d] = "after"
        BY <1>4, <1>5
      <3> QED
        BY <1>3, <3>1, <3>2 DEF Overtaking
    <2>3. \A d \in overtaken' \ hidden' : snap'[d] = cur' => ~Online'
      BY <1>1, <1>2, <1>4 DEF Overtaking, Online, TypeOK
    <2> QED
      BY <2>1, <2>2, <2>3 DEF Overtaking
  <1>12. OnlineMeansConnected' /\ ConnectionsAccounted'
    BY <1>1, <1>2, <1>4, EndpointAssumption
    DEF OnlineMeansConnected, ConnectionsAccounted, Online
  <1>13. RunIsInformed'
    BY <1>1, <1>2, <1>4 DEF RunIsInformed, LatestState, LatestConfig, Closed, Online
  <1> QED
    BY <1>6, <1>7, <1>8, <1>9, <1>10, <1>11, <1>12, <1>13

(* Retiring a connection closes it and no other. *)
LEMMA RetireEffect ==
    ASSUME TypeOK, NEW r \in Conns \cup {None}
    PROVE  /\ Retire(r) \in [Conns -> [status : {"open", "failed", "closed"}, first : BOOLEAN]]
           /\ r # None => Retire(r)[r].status = "closed"
           /\ \A s \in Conns : s # r => Retire(r)[s] = conns[s]
  BY EndpointAssumption DEF TypeOK, Retire, NoConn

(* An attempt lands.  On a closed endpoint its connection is closed; otherwise
   it takes the place of the one in use. *)
LEMMA UpdateConnectionKeeps ==
    ASSUME IndInv, NEW r \in Conns, UpdateConnection(r)
    PROVE  IndInv'
  <1>1. /\ UNCHANGED <<calls, sequence, config, configChange, stateChange, run, pc, snap,
                       result, overtaken, hidden, tracked, reports>>
        /\ r \in landing /\ sending = None /\ landing' = landing \ {r}
    BY DEF UpdateConnection, Unlocked, chanVars, callVars, trackerVars
  <1> USE DEF IndInv
  <1>2. /\ landing \subseteq Conns /\ cur \in Conns \cup {None} /\ ready \in 0 .. 1
        /\ conns \in [Conns -> [status : {"open", "failed", "closed"}, first : BOOLEAN]]
    BY DEF TypeOK
  <1>3. /\ r # cur /\ r # None
        /\ \A c \in Callers : pc[c] # "sending" /\ snap[c] # r
        /\ conns[r].status \in {"open", "failed"}
    BY <1>1, EndpointAssumption DEF Attempts, Senders
  <1>4. /\ conns[r].first => ready = 1 /\ run.initialized
        /\ FirstLanding' \subseteq FirstLanding \ {r} \/ conns' # conns
    BY <1>1, <1>2 DEF ReadyOnce, FirstLanding
  <1>5. CASE Closed /\ conns' = Discards(r) /\ UNCHANGED <<err, cur, sending>>
             /\ ready' = IF conns[r].first THEN ready - 1 ELSE ready
    <2>1. /\ conns'[r].status = "closed" /\ \A s \in Conns : s # r => conns'[s] = conns[s]
          /\ conns' \in [Conns -> [status : {"open", "failed", "closed"}, first : BOOLEAN]]
      BY <1>3, <1>5, RetireEffect DEF Discards
    <2>2. FirstLanding' = FirstLanding \ {r}
      BY <1>1, <1>2, <2>1 DEF FirstLanding
    <2>3. ready' \in 0 .. 1 /\ (ready = 0 => ready' = 0)
      BY <1>2, <1>4, <1>5
    <2>4. TypeOK'
      BY <1>1, <1>2, <1>5, <2>1, <2>3 DEF TypeOK
    <2>5. Attempts'
      BY <1>1, <1>2, <1>3, <1>5, <2>1 DEF Attempts
    <2>6. ReadyOnce'
      BY <1>1, <1>2, <1>4, <1>5, <2>2 DEF ReadyOnce, FirstLanding, MakesReady
    <2>7. Senders' /\ Closers'
      BY <1>1, <1>3, <1>5, <2>3 DEF Senders, MakesReady, Closers, Closing, Closed
    <2>8. ReportsInOrder' /\ Overtaking' /\ RunIsInformed'
      BY <1>1, <1>5
      DEF ReportsInOrder, Newest, Overtaking, RunIsInformed, Online, Closed
    <2>9. OnlineMeansConnected' /\ ConnectionsAccounted'
      BY <1>1, <1>2, <1>3, <1>5, <2>1
      DEF OnlineMeansConnected, ConnectionsAccounted, Online, Closed
    <2> QED
      BY <2>4, <2>5, <2>6, <2>7, <2>8, <2>9
  <1>6. ASSUME NEW open \in BOOLEAN, ~Closed,
               err' = IF open THEN "ok" ELSE "failed",
               cur' = IF open THEN r ELSE None,
               conns[r].status = IF open THEN "open" ELSE "failed",
               Sends("state", open, Replaced(r), conns[r].first),
               conns' = IF open THEN conns ELSE [conns EXCEPT ![r] = NoConn],
               UNCHANGED ready
        PROVE  IndInv'
    <2>1. /\ sending' \in Section("state") /\ sending' # None
          /\ sending'.to = "state" /\ sending'.msg = open
          /\ sending'.retire = cur /\ sending'.ready = conns[r].first
      BY <1>2, <1>6, SendsSection, SMTT(30) DEF Channels, Replaced
    <2>2. /\ conns' \in [Conns -> [status : {"open", "failed", "closed"}, first : BOOLEAN]]
          /\ \A s \in Conns : s # r => conns'[s] = conns[s]
          /\ conns'[r].status = IF open THEN "open" ELSE "closed"
      BY <1>2, <1>6 DEF NoConn
    <2>3. FirstLanding' = FirstLanding \ {r}
      BY <1>1, <1>2, <2>2 DEF FirstLanding
    <2>4. TypeOK'
      BY <1>1, <1>2, <1>6, <2>1, <2>2 DEF TypeOK, Errors, Channels
    <2>5. Attempts'
      BY <1>1, <1>2, <1>3, <1>6, <2>1, <2>2 DEF Attempts
    <2>6. ReadyOnce'
      BY <1>1, <1>2, <1>4, <1>6, <2>1, <2>3 DEF ReadyOnce, FirstLanding, MakesReady
    <2>7. Senders' /\ Closers'
      BY <1>1, <1>3, <1>6 DEF Senders, MakesReady, Closers, Closing, Closed
    <2>8. ReportsInOrder'
      BY <1>1, <1>6 DEF ReportsInOrder, Newest, Closed
    <2>9. Overtaking'
      BY <1>1, <1>3, <1>6 DEF Overtaking, Online, TypeOK
    <2>10. OnlineMeansConnected' /\ ConnectionsAccounted'
      BY <1>1, <1>2, <1>3, <1>6, <2>1, <2>2
      DEF OnlineMeansConnected, ConnectionsAccounted, Online
    <2>11. RunIsInformed'
      BY <1>1, <1>6, <2>1 DEF RunIsInformed, LatestState, LatestConfig, Closed, Online
    <2> QED
      BY <2>4, <2>5, <2>6, <2>7, <2>8, <2>9, <2>10, <2>11
  <1>7. CASE /\ ~Closed /\ conns[r].status = "open" /\ err' = "ok" /\ cur' = r
             /\ Sends("state", TRUE, Replaced(r), conns[r].first)
             /\ UNCHANGED <<conns, ready>>
    BY <1>6, <1>7
  <1>8. CASE /\ ~Closed /\ conns[r].status = "failed" /\ err' = "failed" /\ cur' = None
             /\ Sends("state", FALSE, Replaced(r), conns[r].first)
             /\ conns' = [conns EXCEPT ![r] = NoConn]
             /\ UNCHANGED ready
    BY <1>6, <1>8
  <1> QED
    BY <1>5, <1>7, <1>8 DEF UpdateConnection

(* A report of the call tracker arrives. *)
LEMMA UpdateHealthKeeps ==
    ASSUME IndInv, NEW report \in reports.pending, UpdateHealth(report)
    PROVE  IndInv'
  <1>1. /\ UNCHANGED <<err, config, cur, ready, configChange, stateChange, run, conns,
                       landing, pc, snap, result, tracked>>
        /\ sending = None
    BY DEF UpdateHealth, Unlocked, chanVars, connVars, callVars
  <1> USE DEF IndInv
  <1>2. /\ reports.count \in 0 .. MaxReports /\ reports.pending \in SUBSET Reports
        /\ reports \in [count : 0 .. MaxReports, pending : SUBSET Reports]
        /\ sequence \in 0 .. MaxReports /\ MaxReports \in Nat
    BY EndpointAssumption DEF TypeOK
  <1>3. /\ reports'.count = reports.count /\ reports'.pending = reports.pending \ {report}
        /\ reports' \in [count : 0 .. MaxReports, pending : SUBSET Reports]
    BY <1>2 DEF UpdateHealth
  <1>4. report.seq \in 1 .. MaxReports /\ report.calls \in SUBSET Callers
    BY <1>2 DEF Reports
  <1>5. \A c \in Callers : pc[c] # "sending"
    BY <1>1 DEF Senders
  <1>6. ReportsInOrder'
    <2>1. \/ Closed
          \/ ~Accepts(report) /\ UNCHANGED <<calls, sequence>>
          \/ calls' = report.calls /\ sequence' = report.seq /\ Accepts(report)
      BY DEF UpdateHealth
    <2>2. /\ Newest' = Newest \ {report}
          /\ \A p \in reports.pending : p.seq <= reports.count
          /\ sequence <= reports.count
          /\ \A p \in Newest : p.calls = tracked
          /\ Newest = {} /\ ~Closed => sequence = reports.count /\ calls = tracked
      BY <1>3 DEF Newest, ReportsInOrder
    <2>3. \/ UNCHANGED <<calls, sequence>>
          \/ calls' = report.calls /\ sequence' = report.seq
      BY DEF UpdateHealth
    <2>4. report \in Newest <=> report.seq = reports.count
      BY DEF Newest
    <2>5. Newest' = {} /\ ~Closed' => sequence' = reports'.count /\ calls' = tracked'
      <3>1. CASE report \in Newest
        BY <1>1, <1>2, <1>3, <1>4, <2>1, <2>2, <2>4, <3>1 DEF Accepts, Closed
      <3>2. CASE report \notin Newest
        BY <1>1, <1>2, <1>3, <1>4, <2>1, <2>2, <2>4, <3>2 DEF Accepts, Closed
      <3> QED
        BY <3>1, <3>2
    <2> QED
      BY <1>1, <1>2, <1>3, <2>2, <2>3, <2>5 DEF ReportsInOrder
  <1>7. \/ UNCHANGED <<calls, sequence, sending, overtaken, hidden>>
        \/ /\ calls' = report.calls /\ sequence' = report.seq
           /\ \E late \in Late(Callers) :
                 overtaken' = overtaken \cup late /\ hidden' = hidden \cup late
           /\ sending' # None /\ sending' \in Section("state") /\ sending'.to = "state"
           /\ sending'.msg = Online /\ sending'.retire = None /\ sending'.ready = FALSE
    <2>1. CASE Sends("state", StateMessage, None, FALSE)
      <3>1. /\ sending' # None /\ sending' \in Section("state") /\ sending'.to = "state"
            /\ sending'.msg = Online /\ sending'.retire = None /\ sending'.ready = FALSE
        BY <2>1, SendsSection DEF Channels, StateMessage, Online
      <3> QED
        BY <3>1, <1>1 DEF UpdateHealth
    <2>2. CASE UNCHANGED <<calls, sequence, sending, overtaken, hidden>>
      BY <2>2
    <2> QED
      BY <2>1, <2>2 DEF UpdateHealth
  <1>8. \A late \in Late(Callers) : \A d \in late : d \in Callers /\ pc[d] = "after"
    BY DEF Late, Overtaking
  <1>9. TypeOK'
    <2>1. overtaken' \in SUBSET Callers /\ hidden' \in SUBSET overtaken'
      BY <1>7, <1>8 DEF TypeOK
    <2>2. calls' \in SUBSET Callers /\ sequence' \in 0 .. MaxReports
      BY <1>2, <1>4, <1>7 DEF TypeOK
    <2>3. sending' = None \/ \E to \in Channels : sending'.to = to /\ sending' \in Section(to)
      BY <1>1, <1>7 DEF Channels
    <2> QED
      BY <1>1, <1>3, <2>1, <2>2, <2>3 DEF TypeOK
  <1>10. Attempts' /\ ConnectionsAccounted'
    BY <1>1, <1>7, EndpointAssumption DEF Attempts, ConnectionsAccounted
  <1>11. ReadyOnce' /\ Senders'
    BY <1>1, <1>5, <1>7 DEF ReadyOnce, FirstLanding, MakesReady, Senders
  <1>12. Closers' /\ OnlineMeansConnected'
    BY <1>1 DEF Closers, Closing, Closed, OnlineMeansConnected, Online
  <1>13. Overtaking'
    <2>1. overtaken' \ hidden' \subseteq overtaken \ hidden
      BY <1>7
    <2>2. \A d \in overtaken' : d \in overtaken \/ pc[d] = "after"
      BY <1>7, <1>8
    <2> QED
      BY <1>1, <2>1, <2>2 DEF Overtaking, Online
  <1>14. RunIsInformed'
    BY <1>1, <1>7 DEF RunIsInformed, LatestState, LatestConfig, Closed, Online
  <1> QED
    BY <1>6, <1>9, <1>10, <1>11, <1>12, <1>13, <1>14

(* UpdateConfig *)
LEMMA UpdateConfigKeeps ==
    ASSUME IndInv, NEW c \in Callers, NEW cfg \in Configs, UpdateConfig(c, cfg)
    PROVE  IndInv'
  <1>1. /\ UNCHANGED <<err, calls, sequence, cur, ready, configChange, stateChange, run,
                       conns, landing, snap, result, overtaken, hidden, tracked, reports>>
        /\ config' = cfg /\ pc[c] = "config" /\ sending = None
    BY DEF UpdateConfig, Unlocked, chanVars, connVars, trackerVars
  <1> USE DEF IndInv
  <1>2. /\ pc'[c] \in {"sending", "idle"} /\ \A d \in Callers : d # c => pc'[d] = pc[d]
        /\ pc' \in [Callers -> {"idle", "ready", "query", "lost", "hung",
                                "after", "config", "close", "await", "release", "sending"}]
    BY DEF UpdateConfig, TypeOK
  <1>3. \/ Closed /\ pc'[c] = "idle" /\ UNCHANGED sending
        \/ /\ sending' # None /\ sending' \in Section("config") /\ sending'.to = "config"
           /\ sending'.msg = cfg /\ sending'.retire = None /\ sending'.ready = FALSE
    <2>1. CASE Sends("config", cfg, None, FALSE)
      BY <2>1, SendsSection DEF Channels
    <2>2. CASE Closed /\ pc' = [pc EXCEPT ![c] = "idle"] /\ UNCHANGED sending
      BY <2>2 DEF TypeOK
    <2> QED
      BY <2>1, <2>2 DEF UpdateConfig
  <1>4. TypeOK'
    <2>1. sending' = None \/ \E to \in Channels : sending'.to = to /\ sending' \in Section(to)
      BY <1>1, <1>3 DEF Channels
    <2> QED
      BY <1>1, <1>2, <2>1 DEF TypeOK
  <1>5. Attempts' /\ ConnectionsAccounted'
    BY <1>1, <1>3, EndpointAssumption DEF Attempts, ConnectionsAccounted
  <1>6. ReadyOnce'
    BY <1>1, <1>3 DEF ReadyOnce, FirstLanding, MakesReady
  <1>7. Senders'
    BY <1>1, <1>2, <1>3 DEF MakesReady, Senders
  <1>8. Closers' /\ OnlineMeansConnected' /\ ReportsInOrder'
    BY <1>1, <1>2
    DEF Closers, Closing, Closed, OnlineMeansConnected, Online, ReportsInOrder, Newest
  <1>9. Overtaking'
    BY <1>1, <1>2 DEF Overtaking, Online, TypeOK
  <1>10. RunIsInformed'
    BY <1>1, <1>3 DEF RunIsInformed, LatestState, LatestConfig, Closed, Online
  <1> QED
    BY <1>4, <1>5, <1>6, <1>7, <1>8, <1>9, <1>10

(* The first section of Close, and its wait for run(). *)
LEMMA CloseKeeps ==
    ASSUME IndInv, NEW c \in Callers, CloseLock(c) \/ CloseAwait(c)
    PROVE  IndInv'
  <1>1. UNCHANGED <<calls, sequence, config, cur, ready, sending, configChange, stateChange,
                    run, conns, landing, snap, result, overtaken, hidden, tracked, reports>>
    BY DEF CloseLock, CloseAwait, chanVars, connVars, trackerVars
  <1> USE DEF IndInv
  <1>2. /\ \A d \in Callers : d # c => pc'[d] = pc[d]
        /\ pc' \in [Callers -> {"idle", "ready", "query", "lost", "hung",
                                "after", "config", "close", "await", "release", "sending"}]
        /\ \/ pc[c] = "close" /\ err' = "closed" /\ pc'[c] = IF Closed THEN "idle" ELSE "await"
           \/ pc[c] = "await" /\ UNCHANGED err /\ pc'[c] = "release" /\ run.at = "done"
    BY DEF CloseLock, CloseAwait, TypeOK
  <1>3. TypeOK'
    BY <1>1, <1>2 DEF TypeOK, Errors
  <1>4. Attempts' /\ ConnectionsAccounted' /\ ReadyOnce'
    BY <1>1 DEF Attempts, ConnectionsAccounted, ReadyOnce, FirstLanding, MakesReady
  <1>5. Senders'
    BY <1>1, <1>2 DEF MakesReady, Senders
  <1>6. Closers'
    BY <1>1, <1>2 DEF Closers, Closing, Closed
  <1>7. OnlineMeansConnected' /\ ReportsInOrder'
    BY <1>1, <1>2 DEF OnlineMeansConnected, Online, ReportsInOrder, Newest, Closed
  <1>8. Overtaking'
    BY <1>1, <1>2 DEF Overtaking, Online, TypeOK
  <1>9. RunIsInformed'
    BY <1>1, <1>2 DEF RunIsInformed, LatestState, LatestConfig, Closed, Online
  <1> QED
    BY <1>3, <1>4, <1>5, <1>6, <1>7, <1>8, <1>9

(* The second section of Close closes the connection in use. *)
LEMMA CloseReleaseKeeps ==
    ASSUME IndInv, NEW c \in Callers, CloseRelease(c)
    PROVE  IndInv'
  <1>1. /\ UNCHANGED <<err, calls, sequence, config, ready, sending, configChange,
                       stateChange, run, landing, snap, result, overtaken, hidden, tracked,
                       reports>>
        /\ pc[c] = "release" /\ sending = None /\ cur' = None /\ conns' = Retire(cur)
    BY DEF CloseRelease, Unlocked, chanVars, trackerVars
  <1> USE DEF IndInv
  <1>2. /\ pc'[c] = "idle" /\ \A d \in Callers : d # c => pc'[d] = pc[d]
        /\ pc' \in [Callers -> {"idle", "ready", "query", "lost", "hung",
                                "after", "config", "close", "await", "release", "sending"}]
    BY DEF CloseRelease, TypeOK
  <1>3. /\ cur \in Conns \cup {None} /\ landing \subseteq Conns
        /\ conns' \in [Conns -> [status : {"open", "failed", "closed"}, first : BOOLEAN]]
        /\ cur # None => conns'[cur].status = "closed"
        /\ \A s \in Conns : s # cur => conns'[s] = conns[s]
    BY <1>1, RetireEffect DEF TypeOK
  <1>4. Closed
    BY <1>1 DEF Closers, Closing
  <1>5. TypeOK'
    BY <1>1, <1>2, <1>3 DEF TypeOK
  <1>6. \A r \in landing : conns'[r] = conns[r]
    BY <1>3, EndpointAssumption DEF Attempts
  <1>7. Attempts'
    BY <1>1, <1>3, <1>6 DEF Attempts
  <1>8. ConnectionsAccounted' /\ OnlineMeansConnected'
    BY <1>1, <1>3, <1>4 DEF ConnectionsAccounted, OnlineMeansConnected, Online, Closed
  <1>9. ReadyOnce'
    <2>1. FirstLanding' = FirstLanding
      BY <1>1, <1>6 DEF FirstLanding
    <2> QED
      BY <1>1, <2>1 DEF ReadyOnce, MakesReady
  <1>10. Senders' /\ Closers' /\ ReportsInOrder'
    BY <1>1, <1>2 DEF MakesReady, Senders, Closers, Closing, Closed, ReportsInOrder, Newest
  <1>11. Overtaking'
    BY <1>1, <1>2, <1>4 DEF Overtaking, Online, Closed, TypeOK
  <1>12. RunIsInformed'
    BY <1>1, <1>4 DEF RunIsInformed, Closed
  <1> QED
    BY <1>5, <1>7, <1>8, <1>9, <1>10, <1>11, <1>12

(* The channel takes the message of the section that holds the mutex. *)
LEMMA SendCompletesKeeps ==
    ASSUME IndInv, SendCompletes
    PROVE  IndInv'
  <1>1. /\ UNCHANGED <<err, calls, sequence, config, cur, run, landing, snap, result,
                       overtaken, hidden, tracked, reports>>
        /\ sending # None /\ sending' = None
        /\ conns' = Retire(sending.retire)
        /\ ready' = IF sending.ready THEN ready - 1 ELSE ready
    BY DEF SendCompletes, Unlocked, trackerVars
  <1> USE DEF IndInv
  <1>2. /\ \A d \in Callers : pc'[d] = IF pc[d] = "sending" THEN "idle" ELSE pc[d]
        /\ pc' \in [Callers -> {"idle", "ready", "query", "lost", "hung",
                                "after", "config", "close", "await", "release", "sending"}]
    BY DEF SendCompletes, TypeOK
  <1>3. /\ sending.to \in Channels /\ sending.ready \in BOOLEAN
        /\ sending.retire \in Conns \cup {None}
        /\ sending.msg \in (IF sending.to = "config" THEN Configs ELSE BOOLEAN)
    BY <1>1 DEF TypeOK, Section
  <1>4. /\ landing \subseteq Conns /\ cur \in Conns \cup {None} /\ ready \in 0 .. 1
        /\ conns' \in [Conns -> [status : {"open", "failed", "closed"}, first : BOOLEAN]]
        /\ sending.retire # None => conns'[sending.retire].status = "closed"
        /\ \A s \in Conns : s # sending.retire => conns'[s] = conns[s]
    BY <1>1, <1>3, RetireEffect DEF TypeOK
  <1>5. /\ \A r \in landing : conns'[r] = conns[r]
        /\ cur # None => conns'[cur] = conns[cur]
    BY <1>1, <1>3, <1>4, EndpointAssumption DEF Attempts
  <1>6. ready' \in 0 .. 1 /\ (ready = 0 => ready' = 0)
    BY <1>1, <1>3, <1>4 DEF ReadyOnce, MakesReady
  <1>7. /\ configChange' \in Seq(Configs) /\ Len(configChange') <= ChanSize
        /\ stateChange' \in Seq(BOOLEAN) /\ Len(stateChange') <= ChanSize
        /\ LatestState' = LatestState /\ LatestConfig' = LatestConfig
    <2>1. /\ configChange \in Seq(Configs) /\ Len(configChange) <= ChanSize
          /\ stateChange \in Seq(BOOLEAN) /\ Len(stateChange) <= ChanSize
          /\ Len(configChange) \in Nat /\ Len(stateChange) \in Nat /\ ChanSize \in Nat
      BY EndpointAssumption, LenProperties DEF TypeOK
    <2>2. CASE /\ sending.to = "config" /\ Len(configChange) < ChanSize
               /\ configChange' = Append(configChange, sending.msg)
               /\ UNCHANGED stateChange
      <3>1. /\ configChange' \in Seq(Configs) /\ Len(configChange') = Len(configChange) + 1
            /\ configChange' # <<>> /\ Last(configChange') = sending.msg
        BY <1>3, <2>1, <2>2, AppendLast
      <3> QED
        BY <1>1, <2>1, <2>2, <3>1 DEF LatestState, LatestConfig
    <2>3. CASE /\ sending.to = "state" /\ Len(stateChange) < ChanSize
               /\ stateChange' = Append(stateChange, sending.msg)
               /\ UNCHANGED configChange
      <3>1. /\ stateChange' \in Seq(BOOLEAN) /\ Len(stateChange') = Len(stateChange) + 1
            /\ stateChange' # <<>> /\ Last(stateChange') = sending.msg
        BY <1>3, <2>1, <2>3, AppendLast
      <3> QED
        BY <1>1, <2>1, <2>3, <3>1 DEF LatestState, LatestConfig
    <2> QED
      BY <2>2, <2>3 DEF SendCompletes
  <1>8. TypeOK'
    BY <1>1, <1>2, <1>4, <1>6, <1>7 DEF TypeOK
  <1>9. Attempts'
    BY <1>1, <1>4, <1>5 DEF Attempts
  <1>10. ReadyOnce'
    <2>1. FirstLanding' = FirstLanding
      BY <1>1, <1>5 DEF FirstLanding
    <2> QED
      BY <1>1, <1>3, <2>1 DEF ReadyOnce, MakesReady
  <1>11. Senders'
    BY <1>1, <1>2, <1>6 DEF Senders, MakesReady
  <1>12. Closers' /\ ReportsInOrder'
    BY <1>1, <1>2 DEF Closers, Closing, Closed, ReportsInOrder, Newest
  <1>13. Overtaking'
    BY <1>1, <1>2 DEF Overtaking, Online, TypeOK
  <1>14. OnlineMeansConnected' /\ ConnectionsAccounted'
    <2>1. OnlineMeansConnected'
      BY <1>1, <1>5 DEF OnlineMeansConnected, Online
    <2>2. \A r \in Conns : conns'[r].status = "open" =>
             r # sending.retire /\ conns[r].status = "open"
      BY <1>1, <1>3, <1>4, EndpointAssumption
    <2>3. ConnectionsAccounted'
      BY <1>1, <2>2 DEF ConnectionsAccounted
    <2> QED
      BY <2>1, <2>3
  <1>15. RunIsInformed'
    BY <1>1, <1>7 DEF RunIsInformed, Closed, Online
  <1> QED
    BY <1>8, <1>9, <1>10, <1>11, <1>12, <1>13, <1>14, <1>15

-----------------------------------------------------------------------------
(* Every step keeps the invariant. *)
LEMMA NextKeeps ==
    ASSUME IndInv, [Next]_vars
    PROVE  IndInv'
  <1>1. CASE UNCHANGED vars
    BY <1>1
    DEF vars, chanVars, connVars, callVars, trackerVars, IndInv, TypeOK, Attempts, ReadyOnce,
        FirstLanding, MakesReady, Senders, Closers, Closing, Closed, ReportsInOrder, Newest,
        Overtaking, Online, OnlineMeansConnected, ConnectionsAccounted, RunIsInformed,
        LatestState, LatestConfig
  <1>2. CASE RunStep
    BY <1>2, RunKeeps, RunConnectedKeeps DEF RunStep
  <1>3. ASSUME NEW c \in Callers, CallerStep(c) PROVE IndInv'
    BY <1>3, BeginKeeps, ReadStateKeeps, UpdateStateAfterCallKeeps, UpdateConfigKeeps,
       CloseKeeps, CloseReleaseKeeps, QueryReturnsKeeps, NeverReturnsKeeps,
       CallEndsKeeps
    DEF CallerStep, LockedSection
  <1> QED
    BY <1>1, <1>2, <1>3, UpdateConnectionKeeps, UpdateHealthKeeps, SendCompletesKeeps
    DEF Next

(* The invariant holds in every state the endpoint reaches. *)
THEOREM Invariance == Spec => []IndInv
  BY InitIndInv, NextKeeps, PTL DEF Spec

(* The endpoint's state has its types; the WaitGroup e.ready in particular never
   goes below zero, which would be a panic. *)
THEOREM EndpointTypes == Spec => []TypeOK
  <1>1. IndInv => TypeOK
    BY DEF IndInv
  <1> QED
    BY <1>1, Invariance, PTL

(* A query that finds the endpoint online finds a connection that nobody has
   retired or closed. *)
THEOREM OnlineIsConnected == Spec => []OnlineMeansConnected
  <1>1. IndInv => OnlineMeansConnected
    BY DEF IndInv
  <1> QED
    BY <1>1, Invariance, PTL

(* Whatever Close, reconnection and failure do to each other, no connection is
   leaked. *)
THEOREM NoConnectionLeaks == Spec => []ConnectionsAccounted
  <1>1. IndInv => ConnectionsAccounted
    BY DEF IndInv
  <1> QED
    BY <1>1, Invariance, PTL

(* run() is never left with a wrong idea of the state or the configuration. *)
THEOREM RunStaysInformed == Spec => []RunIsInformed
  <1>1. IndInv => RunIsInformed
    BY DEF IndInv
  <1> QED
    BY <1>1, Invariance, PTL

(* Reports in any order leave the endpoint with the calls outstanding. *)
THEOREM HealthIsRight == Spec => []HealthConverges
  <1>1. IndInv => HealthConverges
    BY DEF IndInv, ReportsInOrder, Newest, HealthConverges
  <1> QED
    BY <1>1, Invariance, PTL

(* Only updateStateAfterCall takes a query from where it has met an error. *)
LEMMA LeavesAfter ==
    ASSUME IndInv, [Next]_vars, NEW c \in Callers, pc[c] = "after", pc'[c] # "after"
    PROVE  UpdateStateAfterCall(c)
  <1>1. pc \in [Callers -> {"idle", "ready", "query", "lost", "hung",
                            "after", "config", "close", "await", "release", "sending"}]
    BY DEF IndInv, TypeOK
  <1>2. CASE \/ UNCHANGED vars \/ RunStep
             \/ \E r \in Conns : UpdateConnection(r)
             \/ \E report \in reports.pending : UpdateHealth(report)
    BY <1>2
    DEF vars, RunStep, RunConfig, RunState, RunExit, TimerExpires, RunConnect, RunConnected,
        UpdateConnection, UpdateHealth, callVars
  <1>3. CASE SendCompletes
    BY <1>3 DEF SendCompletes
  <1>4. ASSUME NEW d \in Callers, CallerStep(d) PROVE UpdateStateAfterCall(c)
    <2>1. CASE BeginQuery(d) \/ BeginConfig(d) \/ BeginClose(d)
      BY <1>1, <2>1 DEF BeginQuery, BeginConfig, BeginClose, Begin
    <2>2. CASE ReadState(d) \/ QueryReturns(d) \/ NeverReturns(d) \/ CallEnds(d)
      BY <1>1, <2>2 DEF ReadState, QueryReturns, NeverReturns, CallEnds, callVars
    <2>3. CASE \E cfg \in Configs : UpdateConfig(d, cfg)
      BY <1>1, <2>3 DEF UpdateConfig
    <2>4. CASE CloseLock(d) \/ CloseAwait(d) \/ CloseRelease(d)
      BY <1>1, <2>4 DEF CloseLock, CloseAwait, CloseRelease
    <2>5. CASE UpdateStateAfterCall(d)
      <3>1. d # c => pc'[c] = pc[c]
        BY <1>1, <2>5 DEF UpdateStateAfterCall
      <3> QED
        BY <2>5, <3>1
    <2> QED
      BY <1>4, <2>1, <2>2, <2>3, <2>4, <2>5 DEF CallerStep, LockedSection
  <1> QED
    BY <1>2, <1>3, <1>4 DEF Next

(* The outcome of a call that failed over the connection in use is not lost,
   unless a report of the call tracker overtook it. *)
THEOREM FailuresAreRecorded == Spec => UnavailableIsRecorded
  <1> DEFINE Recorded(c) == /\ pc[c] = "after" /\ pc'[c] # "after"
                            /\ result[c] = "unavailable" /\ snap[c] = cur
                            /\ c \notin hidden
                            => err' # "ok"
  <1>1. ASSUME IndInv, [Next]_vars
        PROVE  \A c \in Callers : Recorded(c)
    <2> SUFFICES ASSUME NEW c \in Callers,
                        pc[c] = "after", pc'[c] # "after",
                        result[c] = "unavailable", snap[c] = cur, c \notin hidden
                 PROVE  err' # "ok"
      OBVIOUS
    <2>1. UpdateStateAfterCall(c) /\ ConcernsCurrent(c)
      BY <1>1, LeavesAfter DEF ConcernsCurrent
    <2>2. c \in overtaken => err # "ok"
      BY <1>1 DEF IndInv, Overtaking, Online
    <2> QED
      BY <2>1, <2>2 DEF UpdateStateAfterCall, Closed
  <1> QED
    BY <1>1, Invariance, PTL DEF Spec, UnavailableIsRecorded

-----------------------------------------------------------------------------
(* An endpoint that has gone offline reconnects.  A connection that is in use
   has come online, and a query has read one. *)
Connected == cur # None => err \in {"ok", "unavailable", "closed"}
HasRead == \A c \in Callers : pc[c] \in {"query", "after"} => snap[c] # None
Reconnecting == Connected /\ HasRead /\ OfflineReconnects

(* A message on its way is taken first, or stays. *)
LEMMA HeadOrTail ==
    ASSUME NEW S, NEW s \in Seq(S), s # <<>>, NEW x, Contains(s, x)
    PROVE  Head(s) = x \/ Contains(Tail(s), x)
  <1>1. PICK i \in 1 .. Len(s) : s[i] = x
    BY DEF Contains
  <1> DEFINE t == Tail(s)
  <1>2. /\ Head(s) = s[1] /\ t \in Seq(S) /\ Len(t) = Len(s) - 1
        /\ \A j \in 1 .. Len(t) : t[j] = s[j + 1]
    BY HeadTailProperties
  <1>3. Len(s) \in Nat
    BY LenProperties
  <1>4. CASE i = 1
    BY <1>1, <1>2, <1>4
  <1>5. CASE i # 1
    <2> HIDE DEF t
    <2>1. i - 1 \in 1 .. Len(t) /\ (i - 1) + 1 = i
      BY <1>1, <1>2, <1>3, <1>5
    <2>2. t[i - 1] = x
      BY <1>1, <1>2, <2>1
    <2> QED
      BY <2>1, <2>2 DEF Contains, t
  <1> QED
    BY <1>4, <1>5

(* It stays when another is sent. *)
LEMMA AppendKeeps ==
    ASSUME NEW S, NEW s \in Seq(S), NEW y \in S, NEW x, Contains(s, x)
    PROVE  Contains(Append(s, y), x)
  <1>1. PICK i \in 1 .. Len(s) : s[i] = x
    BY DEF Contains
  <1> DEFINE t == Append(s, y)
  <1>2. Len(t) = Len(s) + 1 /\ \A j \in 1 .. Len(s) : t[j] = s[j]
    BY AppendProperties
  <1>3. Len(s) \in Nat
    BY LenProperties
  <1> HIDE DEF t
  <1>4. i \in 1 .. Len(t) /\ t[i] = x
    BY <1>1, <1>2, <1>3
  <1> QED
    BY <1>4 DEF Contains, t

(* The last one is on its way. *)
LEMMA LastIsSent ==
    ASSUME NEW S, NEW s \in Seq(S), s # <<>>
    PROVE  Contains(s, Last(s))
  <1>1. Len(s) \in Nat \ {0}
    BY EmptySeq
  <1>2. Len(s) \in 1 .. Len(s)
    BY <1>1
  <1> QED
    BY <1>2 DEF Last, Contains

(* The endpoint has not forgotten to reconnect when it goes offline. *)
LEMMA StepReconnects ==
    ASSUME IndInv, Reconnecting, [Next]_vars
    PROVE  Reconnecting'
  <1> DEFINE Uninformed == Contains(stateChange, TRUE)
             Prepared == \/ run.at = "connecting" \/ landing # {}
                         \/ run.timer \in {"due", "postponed"}
                         \/ run.online \/ Uninformed
  <1>1. /\ err \in Errors /\ cur \in Conns \cup {None}
        /\ run \in Runs /\ stateChange \in Seq(BOOLEAN)
        /\ pc \in [Callers -> {"idle", "ready", "query", "lost", "hung", "after", "config",
                               "close", "await", "release", "sending"}]
        /\ snap \in [Callers -> Conns \cup {None}]
    BY DEF IndInv, TypeOK, Runs, Timers
  <1>2. OfflineReconnects <=> (err = "unavailable" => Prepared)
    BY DEF OfflineReconnects
  <1>3. OfflineReconnects' <=> (err' = "unavailable" => Prepared')
    BY DEF OfflineReconnects
  <1>4. Connected /\ HasRead /\ (err = "unavailable" => Prepared)
    BY <1>2 DEF Reconnecting
  <1>5. SUFFICES Connected' /\ HasRead' /\ (err' = "unavailable" => Prepared')
    BY <1>3 DEF Reconnecting
  <1>6. CASE \/ UNCHANGED vars
             \/ \E c \in Callers : BeginQuery(c) \/ BeginConfig(c) \/ BeginClose(c)
             \/ \E c \in Callers : QueryReturns(c) \/ NeverReturns(c) \/ CallEnds(c)
             \/ \E c \in Callers : \/ \E cfg \in Configs : UpdateConfig(c, cfg)
                                   \/ CloseAwait(c)
             \/ \E report \in reports.pending : UpdateHealth(report)
    <2>1. /\ UNCHANGED <<err, cur, run, landing, stateChange>>
          /\ \A c \in Callers :
                pc'[c] \in {"query", "after"} =>
                    pc[c] \in {"query", "after"} /\ snap'[c] = snap[c]
      <3>1. CASE UNCHANGED vars
        BY <3>1 DEF vars, connVars, chanVars, callVars
      <3>2. CASE \E report \in reports.pending : UpdateHealth(report)
        BY <3>2 DEF UpdateHealth, connVars, chanVars, callVars
      <3>3. ASSUME NEW c \in Callers, BeginQuery(c) \/ BeginConfig(c) \/ BeginClose(c)
            PROVE  <2>1!:
        BY <1>1, <3>3 DEF BeginQuery, BeginConfig, BeginClose, Begin, connVars, chanVars
      <3>4. ASSUME NEW c \in Callers, QueryReturns(c) \/ NeverReturns(c)
            PROVE  <2>1!:
        BY <1>1, <3>4 DEF QueryReturns, NeverReturns, connVars, chanVars
      <3>5. ASSUME NEW c \in Callers, CallEnds(c) \/ CloseAwait(c)
            PROVE  <2>1!:
        BY <1>1, <3>5 DEF CallEnds, CloseAwait, connVars, chanVars, callVars
      <3>6. ASSUME NEW c \in Callers, NEW cfg \in Configs, UpdateConfig(c, cfg)
            PROVE  <2>1!:
        BY <1>1, <3>6 DEF UpdateConfig, connVars, chanVars
      <3> QED
        BY <1>6, <3>1, <3>2, <3>3, <3>4, <3>5, <3>6
    <2>2. HasRead'
      BY <1>4, <2>1 DEF HasRead
    <2> QED
      BY <1>4, <2>1, <2>2 DEF Connected
  <1>7. CASE RunStep
    <2>1. UNCHANGED <<err, cur, pc, snap>>
      <3>1. CASE RunConfig
        BY <3>1 DEF RunConfig, callVars
      <3>2. CASE RunState \/ RunExit \/ TimerExpires \/ RunConnect
        BY <3>2 DEF RunState, RunExit, TimerExpires, RunConnect, callVars
      <3>3. CASE \E r \in Conns : RunConnected(r)
        BY <3>3 DEF RunConnected, callVars
      <3> QED
        BY <1>7, <3>1, <3>2, <3>3 DEF RunStep
    <2>2. Connected' /\ HasRead'
      BY <1>4, <2>1 DEF Connected, HasRead
    <2>3. SUFFICES ASSUME err = "unavailable", Prepared PROVE Prepared'
      BY <1>4, <2>1, <2>2
    <2>4. CASE RunState
      <3>1. UNCHANGED landing /\ stateChange # <<>> /\ stateChange' = Tail(stateChange)
        BY <2>4 DEF RunState, connVars
      <3>2. PICK new \in BOOLEAN : new = Head(stateChange)
        BY <1>1, <3>1, TailLast
      <3>3. run' = [run EXCEPT !.online = new, !.timer = TimerAfter(new)]
        BY <2>4, <3>2 DEF RunState
      <3>4. run'.at = run.at /\ run'.online = new /\ run'.timer = TimerAfter(new)
        BY <1>1, <3>3 DEF Runs
      <3>5. Uninformed => new = TRUE \/ Uninformed'
        <4>1. Contains(Tail(stateChange), TRUE) => Uninformed'
          BY <3>1 DEF Contains
        <4>2. Uninformed => Head(stateChange) = TRUE \/ Contains(Tail(stateChange), TRUE)
          BY <1>1, <3>1, HeadOrTail, Zenon
        <4> QED
          BY <3>2, <4>1, <4>2, Zenon
      <3> HIDE DEF Uninformed
      <3>6. CASE new
        BY <3>4, <3>6
      <3>7. CASE ~new /\ run.online
        BY <3>4, <3>7 DEF TimerAfter
      <3>8. CASE ~new /\ ~run.online
        BY <2>3, <3>1, <3>4, <3>5, <3>8 DEF TimerAfter
      <3> QED
        BY <3>6, <3>7, <3>8
    <2>5. CASE RunConfig
      <3>1. UNCHANGED <<landing, stateChange>>
        BY <2>5 DEF RunConfig, connVars
      <3>2. /\ run'.at = run.at /\ run'.online = run.online
            /\ run.timer \in {"due", "postponed"} => run'.timer \in {"due", "postponed"}
        BY <1>1, <2>5 DEF RunConfig, Retimed, Runs
      <3> QED
        BY <2>3, <3>1, <3>2
    <2>6. CASE TimerExpires \/ RunConnect
      BY <1>1, <2>6 DEF TimerExpires, RunConnect, Runs
    <2>7. CASE RunExit
      BY <2>3, <2>7 DEF RunExit, Closed
    <2>8. CASE \E r \in Conns : RunConnected(r)
      BY <2>8 DEF RunConnected
    <2> QED
      BY <1>7, <2>4, <2>5, <2>6, <2>7, <2>8 DEF RunStep
  <1>8. ASSUME NEW c \in Callers, ReadState(c)
        PROVE  Connected' /\ HasRead' /\ (err' = "unavailable" => Prepared')
    <2>1. UNCHANGED <<err, cur, run, landing, stateChange>>
      BY <1>8 DEF ReadState, connVars, chanVars
    <2>2. Online => cur # None
      BY DEF IndInv, OnlineMeansConnected
    <2>3. HasRead'
      BY <1>1, <1>4, <1>8, <2>2 DEF HasRead, ReadState
    <2> QED
      BY <1>4, <2>1, <2>3 DEF Connected
  <1>9. ASSUME NEW c \in Callers, UpdateStateAfterCall(c)
        PROVE  Connected' /\ HasRead' /\ (err' = "unavailable" => Prepared')
    <2>1. /\ pc[c] = "after" /\ sending = None /\ UNCHANGED <<cur, run, landing, stateChange>>
          /\ \/ cur = snap[c] /\ ~Closed /\ err' = "unavailable"
             \/ UNCHANGED err
      BY <1>9 DEF UpdateStateAfterCall, ConcernsCurrent, Unlocked, connVars, chanVars
    <2>2. \A d \in Callers : d # c => pc'[d] = pc[d] /\ snap'[d] = snap[d]
      BY <1>1, <1>9 DEF UpdateStateAfterCall
    <2>3. pc'[c] \in {"idle", "sending"}
      BY <1>1, <1>9 DEF UpdateStateAfterCall
    <2>4. HasRead'
      BY <1>4, <2>2, <2>3 DEF HasRead
    <2>5. CASE UNCHANGED err
      BY <1>4, <2>1, <2>4, <2>5 DEF Connected
    <2>6. CASE cur = snap[c] /\ ~Closed /\ err' = "unavailable"
      <3>1. err \in {"ok", "unavailable"}
        BY <1>4, <2>1, <2>6 DEF Connected, HasRead, Closed
      <3>2. err = "ok" => LatestState
        BY <3>1 DEF IndInv, RunIsInformed, Closed, Online
      <3>3. LatestState => run.online \/ Uninformed
        BY <1>1, <2>1, LastIsSent DEF LatestState
      <3> HIDE DEF Uninformed
      <3>4. Prepared
        BY <1>4, <3>1, <3>2, <3>3
      <3>5. Uninformed' = Uninformed
        BY <2>1 DEF Uninformed
      <3> QED
        BY <2>1, <2>4, <2>6, <3>4, <3>5 DEF Connected
    <2> QED
      BY <2>1, <2>5, <2>6
  <1>10. ASSUME NEW r \in Conns, UpdateConnection(r)
         PROVE  Connected' /\ HasRead' /\ (err' = "unavailable" => Prepared')
    <2>1. UNCHANGED <<pc, snap>> /\ err' # "unavailable"
      BY <1>10 DEF UpdateConnection, callVars, Closed
    <2>2. Connected'
      BY <1>4, <1>10 DEF UpdateConnection, Connected
    <2> QED
      BY <1>4, <2>1, <2>2 DEF HasRead
  <1>11. ASSUME NEW c \in Callers, CloseLock(c) \/ CloseRelease(c)
         PROVE  Connected' /\ HasRead' /\ (err' = "unavailable" => Prepared')
    <2>1. UNCHANGED snap /\ pc'[c] \notin {"query", "after"}
          /\ \A d \in Callers : d # c => pc'[d] = pc[d]
      BY <1>1, <1>11 DEF CloseLock, CloseRelease
    <2>2. HasRead'
      BY <1>4, <2>1 DEF HasRead
    <2>3. Connected' /\ err' # "unavailable"
      <3>1. CASE CloseLock(c)
        BY <3>1 DEF CloseLock, Connected
      <3>2. CASE CloseRelease(c)
        <4>1. Closed
          BY <3>2 DEF CloseRelease, Closing, IndInv, Closers
        <4> QED
          BY <3>2, <4>1 DEF CloseRelease, Connected, Closed
      <3> QED
        BY <1>11, <3>1, <3>2
    <2> QED
      BY <2>2, <2>3
  <1>12. CASE SendCompletes
    <2>1. UNCHANGED <<err, cur, run, landing, snap>>
      BY <1>12 DEF SendCompletes
    <2>2. \A c \in Callers : pc'[c] \in {"query", "after"} => pc[c] = pc'[c]
      BY <1>1, <1>12 DEF SendCompletes
    <2>3. Uninformed => Uninformed'
      <3>1. CASE UNCHANGED stateChange
        BY <3>1 DEF Contains
      <3>2. CASE sending.to = "state" /\ stateChange' = Append(stateChange, sending.msg)
        <4>1. sending.msg \in BOOLEAN
          BY <1>12, <3>2 DEF SendCompletes, Unlocked, IndInv, TypeOK, Section
        <4> QED
          BY <1>1, <3>2, <4>1, AppendKeeps
      <3> QED
        BY <1>12, <3>1, <3>2 DEF SendCompletes
    <2> HIDE DEF Uninformed
    <2> QED
      BY <1>4, <2>1, <2>2, <2>3 DEF Connected, HasRead
  <1> QED
    BY <1>6, <1>7, <1>8, <1>9, <1>10, <1>11, <1>12 DEF Next, CallerStep, LockedSection

(* An endpoint that is offline because a call has found the server unavailable
   does not wait for its interval: its next attempt is under way or due, unless a
   change of the intervals has set back the timer. *)
THEOREM OfflineIsRetried == Spec => []OfflineReconnects
  <1>1. Init => Reconnecting
    BY DEF Init, Reconnecting, Connected, HasRead, OfflineReconnects
  <1>2. Reconnecting => OfflineReconnects
    BY DEF Reconnecting
  <1> QED
    BY <1>1, <1>2, Invariance, StepReconnects, PTL DEF Spec

-----------------------------------------------------------------------------
(* The endpoint implements the contract of EndpointContract. *)
(* The caller that the contract knows as the closer. *)
LEMMA CloserCases ==
    ASSUME Closers, Closers'
    PROVE  /\ \A c \in Callers : Closing(c) => Closer = c
           /\ (\A c \in Callers : ~Closing(c)) => Closer = None
           /\ \A c \in Callers : Closing(c)' => Closer' = c
           /\ (\A c \in Callers : ~Closing(c)') => Closer' = None
  <1>1. \A c \in Callers : Closing(c) => Closer = c
    BY DEF Closers, Closer
  <1>2. \A c \in Callers : Closing(c)' => Closer' = c
    BY DEF Closers, Closer
  <1> QED
    BY <1>1, <1>2 DEF Closer

(* The closer stays the same when nobody begins or ends to close. *)
LEMMA SameCloser ==
    ASSUME Closers, Closers', \A c \in Callers : Closing(c)' <=> Closing(c)
    PROVE  Closer' = Closer
  <1>1. CASE \E c \in Callers : Closing(c)
    BY <1>1, CloserCases
  <1>2. CASE \A c \in Callers : ~Closing(c)
    BY <1>2, CloserCases
  <1> QED
    BY <1>1, <1>2

(* Where a caller is in the contract, by its place. *)
LEMMA CallOfCases ==
    ASSUME NEW c
    PROVE  /\ pc[c] \in {"idle", "lost", "hung"} => CallOf(c) = pc[c]
           /\ pc[c] \in {"ready", "query", "after"} => CallOf(c) = "query"
           /\ pc[c] \in {"close", "await", "release"} => CallOf(c) = "close"
           /\ pc[c] = "config" => CallOf(c) = "config"
           /\ pc[c] = "sending" /\ sending.to = "state" => CallOf(c) = "query"
           /\ pc[c] = "sending" /\ sending.to = "config" => CallOf(c) = "config"
           /\ pc'[c] \in {"idle", "lost", "hung"} => CallOf(c)' = pc'[c]
           /\ pc'[c] \in {"ready", "query", "after"} => CallOf(c)' = "query"
           /\ pc'[c] \in {"close", "await", "release"} => CallOf(c)' = "close"
           /\ pc'[c] = "config" => CallOf(c)' = "config"
           /\ pc'[c] = "sending" /\ sending'.to = "state" => CallOf(c)' = "query"
           /\ pc'[c] = "sending" /\ sending'.to = "config" => CallOf(c)' = "config"
  BY DEF CallOf

(* Updates of the contract's record of an endpoint. *)
Record(p, a, r, k, t) == [phase |-> p, attempted |-> a, ready |-> r, closer |-> k, at |-> t]

(* Each field of the record can be read and updated. *)
LEMMA RecordUpdates ==
    ASSUME NEW p, NEW a, NEW r, NEW k, NEW t, NEW x
    PROVE  /\ [Record(p, a, r, k, t) EXCEPT !.phase = x] = Record(x, a, r, k, t)
           /\ [Record(p, a, r, k, t) EXCEPT !.attempted = x] = Record(p, x, r, k, t)
           /\ [Record(p, a, r, k, t) EXCEPT !.ready = x] = Record(p, a, x, k, t)
           /\ [Record(p, a, r, k, t) EXCEPT !.closer = x] = Record(p, a, r, x, t)
           /\ [Record(p, a, r, k, t) EXCEPT !.at = x] = Record(p, a, r, k, x)
           /\ Record(p, a, r, k, t).phase = p
           /\ Record(p, a, r, k, t).attempted = a
           /\ Record(p, a, r, k, t).ready = r
           /\ Record(p, a, r, k, t).closer = k
           /\ Record(p, a, r, k, t).at = t
           /\ DOMAIN Record(p, a, r, k, t) = {"phase", "attempted", "ready", "closer", "at"}
  BY DEF Record

IsReady == ready = 0
Calling == [c \in Callers |-> CallOf(c)]

(* What the contract sees of the endpoint, before and after a step. *)
LEMMA PromisedIs ==
    /\ Promised = Record(Phase, run.initialized, IsReady, Closer, Calling)
    /\ Promised' = Record(Phase', run'.initialized, IsReady', Closer', Calling')
  BY DEF Promised, Record, IsReady, Calling

(* The contract's function has this endpoint alone in its domain. *)
LEMMA PromiseIs ==
    /\ Promise["this"] = Promised /\ DOMAIN Promise = {"this"}
    /\ \A x : Promise' = [Promise EXCEPT !["this"] = x] <=> Promised' = x
    /\ Promise' = Promise <=> Promised' = Promised
  BY DEF Promise

(* A step that leaves all that the contract speaks of. *)
LEMMA PromiseStutters ==
    ASSUME Phase' = Phase, run'.initialized = run.initialized,
           IsReady' = IsReady, Closer' = Closer,
           \A d \in Callers : CallOf(d)' = CallOf(d)
    PROVE  Promise' = Promise
  <1>1. Calling' = Calling
    BY DEF Calling
  <1> QED
    BY <1>1, PromisedIs, PromiseIs

(* A step that takes one caller into a method, or out of it. *)
LEMMA PromiseMoves ==
    ASSUME NEW c \in Callers, NEW m,
           Phase' = Phase, run'.initialized = run.initialized, IsReady' = IsReady,
           Closer' = Closer,
           CallOf(c)' = m, \A d \in Callers : d # c => CallOf(d)' = CallOf(d)
    PROVE  Promise' = [Promise EXCEPT !["this"].at[c] = m]
  <1>1. Calling' = [Calling EXCEPT ![c] = m]
    BY DEF Calling
  <1>2. Promised' = [Promised EXCEPT !.at = [Calling EXCEPT ![c] = m]]
    <2> DEFINE moved == [Calling EXCEPT ![c] = m]
    <2>1. Calling' = moved
      BY <1>1
    <2> HIDE DEF moved
    <2>2. Promised' = Record(Phase, run.initialized, IsReady, Closer, moved)
      BY <2>1, PromisedIs
    <2>3. [Promised EXCEPT !.at = moved] = Record(Phase, run.initialized, IsReady, Closer, moved)
      BY PromisedIs, RecordUpdates
    <2> QED
      BY <2>2, <2>3 DEF moved
  <1>3. Promised.at = Calling
    BY PromisedIs, RecordUpdates
  <1>4. Promise' = [Promise EXCEPT !["this"] =
                      [Promise["this"] EXCEPT !.at = [Promise["this"].at EXCEPT ![c] = m]]]
    BY <1>2, <1>3, PromiseIs
  <1> QED
    BY <1>4

(* A step that changes one of the other fields. *)
LEMMA PromiseChanges ==
    ASSUME Calling' = Calling
    PROVE  /\ /\ Phase' = Phase /\ run'.initialized = TRUE /\ IsReady' = IsReady
              /\ Closer' = Closer
              => Promise' = [Promise EXCEPT !["this"].attempted = TRUE]
           /\ /\ Phase' = Phase /\ run'.initialized = run.initialized /\ IsReady' = TRUE
              /\ Closer' = Closer
              => Promise' = [Promise EXCEPT !["this"].ready = TRUE]
           /\ /\ Phase' = "closed" /\ run'.initialized = run.initialized
              /\ IsReady' = IsReady /\ Closer' = Closer
              => Promise' = [Promise EXCEPT !["this"].phase = "closed"]
  <1> DEFINE yes == TRUE
  <1> HIDE DEF yes
  <1>1. /\ [Promised EXCEPT !.attempted = yes] =
               Record(Phase, yes, IsReady, Closer, Calling)
        /\ [Promised EXCEPT !.ready = yes] =
               Record(Phase, run.initialized, yes, Closer, Calling)
        /\ [Promised EXCEPT !.phase = "closed"] =
               Record("closed", run.initialized, IsReady, Closer, Calling)
    BY PromisedIs, RecordUpdates, SMTT(30)
  <1>2. Promised' = Record(Phase', run'.initialized, IsReady', Closer', Calling)
    BY PromisedIs
  <1>3. /\ /\ Phase' = Phase /\ run'.initialized = yes /\ IsReady' = IsReady
           /\ Closer' = Closer
           => Promise' = [Promise EXCEPT !["this"].attempted = yes]
        /\ /\ Phase' = Phase /\ run'.initialized = run.initialized /\ IsReady' = yes
           /\ Closer' = Closer
           => Promise' = [Promise EXCEPT !["this"].ready = yes]
    BY <1>1, <1>2, PromiseIs
  <1>4. /\ Phase' = "closed" /\ run'.initialized = run.initialized
        /\ IsReady' = IsReady /\ Closer' = Closer
        => Promise' = [Promise EXCEPT !["this"].phase = "closed"]
    BY <1>1, <1>2, PromiseIs
  <1> QED
    BY <1>3, <1>4 DEF yes

(* The first Close begins. *)
LEMMA PromiseCloses ==
    ASSUME NEW c \in Callers, Phase' = "closing", run'.initialized = run.initialized,
           IsReady' = IsReady, Closer' = c, Calling' = Calling
    PROVE  Promise' = [Promise EXCEPT !["this"].phase = "closing", !["this"].closer = c]
  <1> DEFINE closing == [Promised EXCEPT !.phase = "closing"]
  <1>1. closing = Record("closing", run.initialized, IsReady, Closer, Calling)
    BY PromisedIs, RecordUpdates
  <1> HIDE DEF closing
  <1>2. [closing EXCEPT !.closer = c] = Record("closing", run.initialized, IsReady, c, Calling)
    BY <1>1, RecordUpdates
  <1>3. Promised' = [closing EXCEPT !.closer = c]
    BY <1>2, PromisedIs
  <1>4. Promise' = [Promise EXCEPT !["this"] = [closing EXCEPT !.closer = c]]
    BY <1>3, PromiseIs
  <1>5. Promise' = [[Promise EXCEPT !["this"] = closing] EXCEPT !["this"] = [@ EXCEPT !.closer = c]]
    BY <1>4, PromiseIs
  <1> QED
    BY <1>5, PromiseIs DEF closing

(* A Close returns. *)
LEMMA PromiseClosed ==
    ASSUME NEW c \in Callers, Phase' = Phase, run'.initialized = run.initialized,
           IsReady' = IsReady, Closer' = (IF Closer = c THEN None ELSE Closer),
           CallOf(c)' = "idle", \A d \in Callers : d # c => CallOf(d)' = CallOf(d)
    PROVE  Promise' = [Promise EXCEPT !["this"].at[c] = "idle",
                                      !["this"].closer = IF @ = c THEN None ELSE @]
  <1> DEFINE moved == [Calling EXCEPT ![c] = "idle"]
             left == [Promised EXCEPT !.at = moved]
             closer == IF Closer = c THEN None ELSE Closer
  <1>1. Calling' = moved
    BY DEF Calling
  <1> HIDE DEF moved, closer
  <1>2. left = Record(Phase, run.initialized, IsReady, Closer, moved)
    BY PromisedIs, RecordUpdates
  <1> HIDE DEF left
  <1>3. /\ [left EXCEPT !.closer = closer] =
              Record(Phase, run.initialized, IsReady, closer, moved)
        /\ left.closer = Closer
    BY <1>2, RecordUpdates
  <1>4. Promised' = [left EXCEPT !.closer = closer]
    BY <1>1, <1>3, PromisedIs DEF closer
  <1>5. left = [Promised EXCEPT !.at = [Promised.at EXCEPT ![c] = "idle"]]
    <2>1. Promised.at = Calling
      BY PromisedIs, RecordUpdates
    <2> QED
      BY <2>1 DEF left, moved
  <1>6. Promise' = [Promise EXCEPT !["this"] = [left EXCEPT !.closer = closer]]
    BY <1>4, PromiseIs
  <1>7. /\ Promised.closer = Closer
        /\ DOMAIN Promised = {"phase", "attempted", "ready", "closer", "at"}
    BY PromisedIs, RecordUpdates
  <1>8. Promise' = [Promise EXCEPT !["this"] =
                      [[Promise["this"] EXCEPT !.at = [Promise["this"].at EXCEPT ![c] = "idle"]]
                          EXCEPT !.closer = IF Promise["this"].closer = c THEN None
                                            ELSE Promise["this"].closer]]
    BY <1>5, <1>6, <1>7, PromiseIs DEF closer
  <1> QED
    BY <1>7, <1>8, PromiseIs

(* The place of a caller in the contract stays, whatever is being sent, unless
   the caller moves or is the one that sends. *)
LEMMA SameCall ==
    ASSUME IndInv, NEW d \in Callers, pc'[d] = pc[d],
           pc[d] # "sending" \/ sending' = sending
    PROVE  CallOf(d)' = CallOf(d)
  <1>1. pc[d] \in {"idle", "ready", "query", "lost", "hung",
                   "after", "config", "close", "await", "release", "sending"}
    BY DEF IndInv, TypeOK
  <1>2. CASE pc[d] # "sending"
    BY <1>1, <1>2, CallOfCases
  <1>3. CASE pc[d] = "sending" /\ sending' = sending
    <2>1. sending.to \in Channels
      BY <1>3 DEF IndInv, Senders, TypeOK, Section
    <2> QED
      BY <1>3, <2>1, CallOfCases DEF Channels
  <1> QED
    BY <1>2, <1>3

(* The phase depends on whether run() has ended and on whether e is closed. *)
LEMMA SamePhase ==
    ASSUME run'.at = "done" <=> run.at = "done", Closed' <=> Closed
    PROVE  Phase' = Phase
  BY DEF Phase

(* The fields of the contract's record. *)
LEMMA PromiseFields ==
    /\ Promise["this"].phase = Phase
    /\ Promise["this"].attempted = run.initialized
    /\ Promise["this"].ready = IsReady
    /\ Promise["this"].closer = Closer
    /\ \A c \in Callers : Promise["this"].at[c] = CallOf(c)
  BY PromiseIs, PromisedIs, RecordUpdates DEF Calling

(* run() makes the first attempt, ends, or does nothing the client knows of. *)
LEMMA RunSimulates ==
    ASSUME IndInv, IndInv', RunStep
    PROVE  Promise' = Promise \/ Contract!Attempt("this") \/ Contract!RunEnds("this")
  <1>1. UNCHANGED <<err, ready, sending, pc>>
    BY DEF RunStep, RunConfig, RunState, RunExit, TimerExpires, RunConnect, RunConnected,
           callVars
  <1>2. /\ IsReady' = IsReady /\ (Closed' <=> Closed)
        /\ \A d \in Callers : CallOf(d)' = CallOf(d)
        /\ Closer' = Closer
    BY <1>1, SameCall, SameCloser DEF IsReady, Closed, IndInv, Closing
  <1>3. Calling' = Calling
    BY <1>2 DEF Calling
  <1>4. run \in Runs
    BY DEF IndInv, TypeOK, Runs, Timers
  <1>5. CASE RunExit
    <2>1. run.at = "select" /\ Closed
      BY <1>5 DEF RunExit
    <2>2. run'.at = "done" /\ run'.initialized = run.initialized
      BY <1>4, <1>5 DEF RunExit, Exit, Runs
    <2>3. Phase = "closing" /\ Phase' = "closed"
      BY <2>1, <2>2 DEF Phase
    <2> QED
      BY <1>2, <1>3, <2>2, <2>3, PromiseChanges, PromiseFields DEF Contract!RunEnds
  <1>6. CASE RunConfig \/ RunState \/ TimerExpires \/ RunConnect
    <2>1. /\ run'.initialized = run.initialized /\ run.at = "select"
          /\ run'.at \in {"select", "connecting"} \/ RunExit
      BY <1>6, RunFrame
    <2>2. CASE run'.at \in {"select", "connecting"}
      BY <1>2, <2>1, <2>2, SamePhase, PromiseStutters
    <2> QED
      BY <1>5, <2>1, <2>2
  <1>7. ASSUME NEW r \in Conns, RunConnected(r)
        PROVE  Promise' = Promise \/ Contract!Attempt("this")
    <2>1. /\ run.at = "connecting" /\ run'.at = "select" /\ run'.initialized = TRUE
          /\ run.initialized \in BOOLEAN
      BY <1>4, <1>7 DEF RunConnected, Runs, SetsInitialized
    <2>2. Phase' = Phase /\ Phase \in {"open", "closing"}
      BY <1>2, <2>1 DEF Phase
    <2>3. CASE run.initialized
      BY <1>2, <2>1, <2>2, <2>3, PromiseStutters
    <2>4. CASE ~run.initialized
      BY <1>2, <1>3, <2>1, <2>2, <2>4, PromiseChanges, PromiseFields DEF Contract!Attempt
    <2> QED
      BY <2>1, <2>3, <2>4
  <1> QED
    BY <1>5, <1>6, <1>7 DEF RunStep

(* An attempt lands: the first one on a closed endpoint makes it ready. *)
LEMMA UpdateConnectionSimulates ==
    ASSUME IndInv, IndInv', NEW r \in Conns, UpdateConnection(r)
    PROVE  Promise' = Promise \/ Contract!BecomeReady("this")
  <1>1. UNCHANGED <<run, pc>> /\ sending = None
    BY DEF UpdateConnection, callVars, Unlocked
  <1>2. /\ \A d \in Callers : CallOf(d)' = CallOf(d)
        /\ Closer' = Closer
    BY <1>1, SameCall, SameCloser DEF IndInv, Closing, Senders
  <1>3. Closed' <=> Closed
    BY DEF UpdateConnection, Closed
  <1>4. Phase' = Phase
    BY <1>1, <1>3, SamePhase
  <1>5. CASE UNCHANGED ready
    BY <1>1, <1>2, <1>4, <1>5, PromiseStutters DEF IsReady
  <1>6. CASE conns[r].first /\ ready' = ready - 1
    <2>1. ready = 1 /\ run.initialized
      BY <1>6 DEF IndInv, ReadyOnce, FirstLanding, UpdateConnection
    <2>2. IsReady = FALSE /\ IsReady' = TRUE
      BY <1>6, <2>1 DEF IsReady
    <2>3. Calling' = Calling
      BY <1>2 DEF Calling
    <2>4. Promise' = [Promise EXCEPT !["this"].ready = TRUE]
      BY <1>1, <1>2, <1>4, <2>2, <2>3, PromiseChanges
    <2> QED
      BY <2>1, <2>2, <2>4, PromiseFields DEF Contract!BecomeReady
  <1> QED
    BY <1>5, <1>6 DEF UpdateConnection

(* A report of the call tracker is nothing the client knows of. *)
LEMMA UpdateHealthSimulates ==
    ASSUME IndInv, IndInv', NEW report \in reports.pending, UpdateHealth(report)
    PROVE  Promise' = Promise
  <1>1. UNCHANGED <<err, ready, run, pc>> /\ sending = None
    BY DEF UpdateHealth, callVars, Unlocked
  <1>2. /\ \A d \in Callers : CallOf(d)' = CallOf(d)
        /\ Closer' = Closer
    BY <1>1, SameCall, SameCloser DEF IndInv, Closing, Senders
  <1>3. Phase' = Phase
    BY <1>1, SamePhase DEF Closed
  <1> QED
    BY <1>1, <1>2, <1>3, PromiseStutters DEF IsReady

(* The section that sends ends: an attempt has landed, or its caller returns. *)
LEMMA SendCompletesSimulates ==
    ASSUME IndInv, IndInv', SendCompletes
    PROVE  \/ Promise' = Promise \/ Contract!BecomeReady("this")
           \/ \E c \in Callers : Contract!Proceed("this", c)
  <1>1. /\ UNCHANGED <<err, run>> /\ sending # None
        /\ ready' = IF sending.ready THEN ready - 1 ELSE ready
        /\ \A d \in Callers : pc'[d] = IF pc[d] = "sending" THEN "idle" ELSE pc[d]
    BY DEF SendCompletes, Unlocked
  <1>2. Phase' = Phase
    BY <1>1, SamePhase DEF Closed
  <1>3. Closer' = Closer
    BY <1>1, SameCloser DEF IndInv, Closing
  <1>4. CASE \A d \in Callers : pc[d] # "sending"
    <2>1. \A d \in Callers : CallOf(d)' = CallOf(d)
      BY <1>1, <1>4, SameCall
    <2>2. CASE ~sending.ready
      BY <1>1, <1>2, <1>3, <2>1, <2>2, PromiseStutters DEF IsReady
    <2>3. CASE sending.ready
      <3>1. ready = 1 /\ run.initialized
        BY <1>1, <2>3 DEF IndInv, ReadyOnce, MakesReady
      <3>2. IsReady = FALSE /\ IsReady' = TRUE
        BY <1>1, <2>3, <3>1 DEF IsReady
      <3>3. Calling' = Calling
        BY <2>1 DEF Calling
      <3>4. Promise' = [Promise EXCEPT !["this"].ready = TRUE]
        BY <1>1, <1>2, <1>3, <3>2, <3>3, PromiseChanges
      <3> QED
        BY <3>1, <3>2, <3>4, PromiseFields DEF Contract!BecomeReady
    <2> QED
      BY <2>2, <2>3
  <1>5. ASSUME NEW c \in Callers, pc[c] = "sending"
        PROVE  Contract!Proceed("this", c)
    <2>1. /\ ~sending.ready /\ sending.to \in Channels
          /\ sending.to = "state" => ready = 0
      BY <1>1, <1>5 DEF IndInv, Senders, MakesReady, TypeOK, Section
    <2>2. IsReady' = IsReady /\ (ready = 0 => IsReady = TRUE)
      BY <1>1, <2>1 DEF IsReady
    <2>3. \A d \in Callers : d # c => CallOf(d)' = CallOf(d)
      BY <1>1, <1>5, SameCall DEF IndInv, Senders
    <2>4. CallOf(c)' = "idle"
      BY <1>1, <1>5, CallOfCases
    <2>5. Promise' = [Promise EXCEPT !["this"].at[c] = "idle"]
      BY <1>1, <1>2, <1>3, <2>2, <2>3, <2>4, PromiseMoves
    <2>6. CASE sending.to = "state"
      <3>1. CallOf(c) = "query"
        BY <1>5, <2>6, CallOfCases
      <3> QED
        BY <2>1, <2>2, <2>5, <2>6, <3>1, PromiseFields
        DEF Contract!Proceed, Contract!QueryReturns
    <2>7. CASE sending.to = "config"
      <3>1. CallOf(c) = "config"
        BY <1>5, <2>7, CallOfCases
      <3> QED
        BY <2>5, <3>1, PromiseFields DEF Contract!Proceed, Contract!UpdateConfigReturns
    <2> QED
      BY <2>1, <2>6, <2>7 DEF Channels
  <1> QED
    BY <1>4, <1>5

(* A step of one caller that neither begins nor ends to close the endpoint. *)
LEMMA OneCaller ==
    ASSUME IndInv, IndInv', NEW c \in Callers,
           UNCHANGED <<ready, run>>, Closed' <=> Closed,
           Closing(c)' <=> Closing(c),
           \A d \in Callers : d # c => pc'[d] = pc[d],
           sending = None \/ sending' = sending
    PROVE  /\ CallOf(c)' = CallOf(c) => Promise' = Promise
           /\ Promise' = [Promise EXCEPT !["this"].at[c] = CallOf(c)']
  <1>1. Phase' = Phase /\ IsReady' = IsReady
    BY SamePhase DEF IsReady
  <1>2. Closer' = Closer
    BY SameCloser DEF IndInv, Closing
  <1>3. \A d \in Callers : d # c => CallOf(d)' = CallOf(d)
    BY SameCall DEF IndInv, Senders
  <1>4. CallOf(c)' = CallOf(c) => Promise' = Promise
    BY <1>1, <1>2, <1>3, PromiseStutters
  <1> DEFINE m == CallOf(c)'
  <1>5. CallOf(c)' = m
    OBVIOUS
  <1> HIDE DEF m
  <1>6. Promise' = [Promise EXCEPT !["this"].at[c] = m]
    BY <1>1, <1>2, <1>3, <1>5, PromiseMoves
  <1> QED
    BY <1>4, <1>5, <1>6

(* What the contract allows a call to do. *)
Allowed(c) ==
    \/ Promise' = Promise
    \/ \E m \in {"query", "config", "close"} : Contract!Enter("this", c, m)
    \/ Contract!Proceed("this", c) \/ Contract!NeverReturns("this", c)

(* The steps of a query and of UpdateConfig. *)
LEMMA CallSimulates ==
    ASSUME IndInv, IndInv', NEW c \in Callers,
           \/ BeginQuery(c) \/ BeginConfig(c) \/ BeginClose(c)
           \/ ReadState(c) \/ QueryReturns(c) \/ NeverReturns(c) \/ CallEnds(c)
           \/ UpdateStateAfterCall(c)
           \/ \E cfg \in Configs : UpdateConfig(c, cfg)
    PROVE  Allowed(c)
  <1>1. pc \in [Callers -> {"idle", "ready", "query", "lost", "hung",
                            "after", "config", "close", "await", "release", "sending"}]
    BY DEF IndInv, TypeOK
  <1>2. ASSUME UNCHANGED <<ready, run>>, Closed' <=> Closed, Closing(c)' <=> Closing(c),
               \A d \in Callers : d # c => pc'[d] = pc[d],
               sending = None \/ sending' = sending
        PROVE  /\ CallOf(c)' = CallOf(c) => Allowed(c)
               /\ CallOf(c) = "idle" /\ CallOf(c)' \in {"query", "config", "close"} => Allowed(c)
               /\ CallOf(c) = "query" /\ CallOf(c)' = "idle" /\ ready = 0 => Allowed(c)
               /\ CallOf(c) = "config" /\ CallOf(c)' = "idle" => Allowed(c)
               /\ CallOf(c) = "query" /\ CallOf(c)' \in {"lost", "hung"} /\ ready = 0
                     => Allowed(c)
    <2>1. /\ CallOf(c)' = CallOf(c) => Promise' = Promise
          /\ Promise' = [Promise EXCEPT !["this"].at[c] = CallOf(c)']
      BY <1>2, OneCaller
    <2>2. Phase # "none" /\ (ready = 0 => IsReady = TRUE)
      BY DEF Phase, IsReady
    <2>3. ASSUME NEW m \in {"query", "config", "close"}, CallOf(c) = "idle", CallOf(c)' = m
          PROVE  Allowed(c)
      BY <2>1, <2>2, <2>3, PromiseFields DEF Allowed, Contract!Enter
    <2>4. ASSUME CallOf(c) = "query", CallOf(c)' = "idle", ready = 0 PROVE Allowed(c)
      BY <2>1, <2>2, <2>4, PromiseFields
      DEF Allowed, Contract!Proceed, Contract!QueryReturns
    <2>5. ASSUME CallOf(c) = "config", CallOf(c)' = "idle" PROVE Allowed(c)
      BY <2>1, <2>5, PromiseFields
      DEF Allowed, Contract!Proceed, Contract!UpdateConfigReturns
    <2>6. ASSUME NEW fate \in {"lost", "hung"}, CallOf(c) = "query", CallOf(c)' = fate,
                 ready = 0
          PROVE  Allowed(c)
      BY <2>1, <2>2, <2>6, PromiseFields DEF Allowed, Contract!NeverReturns
    <2> QED
      BY <2>1, <2>3, <2>4, <2>5, <2>6 DEF Allowed
  <1>3. CASE BeginQuery(c) \/ BeginConfig(c) \/ BeginClose(c)
    <2>1. PICK at \in {"ready", "config", "close"} : Begin(c, at)
      BY <1>3 DEF BeginQuery, BeginConfig, BeginClose
    <2>2. /\ pc[c] = "idle" /\ pc'[c] = at /\ UNCHANGED <<err, ready, run, sending>>
          /\ \A d \in Callers : d # c => pc'[d] = pc[d]
      BY <1>1, <2>1 DEF Begin
    <2>3. CallOf(c) = "idle" /\ CallOf(c)' \in {"query", "config", "close"}
      BY <2>2, CallOfCases
    <2> QED
      BY <1>2, <2>2, <2>3 DEF Closing, Closed
  <1>4. CASE ReadState(c)
    <2>1. /\ pc[c] = "ready" /\ pc'[c] \in {"idle", "query"} /\ ready = 0
          /\ UNCHANGED <<err, ready, run, sending>>
          /\ \A d \in Callers : d # c => pc'[d] = pc[d]
      BY <1>1, <1>4 DEF ReadState
    <2>2. CallOf(c) = "query" /\ CallOf(c)' \in {"idle", "query"}
      BY <2>1, CallOfCases
    <2> QED
      BY <1>2, <2>1, <2>2 DEF Closing, Closed
  <1>5. CASE QueryReturns(c)
    <2>1. /\ pc[c] = "query" /\ pc'[c] = "after"
          /\ UNCHANGED <<err, ready, run, sending>>
          /\ \A d \in Callers : d # c => pc'[d] = pc[d]
      BY <1>1, <1>5 DEF QueryReturns
    <2>2. CallOf(c) = "query" /\ CallOf(c)' = "query"
      BY <2>1, CallOfCases
    <2> QED
      BY <1>2, <2>1, <2>2 DEF Closing, Closed
  <1>9. CASE NeverReturns(c)
    <2>1. /\ pc[c] = "query" /\ pc'[c] \in {"lost", "hung"}
          /\ UNCHANGED <<err, ready, run, sending>>
          /\ \A d \in Callers : d # c => pc'[d] = pc[d]
      BY <1>1, <1>9 DEF NeverReturns
    <2>2. CallOf(c) = "query" /\ CallOf(c)' \in {"lost", "hung"}
      BY <2>1, CallOfCases
    <2>3. ready = 0
      BY <2>1 DEF IndInv, Senders
    <2> QED
      BY <1>2, <2>1, <2>2, <2>3 DEF Closing, Closed
  <1>6. CASE CallEnds(c)
    <2>1. UNCHANGED <<err, ready, run, sending, pc>>
      BY <1>6 DEF CallEnds, callVars
    <2>2. CallOf(c)' = CallOf(c)
      BY <2>1, SameCall
    <2> QED
      BY <1>2, <2>1, <2>2 DEF Closing, Closed
  <1>7. CASE UpdateStateAfterCall(c)
    <2>1. /\ pc[c] = "after" /\ sending = None /\ UNCHANGED <<ready, run>>
          /\ \A d \in Callers : d # c => pc'[d] = pc[d]
          /\ \/ pc'[c] = "idle" /\ UNCHANGED err
             \/ /\ pc'[c] = "sending" /\ err' = "unavailable" /\ ~Closed
                /\ Sends("state", FALSE, None, FALSE)
      BY <1>1, <1>7 DEF UpdateStateAfterCall, Unlocked
    <2>2. CallOf(c) = "query" /\ CallOf(c)' \in {"idle", "query"}
      BY <2>1, CallOfCases DEF Sends
    <2>3. ready = 0
      BY <2>1 DEF IndInv, Senders
    <2> QED
      BY <1>2, <2>1, <2>2, <2>3 DEF Closing, Closed
  <1>8. ASSUME NEW cfg \in Configs, UpdateConfig(c, cfg) PROVE Allowed(c)
    <2>1. /\ pc[c] = "config" /\ sending = None /\ UNCHANGED <<err, ready, run>>
          /\ \A d \in Callers : d # c => pc'[d] = pc[d]
          /\ \/ pc'[c] = "idle"
             \/ pc'[c] = "sending" /\ Sends("config", cfg, None, FALSE)
      BY <1>1, <1>8 DEF UpdateConfig, Unlocked
    <2>2. CallOf(c) = "config" /\ CallOf(c)' \in {"idle", "config"}
      BY <2>1, CallOfCases DEF Sends
    <2> QED
      BY <1>2, <2>1, <2>2 DEF Closing, Closed
  <1> QED
    BY <1>3, <1>4, <1>5, <1>6, <1>7, <1>8, <1>9

(* The steps of Close: the first one begins to close the endpoint and returns
   once run() has ended; any other returns at once. *)
LEMMA CloseSimulates ==
    ASSUME IndInv, IndInv', NEW c \in Callers,
           CloseLock(c) \/ CloseAwait(c) \/ CloseRelease(c)
    PROVE  Allowed(c)
  <1>1. pc \in [Callers -> {"idle", "ready", "query", "lost", "hung",
                            "after", "config", "close", "await", "release", "sending"}]
    BY DEF IndInv, TypeOK
  <1>2. /\ UNCHANGED <<ready, run, sending>> /\ pc[c] \in {"close", "await", "release"}
        /\ \A d \in Callers : d # c => pc'[d] = pc[d]
    BY <1>1 DEF CloseLock, CloseAwait, CloseRelease
  <1>3. CallOf(c) = "close" /\ IsReady' = IsReady
    BY <1>2, CallOfCases DEF IsReady
  <1>4. \A d \in Callers : d # c => CallOf(d)' = CallOf(d)
    BY <1>2, SameCall
  <1>5. Closers /\ Closers'
    BY DEF IndInv
  <1>6. CASE CloseLock(c) /\ ~Closed
    <2>1. pc[c] = "close" /\ pc'[c] = "await" /\ Closed'
      BY <1>1, <1>6 DEF CloseLock, Closed
    <2>2. Phase = "open" /\ Phase' = "closing"
      BY <1>2, <1>5, <1>6, <2>1 DEF Phase, Closers
    <2>3. Closer' = c
      BY <1>5, <2>1, CloserCases DEF Closing
    <2>4. Calling' = Calling
      <3>1. CallOf(c)' = "close"
        BY <2>1, CallOfCases
      <3> QED
        BY <1>3, <1>4, <3>1 DEF Calling
    <2>5. Promise' = [Promise EXCEPT !["this"].phase = "closing", !["this"].closer = c]
      BY <1>2, <1>3, <2>2, <2>3, <2>4, PromiseCloses
    <2> QED
      BY <1>3, <2>2, <2>5, PromiseFields DEF Allowed, Contract!Proceed, Contract!CloseBegins
  <1>7. CASE CloseLock(c) /\ Closed
    <2>1. pc[c] = "close" /\ pc'[c] = "idle" /\ Closed'
      BY <1>1, <1>7 DEF CloseLock, Closed
    <2>2. Phase' = Phase /\ Phase # "open"
      BY <1>2, <1>7, <2>1 DEF Phase
    <2>3. Closer' = Closer
      BY <1>2, <1>5, <2>1, SameCloser DEF Closing
    <2>4. Closer # c
      <3>1. ~Closing(c)
        BY <2>1 DEF Closing
      <3>2. CASE \E d \in Callers : Closing(d)
        BY <1>5, <3>1, <3>2, CloserCases
      <3>3. CASE \A d \in Callers : ~Closing(d)
        BY <1>5, <3>3, CloserCases, EndpointAssumption
      <3> QED
        BY <3>2, <3>3
    <2>5. CallOf(c)' = "idle"
      BY <2>1, CallOfCases
    <2>6. Promise' = [Promise EXCEPT !["this"].at[c] = "idle",
                                     !["this"].closer = IF @ = c THEN None ELSE @]
      BY <1>2, <1>3, <1>4, <2>2, <2>3, <2>4, <2>5, PromiseClosed
    <2> QED
      BY <1>3, <2>2, <2>4, <2>6, PromiseFields
      DEF Allowed, Contract!Proceed, Contract!CloseReturns
  <1>8. CASE CloseAwait(c)
    <2>1. pc[c] = "await" /\ pc'[c] = "release" /\ UNCHANGED err
      BY <1>1, <1>8 DEF CloseAwait
    <2>2. CallOf(c)' = "close"
      BY <2>1, CallOfCases
    <2> QED
      BY <1>2, <1>3, <2>1, <2>2, OneCaller DEF Allowed, Closing, Closed
  <1>9. CASE CloseRelease(c)
    <2>1. pc[c] = "release" /\ pc'[c] = "idle" /\ UNCHANGED err
      BY <1>1, <1>9 DEF CloseRelease
    <2>2. Phase' = Phase /\ Phase = "closed"
      BY <1>2, <1>5, <2>1 DEF Phase, Closers, Closed
    <2>3. Closer = c
      BY <1>5, <2>1, CloserCases DEF Closing
    <2>4. Closer' = None
      <3>1. \A d \in Callers : ~Closing(d)'
        BY <1>2, <1>5, <2>1 DEF Closers, Closing
      <3> QED
        BY <1>5, <3>1, CloserCases
    <2>5. CallOf(c)' = "idle"
      BY <2>1, CallOfCases
    <2>6. Promise' = [Promise EXCEPT !["this"].at[c] = "idle",
                                     !["this"].closer = IF @ = c THEN None ELSE @]
      BY <1>2, <1>3, <1>4, <2>2, <2>3, <2>4, <2>5, PromiseClosed
    <2> QED
      BY <1>3, <2>2, <2>3, <2>6, PromiseFields
      DEF Allowed, Contract!Proceed, Contract!CloseReturns
  <1> QED
    BY <1>6, <1>7, <1>8, <1>9

(* NewEndpoint makes an open endpoint of the contract. *)
LEMMA InitSimulates ==
    ASSUME Init
    PROVE  Contract!Init
  <1>1. /\ Phase = "open" /\ run.initialized = FALSE /\ IsReady = FALSE /\ Closer = None
        /\ \A c \in Callers : CallOf(c) = "idle"
    <2>1. \A c \in Callers : pc[c] = "idle"
      BY DEF Init
    <2>2. \A c \in Callers : ~Closing(c) /\ CallOf(c) = "idle"
      BY <2>1, CallOfCases DEF Closing
    <2> QED
      BY <2>2 DEF Init, Phase, IsReady, Closer, Closed
  <1>2. Calling = [c \in Callers |-> "idle"]
    BY <1>1 DEF Calling
  <1>3. Promised = Contract!New("open")
    BY <1>1, <1>2 DEF Promised, Calling, IsReady, Contract!New
  <1>4. Promise \in [{"this"} -> {Contract!New("none"), Contract!New("open")}]
    BY <1>3 DEF Promise
  <1> QED
    BY <1>4 DEF Contract!Init

(* Whatever connections, timers, channels and other callers do, the endpoint
   does nothing that the client does not expect of it.  This is the safety part
   of KeepsContract. *)
THEOREM ImplementsContract == Spec => Contract!Spec
  <1>1. ASSUME IndInv, IndInv', [Next]_vars
        PROVE  [Contract!Next]_Promise
    <2>1. CASE UNCHANGED vars
      BY <2>1
      DEF vars, Promise, Promised, Phase, Closed, Closer, Closing, CallOf, callVars
    <2>2. CASE RunStep
      BY <1>1, <2>2, RunSimulates DEF Contract!Next
    <2>3. ASSUME NEW c \in Callers, CallerStep(c) PROVE [Contract!Next]_Promise
      <3>1. Allowed(c)
        BY <1>1, <2>3, CallSimulates, CloseSimulates DEF CallerStep, LockedSection
      <3> QED
        BY <3>1 DEF Allowed, Contract!Methods, Contract!Next
    <2>4. ASSUME NEW r \in Conns, UpdateConnection(r) PROVE [Contract!Next]_Promise
      BY <1>1, <2>4, UpdateConnectionSimulates DEF Contract!Next
    <2>5. ASSUME NEW report \in reports.pending, UpdateHealth(report)
          PROVE  [Contract!Next]_Promise
      BY <1>1, <2>5, UpdateHealthSimulates
    <2>6. CASE SendCompletes
      BY <1>1, <2>6, SendCompletesSimulates DEF Contract!Next
    <2> QED
      BY <1>1, <2>1, <2>2, <2>3, <2>4, <2>5, <2>6 DEF Next
  <1> QED
    BY <1>1, Invariance, InitSimulates, PTL DEF Spec, Contract!Spec

=============================================================================
