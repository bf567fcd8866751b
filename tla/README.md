# TLA+ models of dfsr

The repository monitors Distributed File System Replication (DFSR) in a Windows
domain: a service polls Active Directory for the replication topology, asks the
DFSR helper of every member for its backlog, and hands the results to
consumers. Around it are a cache, a value sink, a poller, and command line tools
that read manifests. It has no tests; most of what can go wrong is in how its
goroutines meet. The modules here model that core, TLC checks them on small
instances, and TLAPS proves for every instance every safety property that is checked:
of the poller, both monitors and their updates, the fetch of the configuration, the
service, the cache, the endpoint, the helper client, the reporter and the manifests.

## 1. The system

| Component (source) | State | Operations | Interacts with |
|---|---|---|---|
| Poller (`poller/poller.go`) | `closed`, `cancel`, mutex, condition `idle`, channels `pulse`, `stop` | `Poll`, `Close`, `run`, `invoke` | calls its source's `Poll` and `Close` |
| Domain monitor (`dfsrconfig/domainmonitor.go`) | poller instance, `closed`, broadcaster | `Start`, `Stop`, `Close`, `Update`, `Value`, `WaitReady`, `Listen` | a source of the poller; fetches, updates the sink, broadcasts |
| Configuration client (`dfsrconfig/client*.go`, `membercache`) | member cache, one goroutine for each group | `Domain`, `Groups` | ADSI (external) |
| Value sink (`valuesink/sink.go`) | value, timestamp, error, `ready` | `Update`, `WaitReady`, `Value`, `Close` | written by polls, read by users |
| Backlog monitor, worker, broadcaster (`monitor/`) | poller instance, `closed`, listeners | `Start`, `Stop`, `Close`, `Update`, `Listen`, `Unlisten`, `Poll`, `compute` | reads the domain monitor, queries the helper client, sends updates |
| Update (`monitor/update.go`) | values, remaining, listeners | `Listen`, `send`, `cancel` | filled by computations, ranged over by consumers |
| Helper client (`helper/client.go`) | map of endpoints, mutex | `Backlog`, `Vector`, `Report`, `Close`, `UpdateConfig` | one endpoint for each member |
| Endpoint (`helper/endpoint.go`) | state, configuration, reporter, two channels to `run()` | queries, `UpdateConfig`, `Close`, `run`, `updateConnection`, `updateHealth` | call tracker (external), reporter |
| Reporter, limiter, cacher (`helper/`) | COM interface, mutex, pool of workers | `Vector`, `Backlog`, `Report`, `Close` | remote procedure calls (external) |
| Cache (`cache/cache.go`, `versionvector/`) | data, pending entries, log, RW lock | `Lookup`, `Value`, `Set`, `Evict`, `Close`, `cleanup` | the lookup function: `Reporter.Vector` |
| Service (`svc/dfsrmonitor`), StatHat consumer | reported status, requests under way, goroutines that act on them | `Execute`, `run` | callers and listeners of both monitors; the service control manager (external) |
| Manifest, filters, `dfsrmanifest` | cursor, two statistics, one channel for each path | `Read`, `End`, `Stats`, `And`, `Or`, `Not`, `parseFilter`, `run`, `main` | files (external) |
| Others | none | commands, flags, types, COM bindings, call statistics | |

What is hard here: a mutex held over a channel send (poller, endpoint, both
broadcasters); goroutines whose results land in any order (connection attempts, call
reports, deliveries); contexts that end between any two steps; remote calls that hang
and are left behind; Close against everything; error paths that skip an unlock or a
wake-up; requests acted on out of order. `PROJECT.json` lists each such place with the
properties aimed at it.

## 2. Modules

| Module | Models | Uses |
|---|---|---|
| `PollSource` | the contract of a poller's source: serial calls, none after `Close` | |
| `Poller` | `poller.go` in full | implements `PollSource` (property `SourceContract`) |
| `Update` | `update.go`, with the backing arrays of the listeners' slice | |
| `Lifecycle` | the contract of a monitor: started and stopped again and again, closed once, quiet afterwards | |
| `Monitor` | monitor, worker, broadcaster, consumers | the poller at `PollSource`, an update at what `Update` shows; implements `Lifecycle` (`KeepsLifecycle`) |
| `Config` | one fetch of the configuration | |
| `Domain` | domain monitor, sink, broadcaster | the poller at `PollSource`, a fetch at what `Config` shows: it ends, with a result or an error; implements `Lifecycle` |
| `Service` | `Execute` and the goroutines it spawns | two monitors at `Lifecycle` |
| `Cache` | `cache.go` | |
| `EndpointContract` | what the client expects of its endpoints | |
| `Endpoint` | `endpoint.go` | implements `EndpointContract` (`KeepsContract`) |
| `Client` | `client.go` | endpoints at `EndpointContract` |
| `Reporter` | reporter and vector pool as `Client.Backlog` and `Client.Report` use them | |
| `Manifest` | cursor, filters, statistics and the `dfsrmanifest` command | |
| `MC*` | instances for TLC | |
| `X_proofs` | theorems about `X`, for `Monitor`, `Service`, `Cache`, `Endpoint` and `Reporter` | `X`, `TLAPS` |
| `DomainConfig_proofs` | theorems about `Domain` and about `Config`, which share no name | `Domain`, `Config`, `TLAPS` |
| `ClientManifest_proofs` | theorems about `Client` and about `Manifest`, which share no name | `Client`, `Manifest`, `TLAPS` |
| `UpdatePoller_proofs` | theorems about `Update` and about `Poller`, which share no name | `Update`, `Poller`, `TLAPS` |

So the system is composed along three contracts. `Poller` implements `PollSource`,
on which `Monitor` and `Domain` stand; these implement `Lifecycle`, on which
`Service` stands; `Endpoint` implements `EndpointContract`, on which `Client`
stands. TLC checks the last two refinements with the fairness of the contract: what
the user waits for does happen. TLAPS proves the step part of all of them: every
step of the code is a step of the contract or none.

Each module has one action for each section of code between two points where
another goroutine can intervene. A section under a mutex is one action; one that
sends with the mutex held is split at the send, and the holder is part of the
state. `map` in `PROJECT.json` gives the lines of every definition. In
particular:

- **Poller.** `pc` is where a caller of `Poll` or `Close` is, `inv[i]` where the
  i-th invocation is, `run` the `run()` goroutine. `Poll` that is sending keeps
  the mutex. After `close(p.pulse)` the select may take the closed channel any
  number of times (`RunClosedPulse`).
- **Update.** `cells[a][l]` is listener l's record in backing array a. `append`
  beyond the capacity of two copies the records; deliveries keep the array they
  were spawned with; `moved` notes the listeners that an append moved while a value
  was on its way to them. `Update.cancel` has no caller in the repository yet; it is
  modelled as an action that may happen.
- **Lifecycle.** A monitor is stopped, running, stopping, closing or closed; `by`
  is the caller that holds its mutex over a blocking step, `polling` says that a
  poll is under way, `stalled` what keeps it from ever ending: a listener that
  receives no more, or a query that is lost in the cache of the vectors. `attached`
  are the channels that are open. Fairness: a poll ends unless it has stalled, and
  Stop and Close return when no poll is under way.
- **Monitor.** A round is `PollCheck`, `BroadcastLock`, `BroadcastSend`, the
  computations, `PollReturns`. An update is `current`, `complete` or
  `incomplete`; a serial listener (StatHat) ranges over it, any other (the
  service) goes on receiving. A computation asks the client for its backlog
  (`query`); the answer may never come (`lost`).
- **Config.** Every ADSI call may fail. The ghosts `failed` and `ignored` tell a
  failure that is returned from one that the code drops (an iterator's error, the
  wrong error variable in `memberInfo`, the blank in `serverref, _`).
- **Domain.** A configuration is named by its poll. WaitReady, Value and Update
  of the sink are separate steps of separate goroutines.
- **Service.** `pc` is where `Execute` is, `job[j]` the goroutine that acts on one
  request. A request passes through three places: the service control manager
  accepts it by the status that was reported last (`accepted`), `svc.Run` holds it
  out to Execute (`request`), and Execute has received it and is about to report a
  status (`doing`). So a Pause or a Continue may follow a Stop, if it was accepted
  before the Stop was acted on. The manager and `svc.Run` are
  external: what the model says of them is the least that the package
  `golang.org/x/sys/windows/svc` does with one unbuffered channel. An Interrogate
  carries the status that `svc.Run` knew when it began to hold it out (`current`), and
  Execute reports it back; `target` notes the status that the last request has
  called for. `cfg.WaitReady` waits for the next poll, as the one that `cfg.Update`
  asked for may already have failed. `crossed` notes that the last Pause or Continue
  was spawned before an earlier one had reached the monitor.
- **Cache.** The RW lock is free between actions except when a return has leaked
  it (`lock`). Values count their releases. `crashed` is the nil function call of
  a retrieval that Close overtakes.
- **Endpoint.** Time is reduced to whether a call returned before
  `state.Updated`. `conns` are connection attempts, `landing` those whose
  `updateConnection` goroutine is to run. The call tracker may deliver its
  reports in any order. `hidden` notes the callers whose failure a report overtook.
  The timer of `run()` is set, due at once, or `postponed`: it was due and a change of
  the intervals set it back. `OfflineReconnects` says that run() is to reconnect; that
  it does so is the fairness of its select. A query need not return: the cache of the
  vectors, on by default, may lose it (`lost`, module `Cache` shows how), and the
  remote call of a Report may hang with the lock of its connection (`hung`).
- **EndpointContract, Client.** An endpoint is open, closing or closed; it is ready
  once its first attempt to connect has landed, and a query waits for that. Then it
  returns, or it is lost, which keeps nobody else, or it hangs in a Report, after
  which nothing is promised of the other calls of that endpoint. A
  section under `c.mutex` is one action of `Client`, except that Close and
  UpdateConfig keep the mutex (`owner`) while they call one endpoint after another.
  Backlog looks up both members before it queries the first.
- **Reporter.** `rpc[g]` is a remote call with its goroutine; `attended` says
  whether its caller still waits. A remote call need not return. Vectors are
  names that are free, held, a result, or lost.
- **Manifest.** A filter is `Nil` or the set of the resources it matches, a
  regular expression the set of the strings it matches, a line what it tells. Times
  are moments of short days. An option gives a day by its name (today, yesterday), by
  its date, or a moment; `now.Parse`, external, makes a date its midnight and leaves a
  moment as it is. A manifest may hold an element that cannot be decoded.
  `Expected` is the reference: what is to be printed, defined over whole manifests,
  over days and option by option, without cursors, filters, parsed times or running
  statistics. It says what the code does at the ends of a day, in `IsAfter`,
  `IsBefore` and `IsWithin`; the usage of the command says otherwise (section 3).

## 3. Runs

With two workers most runs take seconds, the longest two and a half minutes. All of
them are expected to pass.

| Run | Distinct states | Instance | Shows |
|---|---|---|---|
| `poller` | 3 329 | 2 callers, 3 invocations | `OneInvocation`, `NoSendOnClosedPulse`, `ClosingCancels`, refinement of `PollSource`, `Poll` and `Close` return (`CallsReturn`), goroutines end (`Quiesces`) |
| `update` | 159 465 | 3 backlogs, 3 listeners, `cancel` | `EachValueOnce`, `ClosedIsComplete`, `EarlyListenersClose` |
| `cache` | 347 917 | 1 key, 2 callers, 3 instants, 3 values | `CachedValuesAreLive`, `LeavingIsReleasing`, `SingleFlight`, `EntriesAwaitCleanup`, and `CallsReturnOrAreLost`: the two leaks of the code are the only way to lose a call |
| `endpoint` | 3 533 102 | 2 callers, 2 attempts, 2 reports, 2 configurations that differ in their intervals, symmetry | `OnlineMeansConnected`, `ConnectionsAccounted`, `RunIsInformed`, `HealthConverges`, `OfflineReconnects`, `UnavailableIsRecorded` |
| `endpoint_live` | 26 582 | a caller of queries and UpdateConfig, one that closes, 2 attempts | refinement of `EndpointContract` with its liveness (`KeepsContract`) |
| `client` | 28 808 | 2 callers, 2 members | `ClosedHoldsNothing`, `ClientReturns` |
| `monitor` | 101 972 | 2 callers, 2 listeners, 2 connections | `BroadcastsToOpenChannels`, `RoundsComplete`, refinement of `Lifecycle` with its liveness (`KeepsLifecycle`) |
| `config` | 27 089 | 2 groups, 3 members, 4 connections | `ResultIsHonest`, `FetchReturns` |
| `domain` | 34 645 | 2 callers, 2 users, 2 listeners, 3 polls | `ReadyHoldsValue`, `ConfigurationAdvances`, `WaitersReturn`, refinement of `Lifecycle` |
| `reporter` | 439 344 | 2 callers, in the same or in opposite directions, 2 connections, 3 calls, 2 vectors | `AttendedCallsAreSafe`, `VectorsOwnedOnce`, `BacklogReturns` |
| `service` | 112 168 | 2 requests and any number of Interrogates, channel of 1 | `StatusAgrees`, `StartupEnds`, `StopsClean` |
| `manifest` | 57 838 | 2 paths, 5 files, 8 sets of options, 3 commands, channel of 1 | `PrintsInOrder`, `PrintsEverything` |

Each property has a mutant in `PROJECT.json`: a definition changed as a plausible bug
would change it, under which
TLC finds the property violated. Every module states its `TypeOK`, which documents
the variables and is the base of the proofs; it holds in every run (add it as an
INVARIANT after changing a module), and the runs spend their time on the properties
above.

### Bounds

Two callers of the same object are enough for every conflict the code has (two parties
over a lock, a channel or an entry), and a third actor (an invocation, a computation,
the cleanup, `run()`) is always there. Three invocations let one run, one be turned
away and one start late. Channels hold one element instead of 16 or 32 (or a line
instead of 10240): the behaviour of interest is that of a full channel. Two listeners
stay within the first backing array of an update and the third leaves it; of three
backlogs one may then have arrived, one be on its way and one be still to come. One
key of `Cache` is where two callers meet; keys share only the log and the lock, and
three values give records of replaced entries out of order in the log. Two requests of
`service` are a Pause and a Continue that cross, or either of them with a Stop before
or after it, both accepted before the first is acted on; Interrogates, which spawn
nothing, are not bounded. Two members of `Client` are what a Backlog joins, and either
may keep the other waiting. The clock of `Cache` has three instants with a duration of
one: an entry is fresh, expires exactly now, has expired. The liveness of the endpoint
is checked with one configuration and without reports: what the configuration says
decides no call, and a report is one more section that sends with the mutex held, as
an attempt that lands is. What counts are two attempts that land in either order, two
messages for a channel of one, a caller that may be lost, hang or reconfigure, and
another that closes, again and again, against it (`LiveSpec`). `endpoint`, for safety, has both,
and both callers do everything; its configurations differ in their intervals, as a
change of layers makes the timer due, which an elapsed interval does as well.
`reporter` has both directions of a pair of members and a call to spare. Three polls
of `Domain` give success after failure and failure after success. Names of calls,
vectors and connection attempts are reused once they are free; when calls that were
left behind use all of them up, no further one starts, which is why deadlock is not
checked there. Deadlock checking is off in the runs because every one of these systems
may rest: nobody has to call, and Close is the end. What must not rest is stated as a
liveness property instead.

### Fairness

Goroutines that can run do. `sync.Mutex` hands itself over to a waiter it has starved
for a millisecond, and `select` picks among ready cases at random: both are strong
fairness of the step that needs them. A source returns once its context is done (the
worker looks at it); a domain fetch returns because the directory answers. The
poller's timeout ends every context of a poll in the end. In `Service` the
configuration's ticker goes on, which is what ends a wait that began after the first
poll had failed, and the two cases of the select are each strongly fair: the StatHat
consumer or a busy monitor does not keep requests from being seen. `Client` assumes of
its endpoints, and `Service` of its monitors, the fairness that `endpoint_live`,
`monitor` and `domain` check. A query returns once its context is done, with two
exceptions that the models make, each at any moment: `cache.Lookup` (`cache.go` 205)
waits without the context for an entry that may have been left behind, or for a lock
that a closed cache keeps, and such a query is lost; and the remote call of a Report,
which nothing can cancel, may hang, and then neither its connection's lock nor, behind
a Close that waits for it, the endpoint's mutex need ever be free. Otherwise no
fairness is assumed of callers, ticks, listeners that come or go, remote calls (but an
attempt to connect ends, in `Endpoint`), or of contexts in `Cache`.

### Where the code disagrees with its documentation

The properties are exact about it: each names the only cases in which the code
falls short, so that the run shows there are no others. The findings in
`PROJECT.json` quote the lines.

- A third listener of an update may leave an earlier one without its close, and a
  cancel then sends on a closed channel: the listeners in `moved`
  (`EarlyListenersClose`, `ClosedIsComplete`).
- A report of the call tracker may overtake an RPC failure, and the endpoint stays
  online: the callers in `hidden` (`UnavailableIsRecorded`).
- A lookup whose context is done leaves a pending entry that nobody wakes, and a
  call on a closed cache keeps its lock (`CallsReturnOrAreLost`); a retrieval that
  Close overtakes calls a nil function (`crashed` in `Cache`).
- A query that waits for an endpoint which Close keeps from its first attempt waits
  for ever: `Stranded` in `ClientReturns`. Inside the monitor this cannot happen:
  its worker closes the client only when the poll has ended.
- A query that is lost in the cache of the vectors never returns (`Held` in
  `ClientReturns`; so do the calls behind a Report that hangs), the poll that asked
  never ends, and Stop and Close of the monitor wait for it (`stalled` in
  `KeepsLifecycle` and `StopsClean`).
- A change of the intervals sets back a timer that is due at once, and an endpoint
  that has just gone offline does not reconnect "immediately" (`endpoint.go` 323):
  `postponed` in `OfflineReconnects`.
- A Pause and a Continue may reach the monitor in the other order: `crossed` in
  `StatusAgrees`.
- An Interrogate that was made before a request was acted on reports the older
  status after it: `status = target` in `StatusAgrees`.
- `-when` is for the "day to include" (`main.go` 50): with a date it selects nothing,
  as the date is read as midnight for both ends, and with a name it leaves out the
  first and the last moment of the day (`IsWithin`). `-before` is for an "end date"
  (49) and leaves out all of that date (`IsBefore`), as the FIXME of `time.go` 25 has
  it. `PrintsInOrder` compares the output with these, so that it shows how far the
  command is from its usage and that it is no further.
- `Value` panics without a value (`Domain`); `memberInfo` drops an error (`Config`).

In `KeepsLifecycle` Stop and Close of the monitor may hang for two causes: a
stalled listener and a lost query. That a listener blocks the monitor is documented
as intended (`monitor.go` 146-151); what the model adds is which listeners stall
without a fault of theirs: one that asks for an update's values after its last one
was sent, and one whose update was cut short by a cancelled poll. The lost query is a
fault of the cache: the timeout of one poll, which cancels a lookup before it has
begun, is enough for a later poll of the same vector to hang. `StopsClean` carries
both to the service: a Stop request ends it unless a poll never ends.

`AttendedCallsAreSafe` says only as much as the code guarantees. A remote call that
its caller has left goes on without the lock: `Close` may release its interface and
`v.Close` the vector it sends, although `reporter.go` 136 expects the lock to be
held for the duration of the call.

## 4. Proofs

The theorems hold for every value of the constants: any sets of callers, listeners,
members, connections, calls, values or requests, any capacity of the channels.

| Module | Theorem | Statement |
|---|---|---|
| `UpdatePoller_proofs` | `UpdateTypeCorrect` | `UpdateSpec => []UpdateTypeOK` |
| | `ValuesSentOnce` | `UpdateSpec => []EachValueOnce` |
| | `ClosedChannelsHoldTheUpdate` | `UpdateSpec => []ClosedIsComplete` |
| | `MovedListenersWait` | `UpdateSpec => []MovedStayOpen` (the safety half of `EarlyListenersClose`) |
| | `PollerTypeCorrect` | `Spec => []TypeOK` |
| | `NeverTwoInvocations` | `Spec => []OneInvocation` |
| | `PollNeverPanics` | `Spec => []NoSendOnClosedPulse` |
| | `CloseWaitsForCancelled` | `Spec => []ClosingCancels` |
| | `SourceCallsAreSerial` | `Spec => SourceContract` (refinement of `PollSource`) |
| `Endpoint_proofs` | `EndpointTypes` | `Spec => []TypeOK` |
| | `OnlineIsConnected` | `Spec => []OnlineMeansConnected` |
| | `NoConnectionLeaks` | `Spec => []ConnectionsAccounted` |
| | `RunStaysInformed` | `Spec => []RunIsInformed` |
| | `HealthIsRight` | `Spec => []HealthConverges` |
| | `OfflineIsRetried` | `Spec => []OfflineReconnects` |
| | `FailuresAreRecorded` | `Spec => UnavailableIsRecorded` (action property) |
| | `ImplementsContract` | `Spec => Contract!Spec` (refinement of `EndpointContract`) |
| `ClientManifest_proofs` | `ClientTypes` | `Spec => []TypeOK` |
| | `ClosedClientHoldsNothing` | `Spec => []ClosedHoldsNothing` |
| | `FilterSelects` | the filter that `parseFilter` builds of any options that the command can be given matches the resources that the options select one by one, by day or moment, and is nil if and only if no option is given |
| | `OutputIsInOrder` | `ManifestSpec => []PrintsInOrder` |
| | `EndsHavingPrinted` | `ManifestSpec => []EndsComplete` (the safety half of `PrintsEverything`) |
| | `ManifestTypeCorrect` | `ManifestSpec => []ManifestTypeOK` |
| `Monitor_proofs` | `MonitorTypes` | `Spec => []TypeOK` |
| | `SendsToOpenChannels` | `Spec => []BroadcastsToOpenChannels` |
| | `RoundsAreComplete` | `Spec => RoundsComplete` (action property) |
| | `ImplementsLifecycle` | `Spec => Contract!Spec` (refinement of `Lifecycle`) |
| `DomainConfig_proofs` | `DomainTypes` | `Spec => []TypeOK` |
| | `ReadyMeansValue` | `Spec => []ReadyHoldsValue` |
| | `ConfigurationOnlyAdvances` | `Spec => ConfigurationAdvances` (action property) |
| | `ImplementsLifecycle` | `Spec => Contract!Spec` (refinement of `Lifecycle`) |
| | `FetchIsHonest` | `ConfigSpec => []ResultIsHonest` |
| | `FetchEndsWithItsGoroutines` | `ConfigSpec => []FetchLeavesNobody` (the safety half of `FetchReturns`) |
| | `ConfigTypeCorrect` | `ConfigSpec => []ConfigTypeOK` |
| `Cache_proofs` | `CacheTypes` | `Spec => []TypeOK` |
| | `ReleasedOnce` | `Spec => []CachedValuesAreLive` |
| | `OneLookupAtATime` | `Spec => []SingleFlight` |
| | `NoEntryForgotten` | `Spec => []EntriesAwaitCleanup` |
| | `WhatLeavesIsReleased` | `Spec => LeavingIsReleasing` (action property) |
| `Reporter_proofs` | `ReporterTypes` | `Spec => []TypeOK` |
| | `AttendedCallsKeepWhatTheyUse` | `Spec => []AttendedCallsAreSafe` |
| | `VectorsHaveOneOwner` | `Spec => []VectorsOwnedOnce` |
| `Service_proofs` | `ServiceTypes` | `Spec => []TypeOK` |
| | `StatusIsTrue` | `Spec => []StatusAgrees` |
| | `NothingIsLeft` | `Spec => []LeavesNothing` (the safety half of `StopsClean`) |

### Assumptions

They are those named in the modules, and TLC evaluates each in a run. `None` (`Nil`,
`NoDN`) stands for nil and is none of the values it is compared with (in `Service`,
none of the requests, actions and statuses). `Update` has finitely many backlogs, as
it counts them, and listeners, as it numbers their arrays. Channels have room for an
element or more. `Cache` has finitely many callers at a time, as the bound on the
values counts the Sets under way, and `Monitor` finitely many connections, as an
update counts what it still has to get. `Endpoint` also says that `None` is no message
of a section (`Section`). `Manifest` has any files, options and commands, except that
`-when` excludes `-after` and `-before`, as the command refuses them together, each
time a day by its name, a date or a moment; days have a first moment, times and sizes
of resources are natural numbers, and `Bad`, the element that cannot be decoded, is no
resource. `Config` has any directory.

### The inductive invariants

Every proof has the same shape. `IndInv` (`UpdateInv`, `PollerInv`,
`ConfigInv`, `ManifestInv`) is a conjunction
of named parts; a lemma for each action shows that the action keeps it, one for the
next-state relation joins them, and the properties follow from it. TLC was run with
the invariant before it was proved. Why each property is not inductive alone:

- **Poller.** `MutexHolder`: the mutex is held across a step exactly by a `Poll` that
  is sending or a `Close` that is closing the source, so that neither meets the
  other. `OneCloser`: one caller is past the test of `closed`, so that the source is
  closed once. `ClosesIdleSource`: who is about to close the source meets no
  invocation inside it, and none can start; this gives the refinement.
  `OneInvocation` is inductive only as an equivalence: `cancel` names the invocation
  that is running, and `startInvocation` tests exactly that.
- **Update.** A record in a backing array has yet to meet the values on their way to
  it and, if it is the one that `u.listeners` holds, those still outstanding (`Due`).
  `Record`: it expects at least that many, and they are exactly what the channel lacks
  if the listener has not been moved, because then no other record of it is in use. A
  record of a listener that was moved expects more than it will meet, since each value
  meets only one of the two: so it never closes the channel, which is the documented
  promise that the code breaks, and also why it cannot close it twice. `Membership`:
  while values are outstanding, everybody who has a channel is listed, so that the
  next one reaches all; `Flights` ties the goroutines to the values that were sent.
- **Endpoint.** `Attempts` keeps the connection in use, those about to land and the one
  about to be retired apart, so that a retired one cannot be the one in use. `ReadyOnce`
  says that exactly one attempt calls `ready.Done()`, and where it is; this is what
  makes a query wait no longer than the contract says. `Senders` and `Closers` say who
  holds the mutex over a send and who closes. `ReportsInOrder` is why `HealthConverges`
  holds in any order of the reports: the newest one carries the tracked calls, and
  once it has been applied no older one counts. `Overtaking` says that an error that
  was overtaken otherwise than by a report has nothing to add. `OfflineReconnects` goes
  on top of it: `RunIsInformed` says that run() believes the endpoint online, or is
  about to be told so, when a call takes it offline, and so the timer becomes due when
  it is told the opposite. `Connected` and `HasRead` exclude that a call without a
  connection takes offline an endpoint that never was online.
- **Client.** `LoopProgress`: the loop of Close has closed each endpoint but the one
  it is at and those still to come; with `MutexHolder` and `CallsMatch`, nobody makes
  or uses another meanwhile.
- **Monitor.** `Rounds`: the mutex of the broadcaster keeps `updates` equal to the
  listeners over a broadcast. `Channels`: the open channels are those listed, each
  once, as a second entry would be closed twice. `Counting` gives the number of
  backlogs an update lacks: the computations that have yet to send, exactly so unless
  the poll is cancelled. In the refinement, `Stalling` says that a poll which a stuck
  listener or a lost query comes to stall is one step of the contract, and that the
  cause stays the same until the poll ends, which it then does not.
- **Domain.** `MutexHolder` and `Polling` are about the instance of the poller,
  `Channels` about the listeners. `SinkAnswers`: whom WaitReady lets go finds a value,
  an error or a closed sink, and no value is newer than the polls made.
- **Config.** `ResultIsHonest` speaks of the end, when the goroutines are long gone.
  `Within` and `Faithful`: what a goroutine has collected are the members of its
  group in order, the last one perhaps with the first of its connections only, as
  long as no failure was dropped. `FailuresKept`: until main returns, a failure is in
  the result of some goroutine, and main has seen those of the results it has taken;
  so it cannot return without an error past one. `Collected`: the groups of main are
  those results. `MainFollows` says which goroutines there are while main is at a
  place, and from it that none is left when it returns.
- **Cache.** `ValuesApart`: no value is in two entries, or in an entry and on its way to
  one, or released before it has been in one; without it a release in one place
  would not be the only one. `CallsMatch`: each retrieval has its pending entry, until
  Close. `CleanerRuns`: `cleaning` is true exactly while the goroutine is there, and it
  is not ahead of the clock; as `validate` cuts the log at the first record that is not
  due, this keeps `EntriesAwaitCleanup`.
- **Manifest.** `PrintsInOrder` compares what is printed with a whole that is defined
  without cursor, channel or goroutine. `Generated(p)` is what the run() of path p has
  made so far, a prefix of what is due for p. `ParsedTimes` (with `InItsDay` and
  `DaysInOrder`, on the quotient and the remainder by the length of a day) joins the
  strict comparisons with the two ends of a day to the days of the reference. `Sent`:
  the channel of a path and the lines that run() still holds are together just that,
  and for the path that main prints the same with what is printed already; so nothing
  is lost, doubled or overtaken at any capacity of the channels. `InStep`: the
  statistics are those of the elements read so far, and run() is at the element after
  them. That one more element adds one more line and one more to the statistics is
  induction over the manifest, made with the least-number principle of the library
  (`NatLessThanWellFounded` and `WFMin`), which speaks of sets where the induction
  theorems take an operator: `SetInduction`, and on it `JoinsExist`, `FlattenAppend`
  and `StatsAppend`.
- **Reporter.** `LocksMatch`: the lock of a connection is with the caller that uses it,
  which keeps it open. `WaitersAttend` and `CallsAttended` pair the callers that wait
  with the remote calls that are attended, and `Owners` gives each vector its one
  owner, from which the counts of `VectorsOwnedOnce` follow.
- **Service.** `MonitorFollows` and `ConfigurationFollows` say who may touch which
  monitor, and that Execute leaves its loop only after one of its goroutines has
  closed the backlog monitor. `RequestsAccepted`: nothing is requested
  before the service has reported to be running, so that an Interrogate brings back
  no earlier status. `MonitorObeys`: unless requests have crossed, every goroutine
  that is still to reach the monitor does what the last request has called for
  (`target`), and when there is none left, the monitor does it or is about to. It is
  about `target` and not `status`, as an Interrogate changes the one only.

### What is only model-checked

Every invariant and every action property that a run checks is proved. What is left to
TLC:

- Liveness: everything that rests on fairness (`CallsReturn`, `Quiesces`,
  `CallsReturnOrAreLost`, `ClientReturns`, `FetchReturns`,
  `WaitersReturn`, `BacklogReturns`, `StartupEnds`, `PrintsEverything`,
  `EarlyListenersClose`, the second half of `StopsClean`) and the fairness of the
  contracts in `KeepsContract` and `KeepsLifecycle`. The proof system has no rule for
  `ENABLED`, on which fairness is defined.

## 5. Not modelled

- Formatting, logging, flags, service installation, COM and ADSI bindings: no
  state of their own. The call tracker, the worker pool (tunny), contexts, locks
  and Active Directory are external and modelled from their use.
- `callstat`: nothing reads it to decide anything. (`defer call.Complete(err)`
  evaluates `err` at once, so that the recorded error is always nil.)
- The handles of ADSI objects: `member()` never closes the container that
  `serverReference` leads to; all others are closed by `defer`.
- `comshim.Add(1)` in `NewReporter` has no matching `Done` in `Close`.
- `watchUpdate` of the service, which only logs; the installation and the command
  line of the service.
- `manifest.Find`'s search through directories and the decoding of XML: file system
  and library. `Find` is modelled by its two outcomes, the decoder by elements that
  can and cannot be decoded. `File`, `Cursor` and `Decoder.Count` have no caller.
- Profiling (`main.go` 128-139; when the memory profile cannot be written, the command
  exits after the lines of its first path), flag parsing and `resolve` of
  `dfsrmanifest`. `now.Parse` is external: a date is taken for its midnight, as the
  notes in `time.go` have it.
- The `backlog` and `rglist` commands: one-shot command lines that print what the
  client and the configuration client, modelled above, return.
- `GroupByName`, `Group`, `Member` and `dnc` of the configuration client: they run
  alone, without the goroutines and the cache that make `Groups` hard.
- Opening and closing the pool of workers (tunny): external.

## 6. Plan

Modelled and checked: all modules of section 2. Proved: every safety property of the
eleven components that have a behaviour, and the step part of every refinement. The
rest of the code is listed in section 5 with the reason. What could be added, if the
code comes to use it: the search of `manifest.Find`, and the accounting of `callstat`,
whose records nothing reads today.
