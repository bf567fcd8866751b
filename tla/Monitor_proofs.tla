--------------------------- MODULE Monitor_proofs ---------------------------
(***************************************************************************)
(* Proofs about Monitor, for any callers, listeners, connections and       *)
(* channel size: Broadcast never sends on a closed channel, a poll that is *)
(* not cancelled completes its updates, and the monitor implements the     *)
(* safety part of Lifecycle.                                               *)
(***************************************************************************)
EXTENDS Monitor, SequenceTheorems, FiniteSetTheorems, TLAPS

(* Whoever is in Stop or Close holds m.mutex, and nobody else does; the poller
   is being closed exactly while somebody waits for it. *)
MutexHolder ==
    /\ \A c \in Callers : mutex = c <=> pc[c] # "idle"
    /\ \A c \in Callers :
          /\ pc[c] \in {"stop", "close"} => instance = "closing"
          /\ pc[c] = "closebc" => instance = "none"
          /\ pc[c] = "stop" => ~closed
          /\ pc[c] \in {"close", "closebc"} => closed
    /\ instance = "closing" => mutex # None
    /\ closed => instance # "live"

(* The worker polls only for an instance of the poller, and an invocation is
   spawned only by one that is not being closed. *)
Polling ==
    /\ poll.at # "none" => instance # "none"
    /\ spawned => instance = "live"

(* Nobody lists or unlists a channel during a broadcast, and the computations
   run after it, each through the updates in their order. *)
Rounds ==
    /\ poll.at = "broadcast" => updates = listeners /\ poll.next \in DOMAIN updates
    /\ poll.at # "broadcast" => poll.next = 1
    /\ \A k \in Conns :
          /\ poll.at # "compute" => comp[k].at = "none"
          /\ comp[k].at # "send" => comp[k].next = 1
          /\ comp[k].next <= Len(updates) + 1

(* The open channels are the ones that are listed, each once, and the broadcaster
   is closed exactly when a Close has returned. *)
Once(s) == \A i, j \in DOMAIN s : s[i] = s[j] => i = j
Channels ==
    /\ \A l \in Listeners : chan[l].open <=> Listed(l)
    /\ \A l \in Listeners : consumer[l].at = "out" => ~chan[l].open
    /\ Once(listeners) /\ Once(updates)
    /\ bcClosed <=> closed /\ mutex = None
    /\ bcClosed => listeners = <<>>

(* The computations that have yet to send their backlog to the update of l; a
   poll that is not cancelled has only these to wait for. *)
Unsent(l) ==
    {k \in Conns : /\ comp[k].at # "none"
                   /\ \E i \in comp[k].next .. Len(updates) : updates[i] = l}
Awaited(l) == \E i \in DOMAIN updates : updates[i] = l
Counting ==
    \A l \in Listeners :
        /\ poll.at = "broadcast" =>
              left[l] = IF Awaited(l) THEN Cardinality(Conns) ELSE 0
        /\ poll.at = "compute" =>
              /\ left[l] >= Cardinality(Unsent(l))
              /\ ~ctxDone => left[l] = Cardinality(Unsent(l))

IndInv == TypeOK /\ MutexHolder /\ Polling /\ Rounds /\ Channels /\ Counting

-----------------------------------------------------------------------------
(* The steps of the monitor, one disjunct each. *)
LEMMA Steps ==
    ASSUME [Next]_vars
    PROVE  \/ \E c \in Callers : Start(c) \/ Stop(c) \/ Close(c) \/ Update(c)
           \/ \E c \in Callers : PollerClosed(c) \/ CloseBroadcaster(c)
           \/ Tick \/ StartInvocation \/ Timeout
           \/ PollCheck \/ BroadcastLock \/ BroadcastSend \/ PollReturns
           \/ \E k \in Conns : ComputeStart(k) \/ QueryReturns(k) \/ QueryIsLost(k)
           \/ \E k \in Conns : ComputeSend(k)
           \/ \E l \in Listeners : Listen(l) \/ Receive(l) \/ ListenToUpdate(l) \/ RangeEnds(l)
           \/ \E l \in Listeners : BeginUnlisten(l) \/ Unlisten(l)
           \/ UNCHANGED vars
  BY DEF Next, CallerStep, Return, WorkerStep, ComputeStep, ListenerStep, Consume

(* The sets that the state is in. *)
Polls == [at : {"none", "check", "lock", "broadcast", "compute"}, next : Nat \ {0}]
Comps == [at : {"none", "spawned", "query", "lost", "send"}, next : Nat \ {0}]
Chans == [open : BOOLEAN, queue : Seq(Kinds)]
Consumers == [at : {"out", "recv", "got", "range", "late", "unlisten"},
              upd : Kinds \cup {None}]

(* A sequence whose elements are changed in place. *)
LEMMA InPlace ==
    ASSUME NEW s \in Seq(Kinds), NEW t, DOMAIN t = DOMAIN s, t = [i \in DOMAIN s |-> t[i]],
           \A i \in DOMAIN s : t[i] \in Kinds
    PROVE  t \in Seq(Kinds) /\ Len(t) = Len(s)
  <1>1. DOMAIN s = 1 .. Len(s) /\ Len(s) \in Nat
    BY LenProperties
  <1>2. t = [i \in 1 .. Len(s) |-> t[i]]
    BY <1>1
  <1> QED
    BY <1>1, <1>2

(* An update that takes on a kind moves nobody. *)
LEMMA BecomesEffects ==
    ASSUME TypeOK, NEW ls, NEW kind \in Kinds, Becomes(ls, kind)
    PROVE  /\ chan' \in [Listeners -> Chans] /\ consumer' \in [Listeners -> Consumers]
           /\ \A l \in Listeners :
                 /\ chan'[l].open = chan[l].open
                 /\ Len(chan'[l].queue) = Len(chan[l].queue)
                 /\ consumer'[l].at = consumer[l].at
  <1> DEFINE now(u, l) == IF u = "current" /\ l \in ls THEN kind ELSE u
             q(l) == [i \in DOMAIN chan[l].queue |-> now(chan[l].queue[i], l)]
  <1>1. /\ chan' = [l \in Listeners |-> [chan[l] EXCEPT !.queue = q(l)]]
        /\ consumer' = [l \in Listeners |->
                           [consumer[l] EXCEPT !.upd = now(consumer[l].upd, l)]]
    BY DEF Becomes
  <1>2. ASSUME NEW l \in Listeners
        PROVE  q(l) \in Seq(Kinds) /\ Len(q(l)) = Len(chan[l].queue)
    <2>1. chan[l].queue \in Seq(Kinds)
      BY DEF TypeOK
    <2>2. \A i \in DOMAIN chan[l].queue : chan[l].queue[i] \in Kinds
      BY <2>1, LenProperties, ElementOfSeq
    <2>3. /\ DOMAIN q(l) = DOMAIN chan[l].queue
          /\ \A i \in DOMAIN chan[l].queue : q(l)[i] \in Kinds
          /\ q(l) = [i \in DOMAIN chan[l].queue |-> q(l)[i]]
      BY <2>2
    <2> HIDE DEF q
    <2> QED
      BY <2>1, <2>3, InPlace
  <1>3. ASSUME NEW l \in Listeners, NEW u \in Kinds \cup {None}
        PROVE  now(u, l) \in Kinds \cup {None}
    OBVIOUS
  <1> HIDE DEF now, q
  <1>4. chan' \in [Listeners -> Chans]
    BY <1>1, <1>2 DEF TypeOK, Chans
  <1>5. consumer' \in [Listeners -> Consumers]
    BY <1>1, <1>3 DEF TypeOK, Consumers
  <1>6. ASSUME NEW l \in Listeners
        PROVE  /\ chan'[l].open = chan[l].open
               /\ chan'[l].queue = q(l)
               /\ consumer'[l].at = consumer[l].at
    BY <1>1 DEF TypeOK
  <1> QED
    BY <1>2, <1>4, <1>5, <1>6

(* The callers' variables and the flags keep their types. *)
LEMMA CallerTypes ==
    ASSUME TypeOK, [Next]_vars
    PROVE  /\ mutex' \in Callers \cup {None}
           /\ pc' \in [Callers -> {"idle", "stop", "close", "closebc"}]
           /\ closed' \in BOOLEAN /\ spawned' \in BOOLEAN /\ bcClosed' \in BOOLEAN
           /\ ctxDone' \in BOOLEAN
           /\ instance' \in {"none", "live", "closing"}
  <1> USE DEF TypeOK
  <1>1. CASE UNCHANGED <<callerVars, spawned, bcClosed, ctxDone>>
    BY <1>1 DEF callerVars
  <1>2. ASSUME NEW c \in Callers, Start(c) \/ Stop(c) \/ Close(c) \/ Update(c)
        PROVE  /\ mutex' \in Callers \cup {None}
               /\ pc' \in [Callers -> {"idle", "stop", "close", "closebc"}]
               /\ closed' \in BOOLEAN /\ spawned' \in BOOLEAN /\ bcClosed' \in BOOLEAN
               /\ ctxDone' \in BOOLEAN
               /\ instance' \in {"none", "live", "closing"}
    BY <1>2 DEF Start, Stop, Close, ClosePoller, Update, bcVars, callerVars
  <1>3. ASSUME NEW c \in Callers, PollerClosed(c) \/ CloseBroadcaster(c)
        PROVE  /\ mutex' \in Callers \cup {None}
               /\ pc' \in [Callers -> {"idle", "stop", "close", "closebc"}]
               /\ closed' \in BOOLEAN /\ spawned' \in BOOLEAN /\ bcClosed' \in BOOLEAN
               /\ ctxDone' \in BOOLEAN
               /\ instance' \in {"none", "live", "closing"}
    BY <1>3 DEF PollerClosed, CloseBroadcaster, bcVars
  <1>4. CASE Tick \/ StartInvocation \/ Timeout \/ PollCheck \/ PollReturns
    BY <1>4 DEF Tick, StartInvocation, Timeout, PollCheck, PollReturns, bcVars, callerVars
  <1> QED
    BY <1>1, <1>2, <1>3, <1>4, Steps
    DEF BroadcastLock, BroadcastSend, ComputeStart, QueryReturns, QueryIsLost, ComputeSend, Listen,
        Receive, ListenToUpdate, RangeEnds, BeginUnlisten, Unlisten, vars, bcVars

(* The worker's Poll and its computations keep their types. *)
LEMMA RoundTypes ==
    ASSUME TypeOK, [Next]_vars
    PROVE  poll' \in Polls /\ comp' \in [Conns -> Comps]
  <1> USE DEF TypeOK, Polls, Comps
  <1>1. NoPoll \in Polls /\ NoPoll \in Comps
    BY DEF NoPoll
  <1>2. SpawnComputes => comp' \in [Conns -> Comps]
    BY DEF SpawnComputes
  <1>3. poll' \in Polls
    <2>1. CASE UNCHANGED poll
      BY <2>1
    <2>2. CASE StartInvocation \/ PollCheck \/ BroadcastLock
      BY <1>1, <2>2 DEF StartInvocation, PollCheck, BroadcastLock
    <2>3. CASE BroadcastSend
      <3> DEFINE n == poll.next + 1
      <3>1. n \in Nat \ {0}
        OBVIOUS
      <3>2. poll' = [at |-> "compute", next |-> 1] \/ poll' = [poll EXCEPT !.next = n]
        BY <2>3 DEF BroadcastSend
      <3> HIDE DEF n
      <3> QED
        BY <3>1, <3>2
    <2>4. CASE PollReturns
      BY <1>1, <2>4 DEF PollReturns
    <2> QED
      BY <2>1, <2>2, <2>3, <2>4, Steps
      DEF Start, Stop, Close, Update, PollerClosed, CloseBroadcaster, Tick, Timeout,
          ComputeStart, QueryReturns, QueryIsLost, ComputeSend, Listen, Receive, ListenToUpdate,
          RangeEnds, BeginUnlisten, Unlisten, vars, roundVars
  <1>4. comp' \in [Conns -> Comps]
    <2>1. CASE UNCHANGED comp
      BY <2>1
    <2>2. CASE BroadcastLock \/ BroadcastSend
      BY <1>2, <2>2 DEF BroadcastLock, BroadcastSend
    <2>3. ASSUME NEW k \in Conns, ComputeStart(k) \/ QueryReturns(k) \/ QueryIsLost(k)
          PROVE  comp' \in [Conns -> Comps]
      <3>1. \E at \in {"none", "query", "lost", "send"} : comp' = [comp EXCEPT ![k].at = at]
        BY <2>3 DEF ComputeStart, QueryReturns, QueryIsLost, GivesUp
      <3>2. PICK at \in {"none", "query", "lost", "send"} : comp' = [comp EXCEPT ![k].at = at]
        BY <3>1
      <3> DEFINE r == [comp[k] EXCEPT !.at = at]
      <3>3. r \in Comps /\ comp' = [comp EXCEPT ![k] = r]
        BY <3>2
      <3> HIDE DEF r
      <3> QED
        BY <3>3
    <2>4. ASSUME NEW k \in Conns, ComputeSend(k)
          PROVE  comp' \in [Conns -> Comps]
      <3> DEFINE n == comp[k].next + 1
                 r == [comp[k] EXCEPT !.next = n]
      <3>1. n \in Nat \ {0}
        OBVIOUS
      <3>2. comp' = [comp EXCEPT ![k] = NoPoll] \/ comp' = [comp EXCEPT ![k] = r]
        BY <2>4 DEF ComputeSend
      <3> HIDE DEF n
      <3>3. r \in Comps
        BY <3>1
      <3> HIDE DEF r
      <3> QED
        BY <1>1, <3>2, <3>3
    <2> QED
      BY <2>1, <2>2, <2>3, <2>4, Steps
      DEF Start, Stop, Close, Update, PollerClosed, CloseBroadcaster, Tick, StartInvocation,
          Timeout, PollCheck, PollReturns, Listen, Receive, ListenToUpdate, RangeEnds,
          BeginUnlisten, Unlisten, vars, roundVars
  <1> QED
    BY <1>3, <1>4

(* bc.listeners without the entry at i: what comes after it moves up. *)
LEMMA WithoutEntry ==
    ASSUME listeners \in Seq(Listeners), NEW i \in DOMAIN listeners
    PROVE  /\ Without(i) \in Seq(Listeners)
           /\ Len(Without(i)) = Len(listeners) - 1
           /\ \A j \in 1 .. Len(listeners) - 1 :
                 Without(i)[j] = IF j < i THEN listeners[j] ELSE listeners[j + 1]
  <1> DEFINE n == Len(listeners)
             a == SubSeq(listeners, 1, i - 1)
             b == SubSeq(listeners, i + 1, n)
  <1>1. n \in Nat /\ i \in 1 .. n /\ \A j \in 1 .. n : listeners[j] \in Listeners
    BY LenProperties, ElementOfSeq
  <1>2. /\ a \in Seq(Listeners) /\ Len(a) = i - 1
        /\ \A j \in 1 .. i - 1 : a[j] = listeners[j]
    <2>1. \A j \in 1 .. i - 1 : listeners[j] \in Listeners
      BY <1>1
    <2>2. /\ a \in Seq(Listeners) /\ Len(a) = IF 1 <= i - 1 THEN (i - 1) - 1 + 1 ELSE 0
          /\ \A j \in 1 .. (i - 1) - 1 + 1 : a[j] = listeners[1 + j - 1]
      BY <1>1, <2>1, SubSeqProperties
    <2> QED
      BY <1>1, <2>2
  <1>3. /\ b \in Seq(Listeners) /\ Len(b) = n - i
        /\ \A j \in 1 .. n - i : b[j] = listeners[i + j]
    <2>1. \A j \in i + 1 .. n : listeners[j] \in Listeners
      BY <1>1
    <2>2. /\ b \in Seq(Listeners) /\ Len(b) = IF i + 1 <= n THEN n - (i + 1) + 1 ELSE 0
          /\ \A j \in 1 .. n - (i + 1) + 1 : b[j] = listeners[(i + 1) + j - 1]
      BY <1>1, <2>1, SubSeqProperties
    <2> QED
      BY <1>1, <2>2
  <1> HIDE DEF a, b
  <1>4. /\ a \o b \in Seq(Listeners) /\ Len(a \o b) = n - 1
        /\ \A j \in 1 .. n - 1 : (a \o b)[j] = IF j < i THEN listeners[j] ELSE listeners[j + 1]
    <2>1. /\ a \o b \in Seq(Listeners) /\ Len(a \o b) = Len(a) + Len(b)
          /\ \A j \in 1 .. Len(a) + Len(b) :
                (a \o b)[j] = IF j <= Len(a) THEN a[j] ELSE b[j - Len(a)]
      BY <1>2, <1>3, ConcatProperties
    <2>2. Len(a \o b) = n - 1
      BY <1>1, <1>2, <1>3, <2>1
    <2>3. ASSUME NEW j \in 1 .. n - 1
          PROVE  (a \o b)[j] = IF j < i THEN listeners[j] ELSE listeners[j + 1]
      <3>1. (a \o b)[j] = IF j <= i - 1 THEN a[j] ELSE b[j - (i - 1)]
        <4>1. j \in 1 .. Len(a) + Len(b)
          BY <1>1, <1>2, <1>3
        <4>2. (a \o b)[j] = IF j <= Len(a) THEN a[j] ELSE b[j - Len(a)]
          BY <2>1, <4>1
        <4> QED
          BY <1>2, <4>2
      <3>2. CASE j < i
        BY <1>1, <1>2, <3>1, <3>2
      <3>3. CASE ~(j < i)
        <4>1. j - (i - 1) \in 1 .. n - i /\ i + (j - (i - 1)) = j + 1
          BY <1>1, <3>3
        <4> QED
          BY <1>1, <1>3, <3>1, <3>3, <4>1, SMTT(30)
      <3> QED
        BY <3>2, <3>3
    <2> QED
      BY <2>1, <2>2, <2>3
  <1> QED
    BY <1>4 DEF a, b, Without

(* A step that changes one channel and its listener. *)
LEMMA ChannelChanges ==
    ASSUME TypeOK, NEW l \in Listeners
    PROVE  /\ \A q \in Seq(Kinds) : chan' = [chan EXCEPT ![l].queue = q] =>
                 /\ chan' \in [Listeners -> Chans]
                 /\ chan'[l].queue = q /\ chan'[l].open = chan[l].open
                 /\ \A m \in Listeners : m # l => chan'[m] = chan[m]
           /\ \A at \in {"out", "recv", "got", "range", "late", "unlisten"} :
                 consumer' = [consumer EXCEPT ![l].at = at] =>
                    /\ consumer' \in [Listeners -> Consumers]
                    /\ consumer'[l].at = at /\ consumer'[l].upd = consumer[l].upd
                    /\ \A m \in Listeners : m # l => consumer'[m] = consumer[m]
  <1>1. chan \in [Listeners -> Chans] /\ consumer \in [Listeners -> Consumers]
    BY DEF TypeOK, Chans, Consumers
  <1>2. ASSUME NEW q \in Seq(Kinds), chan' = [chan EXCEPT ![l].queue = q]
        PROVE  /\ chan' \in [Listeners -> Chans]
               /\ chan'[l].queue = q /\ chan'[l].open = chan[l].open
               /\ \A m \in Listeners : m # l => chan'[m] = chan[m]
    <2> DEFINE r == [chan[l] EXCEPT !.queue = q]
    <2>1. r \in Chans /\ r.queue = q /\ r.open = chan[l].open
      BY <1>1 DEF Chans
    <2>2. chan' = [chan EXCEPT ![l] = r]
      BY <1>2
    <2> HIDE DEF r
    <2> QED
      BY <1>1, <2>1, <2>2
  <1>3. ASSUME NEW at \in {"out", "recv", "got", "range", "late", "unlisten"},
               consumer' = [consumer EXCEPT ![l].at = at]
        PROVE  /\ consumer' \in [Listeners -> Consumers]
               /\ consumer'[l].at = at /\ consumer'[l].upd = consumer[l].upd
               /\ \A m \in Listeners : m # l => consumer'[m] = consumer[m]
    <2> DEFINE r == [consumer[l] EXCEPT !.at = at]
    <2>1. r \in Consumers /\ r.at = at /\ r.upd = consumer[l].upd
      BY <1>1 DEF Consumers
    <2>2. consumer' = [consumer EXCEPT ![l] = r]
      BY <1>3
    <2> HIDE DEF r
    <2> QED
      BY <1>1, <2>1, <2>2
  <1> QED
    BY <1>2, <1>3

(* What a step of a listener does to its channel and to itself. *)
LEMMA ConsumerEffects ==
    ASSUME TypeOK, NEW l \in Listeners
    PROVE  /\ Receive(l) \/ ListenToUpdate(l) \/ RangeEnds(l) \/ BeginUnlisten(l) =>
                 /\ chan' \in [Listeners -> Chans] /\ consumer' \in [Listeners -> Consumers]
                 /\ Len(chan'[l].queue) <= Len(chan[l].queue)
                 /\ chan'[l].open = chan[l].open
                 /\ consumer'[l].at = "out" => ~chan[l].open
                 /\ \A m \in Listeners : m # l => chan'[m] = chan[m] /\ consumer'[m] = consumer[m]
           /\ Listen(l) \/ Unlisten(l) =>
                 /\ chan' \in [Listeners -> Chans] /\ consumer' \in [Listeners -> Consumers]
                 /\ Len(chan'[l].queue) = 0
                 /\ chan'[l].open = (consumer[l].at = "out")
                 /\ consumer'[l].at = "out" => ~chan'[l].open
                 /\ \A m \in Listeners : m # l => chan'[m] = chan[m] /\ consumer'[m] = consumer[m]
  <1>1. chan \in [Listeners -> Chans] /\ consumer \in [Listeners -> Consumers]
    BY DEF TypeOK, Chans, Consumers
  <1>2. chan[l].queue \in Seq(Kinds) /\ Len(chan[l].queue) \in Nat
    BY <1>1, LenProperties DEF Chans
  <1>3. Out \in Consumers /\ Receiving \in Consumers
    BY DEF Out, Receiving, Consumers
  <1>4. Out.at = "out" /\ Receiving.at = "recv"
    BY DEF Out, Receiving
  <1>5. CASE Receive(l) /\ chan[l].queue # <<>>
    <2> DEFINE q == Tail(chan[l].queue)
               r == IF l \in Serial THEN [at |-> "got", upd |-> Head(chan[l].queue)]
                    ELSE Receiving
    <2>1. q \in Seq(Kinds) /\ Len(q) <= Len(chan[l].queue) /\ Head(chan[l].queue) \in Kinds
      BY <1>2, <1>5, HeadTailProperties
    <2>2. r \in Consumers /\ r.at # "out"
      BY <1>3, <1>4, <2>1 DEF Consumers
    <2>3. chan' = [chan EXCEPT ![l].queue = q] /\ consumer' = [consumer EXCEPT ![l] = r]
      BY <1>5 DEF Receive
    <2> HIDE DEF q, r
    <2>4. /\ chan' \in [Listeners -> Chans] /\ chan'[l].queue = q /\ chan'[l].open = chan[l].open
          /\ \A m \in Listeners : m # l => chan'[m] = chan[m]
      BY <2>1, <2>3, ChannelChanges
    <2>5. /\ consumer' \in [Listeners -> Consumers] /\ consumer'[l] = r
          /\ \A m \in Listeners : m # l => consumer'[m] = consumer[m]
      BY <1>1, <2>2, <2>3
    <2>6. ~(Listen(l) \/ Unlisten(l))
      BY <1>5 DEF Receive, Listen, Unlisten
    <2> QED
      BY <2>1, <2>2, <2>4, <2>5, <2>6
  <1>6. CASE Receive(l) /\ chan[l].queue = <<>>
    <2>1. /\ UNCHANGED chan /\ ~chan[l].open /\ consumer' = [consumer EXCEPT ![l] = Out]
          /\ ~(Listen(l) \/ Unlisten(l))
      BY <1>6 DEF Receive, Listen, Unlisten
    <2> QED
      BY <1>1, <1>2, <1>3, <2>1
  <1>7. CASE ListenToUpdate(l) \/ BeginUnlisten(l)
    <2>1. PICK at \in {"range", "late", "unlisten"} : consumer' = [consumer EXCEPT ![l].at = at]
      BY <1>7 DEF ListenToUpdate, BeginUnlisten
    <2>2. UNCHANGED chan /\ ~(Listen(l) \/ Unlisten(l))
      BY <1>7 DEF ListenToUpdate, BeginUnlisten, Listen, Unlisten
    <2>3. /\ consumer' \in [Listeners -> Consumers] /\ consumer'[l].at = at
          /\ \A m \in Listeners : m # l => consumer'[m] = consumer[m]
      BY <2>1, ChannelChanges
    <2> QED
      BY <1>1, <1>2, <2>2, <2>3
  <1>8. CASE RangeEnds(l)
    <2>1. /\ UNCHANGED chan /\ consumer' = [consumer EXCEPT ![l] = Receiving]
          /\ ~(Listen(l) \/ Unlisten(l))
      BY <1>8 DEF RangeEnds, Listen, Unlisten
    <2> QED
      BY <1>1, <1>2, <1>3, <1>4, <2>1
  <1>9. CASE Listen(l)
    <2> DEFINE r == [open |-> TRUE, queue |-> <<>>]
    <2>1. r \in Chans /\ r.open = TRUE /\ Len(r.queue) = 0
      BY EmptySeq DEF Chans
    <2>2. /\ consumer[l].at = "out"
          /\ chan' = [chan EXCEPT ![l] = r] /\ consumer' = [consumer EXCEPT ![l] = Receiving]
      BY <1>9 DEF Listen
    <2> HIDE DEF r
    <2>3. /\ chan' \in [Listeners -> Chans] /\ chan'[l] = r
          /\ consumer' \in [Listeners -> Consumers] /\ consumer'[l].at = "recv"
          /\ \A m \in Listeners : m # l => chan'[m] = chan[m] /\ consumer'[m] = consumer[m]
      BY <1>1, <1>3, <1>4, <2>1, <2>2
    <2>4. ~(Receive(l) \/ ListenToUpdate(l) \/ RangeEnds(l) \/ BeginUnlisten(l))
      BY <2>2 DEF Receive, ListenToUpdate, RangeEnds, BeginUnlisten
    <2> QED
      BY <2>1, <2>2, <2>3, <2>4
  <1>10. CASE Unlisten(l)
    <2>1. NoChan \in Chans /\ NoChan.open = FALSE /\ Len(NoChan.queue) = 0
      BY EmptySeq DEF Chans, NoChan
    <2>2. /\ consumer[l].at = "unlisten"
          /\ chan' = [chan EXCEPT ![l] = NoChan] /\ consumer' = [consumer EXCEPT ![l] = Out]
      BY <1>10 DEF Unlisten
    <2>3. /\ chan' \in [Listeners -> Chans] /\ chan'[l] = NoChan
          /\ consumer' \in [Listeners -> Consumers] /\ consumer'[l].at = "out"
          /\ \A m \in Listeners : m # l => chan'[m] = chan[m] /\ consumer'[m] = consumer[m]
      BY <1>1, <1>3, <1>4, <2>1, <2>2
    <2>4. ~(Receive(l) \/ ListenToUpdate(l) \/ RangeEnds(l) \/ BeginUnlisten(l))
      BY <2>2 DEF Receive, ListenToUpdate, RangeEnds, BeginUnlisten
    <2> QED
      BY <2>1, <2>2, <2>3, <2>4
  <1> QED
    BY <1>5, <1>6, <1>7, <1>8, <1>9, <1>10

(* What a send of Broadcast does to the channel it sends on. *)
LEMMA SendEffects ==
    ASSUME IndInv, BroadcastSend
    PROVE  /\ updates[poll.next] \in Listeners
           /\ chan' \in [Listeners -> Chans]
           /\ Len(chan'[updates[poll.next]].queue) <= ChanSize
           /\ \A l \in Listeners : chan'[l].open = chan[l].open
           /\ \A l \in Listeners : l # updates[poll.next] => chan'[l] = chan[l]
  <1> DEFINE l == updates[poll.next]
             q == Append(chan[l].queue, "current")
  <1>1. l \in Listeners
    <2>1. poll.next \in DOMAIN updates /\ updates \in Seq(Listeners)
      BY DEF IndInv, TypeOK, Rounds, BroadcastSend
    <2> QED
      BY <2>1, LenProperties, ElementOfSeq
  <1>2. chan[l].queue \in Seq(Kinds) /\ Len(chan[l].queue) \in Nat
    BY <1>1, LenProperties DEF IndInv, TypeOK
  <1>3. q \in Seq(Kinds) /\ Len(q) = Len(chan[l].queue) + 1
    BY <1>2, AppendProperties DEF Kinds
  <1>4. Len(q) <= ChanSize
    BY <1>2, <1>3, MonitorAssumption DEF BroadcastSend, HasRoom
  <1>5. chan' = [chan EXCEPT ![l].queue = q]
    BY DEF BroadcastSend
  <1> HIDE DEF l, q
  <1>6. /\ chan' \in [Listeners -> Chans] /\ chan'[l].queue = q /\ chan'[l].open = chan[l].open
        /\ \A m \in Listeners : m # l => chan'[m] = chan[m]
    BY <1>1, <1>3, <1>5, ChannelChanges DEF IndInv
  <1> QED
    BY <1>1, <1>4, <1>6 DEF l

(* The channels and the listeners keep their types. *)
LEMMA ChannelTypes ==
    ASSUME IndInv, [Next]_vars
    PROVE  /\ updates' \in Seq(Listeners) /\ listeners' \in Seq(Listeners)
           /\ chan' \in [Listeners -> Chans] /\ consumer' \in [Listeners -> Consumers]
           /\ \A l \in Listeners : Len(chan'[l].queue) <= ChanSize
  <1>1. TypeOK
    BY DEF IndInv
  <1>2. /\ chan \in [Listeners -> Chans] /\ consumer \in [Listeners -> Consumers]
        /\ \A l \in Listeners : Len(chan[l].queue) <= ChanSize /\ Len(chan[l].queue) \in Nat
        /\ \A l \in Listeners : chan[l].queue \in Seq(Kinds)
        /\ updates \in Seq(Listeners) /\ listeners \in Seq(Listeners)
        /\ ChanSize \in Nat
    BY <1>1, LenProperties, MonitorAssumption DEF TypeOK, Chans, Consumers
  <1> DEFINE Typed == /\ chan' \in [Listeners -> Chans] /\ consumer' \in [Listeners -> Consumers]
                      /\ \A l \in Listeners : Len(chan'[l].queue) <= ChanSize
  <1>3. updates' \in Seq(Listeners) /\ listeners' \in Seq(Listeners)
    <2>1. <<>> \in Seq(Listeners)
      BY EmptySeq
    <2>2. \A l \in Listeners : Append(listeners, l) \in Seq(Listeners)
      BY <1>2, AppendProperties
    <2>3. \A i \in DOMAIN listeners : Without(i) \in Seq(Listeners)
      BY <1>2, WithoutEntry
    <2> QED
      BY <1>2, <2>1, <2>2, <2>3, Steps, ZenonT(30)
      DEF Start, Stop, Close, Update, PollerClosed, CloseBroadcaster, Tick,
          StartInvocation, Timeout, PollCheck, BroadcastLock, BroadcastSend, PollReturns,
          ComputeStart, QueryReturns, QueryIsLost, ComputeSend, Listen, Receive, ListenToUpdate,
          RangeEnds, BeginUnlisten, Unlisten, vars, roundVars, bcVars
  <1>4. ASSUME UNCHANGED <<chan, consumer>> PROVE Typed
    BY <1>2, <1>4
  <1>5. ASSUME NEW c \in Callers, CloseBroadcaster(c) PROVE Typed
    <2>1. UNCHANGED consumer /\ chan' = AllClosed
      BY <1>5 DEF CloseBroadcaster
    <2>2. AllClosed \in [Listeners -> Chans]
          /\ \A l \in Listeners : AllClosed[l].queue = chan[l].queue
      BY <1>2 DEF AllClosed, Chans
    <2> QED
      BY <1>2, <2>1, <2>2
  <1>6. ASSUME BroadcastSend PROVE Typed
    <2>1. UNCHANGED consumer
      BY <1>6 DEF BroadcastSend
    <2> QED
      BY <1>2, <1>6, <2>1, SendEffects
  <1>7. ASSUME NEW ls, NEW kind \in Kinds, Becomes(ls, kind) PROVE Typed
    BY <1>1, <1>2, <1>7, BecomesEffects
  <1>8. ASSUME NEW k \in Conns, ComputeSend(k) PROVE Typed
    <2>1. UNCHANGED <<chan, consumer>> \/ \E ls : Becomes(ls, "complete")
      BY <1>8 DEF ComputeSend
    <2>2. "complete" \in Kinds
      BY DEF Kinds
    <2> QED
      BY <1>4, <1>7, <2>1, <2>2
  <1>9. ASSUME PollReturns PROVE Typed
    <2>1. Becomes(Listeners, "incomplete") /\ "incomplete" \in Kinds
      BY <1>9 DEF PollReturns, Kinds
    <2> QED
      BY <1>7, <2>1
  <1>10. ASSUME NEW l \in Listeners,
                \/ Listen(l) \/ Unlisten(l) \/ Receive(l) \/ ListenToUpdate(l) \/ RangeEnds(l)
                \/ BeginUnlisten(l)
         PROVE  Typed
    <2>1. /\ chan' \in [Listeners -> Chans] /\ consumer' \in [Listeners -> Consumers]
          /\ Len(chan'[l].queue) <= Len(chan[l].queue) \/ Len(chan'[l].queue) = 0
          /\ \A m \in Listeners : m # l => chan'[m] = chan[m]
      BY <1>1, <1>10, ConsumerEffects
    <2>2. Len(chan'[l].queue) \in Nat
      BY <2>1, LenProperties DEF Chans
    <2> QED
      BY <1>2, <2>1, <2>2
  <1> QED
    BY <1>3, <1>4, <1>5, <1>6, <1>8, <1>9, <1>10, Steps
    DEF Start, Stop, Close, Update, PollerClosed, Tick, StartInvocation, Timeout, PollCheck,
        BroadcastLock, ComputeStart, QueryReturns, QueryIsLost, vars

(* m.mutex, the callers and the poller stay in step. *)
LEMMA MutexHolderKeeps ==
    ASSUME IndInv, [Next]_vars
    PROVE  MutexHolder'
  <1> USE MonitorAssumption DEF IndInv, TypeOK, MutexHolder
  <1>1. CASE UNCHANGED callerVars
    BY <1>1 DEF callerVars
  <1>2. ASSUME NEW c \in Callers, Start(c) PROVE MutexHolder'
    BY <1>2 DEF Start
  <1>3. ASSUME NEW c \in Callers, Stop(c) PROVE MutexHolder'
    BY <1>3 DEF Stop, ClosePoller
  <1>4. ASSUME NEW c \in Callers, Close(c) PROVE MutexHolder'
    BY <1>4 DEF Close, ClosePoller
  <1>5. ASSUME NEW c \in Callers, PollerClosed(c) PROVE MutexHolder'
    <2>1. mutex = c /\ \A d \in Callers : d # c => pc[d] = "idle"
      BY <1>5 DEF PollerClosed
    <2>2. CASE pc[c] = "stop"
      <3>1. /\ mutex' = None /\ instance' = "none" /\ closed' = closed /\ ~closed
            /\ \A d \in Callers : pc'[d] = "idle"
        BY <1>5, <2>1, <2>2 DEF PollerClosed
      <3> QED
        BY <3>1
    <2>3. CASE pc[c] = "close"
      BY <1>5, <2>1, <2>3 DEF PollerClosed
    <2> QED
      BY <1>5, <2>2, <2>3 DEF PollerClosed
  <1>6. ASSUME NEW c \in Callers, CloseBroadcaster(c) PROVE MutexHolder'
    BY <1>6 DEF CloseBroadcaster
  <1> QED
    BY <1>1, <1>2, <1>3, <1>4, <1>5, <1>6, Steps
    DEF Update, Tick, StartInvocation, Timeout, PollCheck, BroadcastLock, BroadcastSend,
        PollReturns, ComputeStart, QueryReturns, QueryIsLost, ComputeSend, Listen, Receive,
        ListenToUpdate, RangeEnds, BeginUnlisten, Unlisten, vars

(* Where a step of the worker takes its Poll. *)
LEMMA PollMoves ==
    ASSUME TypeOK
    PROVE  /\ StartInvocation => (poll.at = "none" /\ poll'.at = "check" /\ poll'.next = 1)
                                 \/ poll' = poll
           /\ PollCheck => poll.at = "check" /\ poll'.at \in {"none", "lock"}
                           /\ poll'.next \in {1, poll.next}
           /\ BroadcastLock => /\ poll.at = "lock" /\ poll'.next = poll.next
                               /\ poll'.at = IF listeners = <<>> THEN "compute" ELSE "broadcast"
           /\ BroadcastSend => /\ poll.at = "broadcast"
                               /\ \/ /\ poll.next < Len(updates) /\ poll'.at = "broadcast"
                                     /\ poll'.next = poll.next + 1 /\ UNCHANGED comp
                                  \/ /\ poll.next = Len(updates) /\ poll'.at = "compute"
                                     /\ poll'.next = 1 /\ SpawnComputes
           /\ PollReturns => poll.at = "compute" /\ poll'.at = "none" /\ poll'.next = 1
  BY SMTT(30)
  DEF TypeOK, StartInvocation, PollCheck, BroadcastLock, BroadcastSend, PollReturns, NoPoll

(* Where a step of a computation takes it. *)
LEMMA ComputeMoves ==
    ASSUME TypeOK, NEW k \in Conns
    PROVE  /\ ComputeStart(k) =>
                 /\ comp[k].at = "spawned" /\ comp'[k].next = comp[k].next
                 /\ comp'[k].at = IF ctxDone THEN "none" ELSE "query"
                 /\ \A j \in Conns : j # k => comp'[j] = comp[j]
           /\ QueryReturns(k) =>
                 /\ comp[k].at = "query" /\ comp'[k].next = comp[k].next
                 /\ comp'[k].at = "send"
                 /\ \A j \in Conns : j # k => comp'[j] = comp[j]
           /\ QueryIsLost(k) =>
                 /\ comp[k].at = "query" /\ comp'[k].next = comp[k].next
                 /\ comp'[k].at = "lost"
                 /\ \A j \in Conns : j # k => comp'[j] = comp[j]
           /\ ComputeSend(k) =>
                 /\ comp[k].at = "send"
                 /\ \/ /\ comp[k].next <= Len(updates)
                       /\ comp'[k].at = "send" /\ comp'[k].next = comp[k].next + 1
                       /\ left' = [left EXCEPT ![updates[comp[k].next]] = @ - 1]
                    \/ /\ comp[k].next > Len(updates)
                       /\ comp'[k].at = "none" /\ comp'[k].next = 1
                       /\ left' = left
                 /\ \A j \in Conns : j # k => comp'[j] = comp[j]
  <1>1. comp \in [Conns -> Comps]
    BY DEF TypeOK, Comps
  <1>2. ASSUME NEW r, comp' = [comp EXCEPT ![k] = r]
        PROVE  comp'[k] = r /\ \A j \in Conns : j # k => comp'[j] = comp[j]
    BY <1>1, <1>2
  <1>3. CASE ComputeStart(k) \/ QueryReturns(k) \/ QueryIsLost(k)
    <2>1. PICK at \in {"none", "query", "lost", "send"} :
             /\ comp' = [comp EXCEPT ![k] = [comp[k] EXCEPT !.at = at]]
             /\ ComputeStart(k) => at = IF ctxDone THEN "none" ELSE "query"
             /\ QueryReturns(k) => at = "send"
             /\ QueryIsLost(k) => at = "lost"
      <3>1. CASE ComputeStart(k)
        BY <3>1 DEF ComputeStart, QueryReturns, QueryIsLost, GivesUp
      <3>2. CASE QueryReturns(k)
        <4>1. /\ comp' = [comp EXCEPT ![k] = [comp[k] EXCEPT !.at = "send"]]
              /\ comp[k].at = "query" /\ ~ComputeStart(k)
          BY <3>2 DEF ComputeStart, QueryReturns
        <4>2. ~QueryIsLost(k)
          BY <1>1, <3>2, <4>1 DEF QueryIsLost, Comps
        <4> QED
          BY <4>1, <4>2
      <3>3. CASE QueryIsLost(k)
        <4>1. /\ comp' = [comp EXCEPT ![k] = [comp[k] EXCEPT !.at = "lost"]]
              /\ comp[k].at = "query" /\ ~ComputeStart(k)
          BY <3>3 DEF ComputeStart, QueryIsLost
        <4>2. ~QueryReturns(k)
          BY <1>1, <3>3, <4>1 DEF QueryReturns, Comps
        <4> QED
          BY <4>1, <4>2
      <3> QED
        BY <1>3, <3>1, <3>2, <3>3
    <2> DEFINE r == [comp[k] EXCEPT !.at = at]
    <2>2. r.at = at /\ r.next = comp[k].next
      BY <1>1 DEF Comps
    <2>3. comp' = [comp EXCEPT ![k] = r]
      BY <2>1
    <2> HIDE DEF r
    <2>4. comp'[k].at = at /\ comp'[k].next = comp[k].next
          /\ \A j \in Conns : j # k => comp'[j] = comp[j]
      BY <1>2, <2>2, <2>3
    <2>5. /\ ComputeStart(k) => comp[k].at = "spawned"
          /\ QueryReturns(k) => comp[k].at = "query"
          /\ QueryIsLost(k) => comp[k].at = "query"
          /\ ~ComputeSend(k)
      BY <1>3 DEF ComputeStart, QueryReturns, QueryIsLost, ComputeSend
    <2> QED
      BY <2>1, <2>4, <2>5
  <1>4. CASE ComputeSend(k)
    <2>1. comp[k].at = "send" /\ ~ComputeStart(k) /\ ~QueryReturns(k) /\ ~QueryIsLost(k)
      BY <1>4 DEF ComputeStart, QueryReturns, QueryIsLost, ComputeSend
    <2>2. CASE comp[k].next <= Len(updates)
      <3> DEFINE r == [comp[k] EXCEPT !.next = comp[k].next + 1]
      <3>1. r.at = comp[k].at /\ r.next = comp[k].next + 1
        BY <1>1 DEF Comps
      <3>2. /\ comp' = [comp EXCEPT ![k] = r]
            /\ left' = [left EXCEPT ![updates[comp[k].next]] = @ - 1]
        <4>1. ~(comp[k].next > Len(updates))
          BY <2>2, LenProperties DEF TypeOK
        <4> QED
          BY <1>4, <4>1 DEF ComputeSend, SendsTo
      <3> HIDE DEF r
      <3> QED
        BY <1>2, <2>1, <2>2, <3>1, <3>2
    <2>3. CASE comp[k].next > Len(updates)
      <3>1. comp' = [comp EXCEPT ![k] = NoPoll] /\ left' = left
        <4>1. ~(comp[k].next <= Len(updates))
          BY <2>3, LenProperties DEF TypeOK
        <4> QED
          BY <1>4, <4>1 DEF ComputeSend, SendsTo
      <3> QED
        BY <1>2, <2>1, <2>3, <3>1 DEF NoPoll
    <2> QED
      BY <1>4, <2>2, <2>3 DEF ComputeSend, SendsTo
  <1> QED
    BY <1>3, <1>4

(* The worker polls for a poller only. *)
LEMMA PollingKeeps ==
    ASSUME IndInv, [Next]_vars
    PROVE  Polling'
  <1> USE DEF Polling
  <1>1. TypeOK /\ MutexHolder /\ Polling
    BY DEF IndInv
  <1>2. CASE UNCHANGED <<instance, spawned, poll>>
    BY <1>1, <1>2
  <1>3. ASSUME NEW c \in Callers, Start(c) \/ Stop(c) \/ Close(c) PROVE Polling'
    BY <1>1, <1>3 DEF Start, Stop, Close, ClosePoller, roundVars
  <1>4. ASSUME NEW c \in Callers, PollerClosed(c) PROVE Polling'
    BY <1>1, <1>4 DEF PollerClosed, PollerIdle, MutexHolder, roundVars
  <1>5. CASE Tick \/ \E c \in Callers : Update(c)
    BY <1>1, <1>5 DEF Tick, Update, callerVars, roundVars
  <1>6. CASE StartInvocation
    <2>1. UNCHANGED instance /\ spawned /\ spawned' = FALSE
      BY <1>6 DEF StartInvocation, callerVars
    <2> QED
      BY <1>1, <2>1
  <1>7. CASE PollCheck \/ BroadcastLock \/ BroadcastSend \/ PollReturns
    <2>1. UNCHANGED <<instance, spawned>>
      BY <1>7 DEF PollCheck, BroadcastLock, BroadcastSend, PollReturns, callerVars
    <2>2. poll.at # "none"
      BY <1>7 DEF PollCheck, BroadcastLock, BroadcastSend, PollReturns
    <2> QED
      BY <1>1, <2>1, <2>2
  <1> QED
    BY <1>2, <1>3, <1>4, <1>5, <1>6, <1>7, Steps
    DEF CloseBroadcaster, Timeout, ComputeStart, QueryReturns, QueryIsLost, ComputeSend, Listen,
        Receive, ListenToUpdate, RangeEnds, BeginUnlisten, Unlisten, vars, callerVars, roundVars

(* A broadcast is over the channels listed, and the computations of a round run
   after it. *)
LEMMA RoundsKeep ==
    ASSUME IndInv, [Next]_vars
    PROVE  Rounds'
  <1>1. /\ TypeOK /\ Rounds
        /\ \A k \in Conns : comp[k].next \in Nat
        /\ Len(updates) \in Nat /\ updates \in Seq(Listeners) /\ listeners \in Seq(Listeners)
        /\ poll.next \in Nat
    BY LenProperties DEF IndInv, TypeOK
  <1>2. SpawnComputes => \A k \in Conns : comp'[k].at = "spawned" /\ comp'[k].next = 1
    BY DEF SpawnComputes
  <1>3. CASE UNCHANGED <<poll, updates, comp, listeners>>
    BY <1>1, <1>3 DEF Rounds
  <1>4. ASSUME poll.at # "broadcast", UNCHANGED <<poll, updates, comp>> PROVE Rounds'
    BY <1>1, <1>4 DEF Rounds
  <1>5. CASE StartInvocation \/ PollCheck
    <2>1. UNCHANGED <<updates, comp>>
      BY <1>5 DEF StartInvocation, PollCheck
    <2>2. CASE UNCHANGED poll
      BY <1>1, <1>5, <2>1, <2>2, PollMoves DEF Rounds, StartInvocation, bcVars
    <2>3. CASE poll.at \in {"none", "check"} /\ poll'.at \in {"none", "check", "lock"}
               /\ poll'.next = 1
      BY <1>1, <2>1, <2>3 DEF Rounds
    <2> QED
      BY <1>1, <1>5, <2>2, <2>3, PollMoves DEF Rounds
  <1>6. CASE BroadcastLock
    <2>1. /\ poll.at = "lock" /\ poll'.next = 1 /\ updates' = listeners
          /\ UNCHANGED listeners
          /\ \/ listeners = <<>> /\ poll'.at = "compute" /\ SpawnComputes
             \/ listeners # <<>> /\ poll'.at = "broadcast" /\ UNCHANGED comp
      BY <1>1, <1>6, PollMoves DEF BroadcastLock, bcVars, Rounds
    <2>2. Len(listeners) \in Nat /\ DOMAIN listeners = 1 .. Len(listeners)
          /\ (listeners # <<>> => 1 \in DOMAIN listeners)
      BY <1>1, LenProperties, EmptySeq
    <2>3. \A k \in Conns : comp[k].at = "none" /\ comp[k].next = 1
      BY <1>1, <2>1 DEF Rounds
    <2> QED
      BY <1>2, <2>1, <2>2, <2>3 DEF Rounds
  <1>7. CASE BroadcastSend
    <2>1. UNCHANGED <<updates, listeners>>
      BY <1>7 DEF BroadcastSend, bcVars
    <2>2. /\ poll.at = "broadcast" /\ updates = listeners /\ poll.next \in DOMAIN updates
          /\ DOMAIN updates = 1 .. Len(updates)
          /\ \A k \in Conns : comp[k].at = "none" /\ comp[k].next = 1
      BY <1>1, <1>7, LenProperties DEF BroadcastSend, Rounds
    <2>3. CASE /\ poll.next < Len(updates) /\ poll'.at = "broadcast"
               /\ poll'.next = poll.next + 1 /\ UNCHANGED comp
      BY <1>1, <2>1, <2>2, <2>3 DEF Rounds
    <2>4. CASE /\ poll.next = Len(updates) /\ poll'.at = "compute"
               /\ poll'.next = 1 /\ SpawnComputes
      BY <1>1, <1>2, <2>1, <2>2, <2>4 DEF Rounds
    <2> QED
      BY <1>1, <1>7, <2>3, <2>4, PollMoves
  <1>8. CASE PollReturns
    <2>1. /\ \A k \in Conns : comp[k].at = "none" /\ comp[k].next = 1
          /\ updates' = <<>> /\ UNCHANGED comp
          /\ poll'.at = "none" /\ poll'.next = 1
      BY <1>1, <1>8, PollMoves DEF PollReturns, Rounds
    <2>2. Len(updates') = 0
      BY <2>1, EmptySeq
    <2> QED
      BY <2>1, <2>2 DEF Rounds
  <1>9. ASSUME NEW k \in Conns,
               ComputeStart(k) \/ QueryReturns(k) \/ QueryIsLost(k) \/ ComputeSend(k)
        PROVE  Rounds'
    <2>1. UNCHANGED <<poll, updates, listeners>>
      BY <1>9 DEF ComputeStart, QueryReturns, QueryIsLost, ComputeSend, bcVars
    <2>2. /\ comp[k].at # "none"
          /\ comp'[k].at # "send" => comp'[k].next = 1
          /\ comp'[k].next <= Len(updates) + 1
          /\ \A j \in Conns : j # k => comp'[j] = comp[j]
      <3>1. CASE ComputeStart(k) \/ QueryReturns(k) \/ QueryIsLost(k)
        BY <1>1, <3>1, ComputeMoves DEF Rounds
      <3>2. CASE ComputeSend(k)
        BY <1>1, <3>2, ComputeMoves DEF Rounds
      <3> QED
        BY <1>9, <3>1, <3>2
    <2>3. poll.at = "compute"
      BY <1>1, <2>2 DEF Rounds
    <2> QED
      BY <1>1, <2>1, <2>2, <2>3 DEF Rounds
  <1>10. ASSUME \/ \E c \in Callers : CloseBroadcaster(c)
                \/ \E l \in Listeners : Listen(l) \/ Unlisten(l)
         PROVE  Rounds'
    BY <1>4, <1>10 DEF CloseBroadcaster, Listen, Unlisten, BroadcasterFree, roundVars
  <1> QED
    BY <1>3, <1>5, <1>6, <1>7, <1>8, <1>9, <1>10, Steps
    DEF Start, Stop, Close, Update, PollerClosed, Tick, Timeout, Receive, ListenToUpdate,
        RangeEnds, BeginUnlisten, vars, roundVars, bcVars

(* The entries of bc.listeners after Listen and Unlisten. *)
LEMMA ListedAfter ==
    ASSUME listeners \in Seq(Listeners), Once(listeners), NEW l \in Listeners
    PROVE  /\ ~Listed(l) /\ listeners' = Append(listeners, l) =>
                 Once(listeners)' /\ \A m \in Listeners : Listed(m)' <=> Listed(m) \/ m = l
           /\ \A i \in DOMAIN listeners : listeners[i] = l /\ listeners' = Without(i) =>
                 Once(listeners)' /\ \A m \in Listeners : Listed(m)' <=> Listed(m) /\ m # l
  <1>1. Len(listeners) \in Nat /\ DOMAIN listeners = 1 .. Len(listeners)
    BY LenProperties
  <1>2. ASSUME ~Listed(l), listeners' = Append(listeners, l)
        PROVE  Once(listeners)' /\ \A m \in Listeners : Listed(m)' <=> Listed(m) \/ m = l
    <2>1. /\ DOMAIN listeners' = 1 .. Len(listeners) + 1
          /\ listeners'[Len(listeners) + 1] = l
          /\ \A i \in 1 .. Len(listeners) : listeners'[i] = listeners[i]
      BY <1>2, AppendProperties, LenProperties
    <2>2. Once(listeners)'
      BY <1>1, <1>2, <2>1 DEF Once, Listed
    <2>3. \A m \in Listeners : Listed(m)' <=> Listed(m) \/ m = l
      BY <1>1, <2>1 DEF Listed
    <2> QED
      BY <2>2, <2>3
  <1>3. ASSUME NEW i \in DOMAIN listeners, listeners[i] = l, listeners' = Without(i)
        PROVE  Once(listeners)' /\ \A m \in Listeners : Listed(m)' <=> Listed(m) /\ m # l
    <2>1. /\ DOMAIN listeners' = 1 .. Len(listeners) - 1
          /\ \A j \in 1 .. Len(listeners) - 1 :
                listeners'[j] = IF j < i THEN listeners[j] ELSE listeners[j + 1]
      <3>1. /\ Without(i) \in Seq(Listeners) /\ Len(Without(i)) = Len(listeners) - 1
            /\ \A j \in 1 .. Len(listeners) - 1 :
                  Without(i)[j] = IF j < i THEN listeners[j] ELSE listeners[j + 1]
        BY WithoutEntry
      <3>2. DOMAIN Without(i) = 1 .. Len(Without(i))
        BY <3>1, LenProperties
      <3> QED
        BY <1>3, <3>1, <3>2
    <2>2. Once(listeners)'
      <3> DEFINE was(j) == IF j < i THEN j ELSE j + 1
      <3>1. \A j \in 1 .. Len(listeners) - 1 :
               was(j) \in 1 .. Len(listeners) /\ listeners'[j] = listeners[was(j)]
        BY <1>1, <2>1
      <3>2. \A j, k \in 1 .. Len(listeners) - 1 : was(j) = was(k) => j = k
        BY <1>1
      <3> HIDE DEF was
      <3>3. \A j, k \in 1 .. Len(listeners) - 1 : listeners'[j] = listeners'[k] => j = k
        BY <1>1, <3>1, <3>2 DEF Once
      <3> QED
        BY <2>1, <3>3 DEF Once
    <2>3. ASSUME NEW m \in Listeners, Listed(m)' PROVE Listed(m) /\ m # l
      BY <1>1, <1>3, <2>1, <2>3 DEF Once, Listed
    <2>4. ASSUME NEW m \in Listeners, Listed(m), m # l PROVE Listed(m)'
      <3>1. PICK j \in 1 .. Len(listeners) : listeners[j] = m /\ j # i
        BY <1>1, <1>3, <2>4 DEF Listed
      <3>2. CASE j < i
        <4>1. j \in 1 .. Len(listeners) - 1 /\ listeners'[j] = m
          BY <1>1, <2>1, <3>1, <3>2
        <4> QED
          BY <2>1, <4>1 DEF Listed
      <3>3. CASE j > i
        <4>1. j - 1 \in 1 .. Len(listeners) - 1 /\ listeners'[j - 1] = m
          BY <1>1, <2>1, <3>1, <3>3
        <4> QED
          BY <2>1, <4>1 DEF Listed
      <3> QED
        BY <1>1, <3>1, <3>2, <3>3
    <2> QED
      BY <2>2, <2>3, <2>4
  <1> QED
    BY <1>2, <1>3

(* The channels that are open are the ones listed. *)
LEMMA ChannelsKeep ==
    ASSUME IndInv, [Next]_vars
    PROVE  Channels'
  <1>1. /\ TypeOK /\ Channels /\ MutexHolder /\ Rounds
        /\ listeners \in Seq(Listeners) /\ bcClosed \in BOOLEAN
    BY DEF IndInv, TypeOK
  <1> DEFINE Same == \A l \in Listeners : /\ chan'[l].open = chan[l].open
                                          /\ consumer'[l].at = consumer[l].at
  <1>2. ASSUME UNCHANGED <<closed, mutex, bcVars, updates>>, Same PROVE Channels'
    BY <1>1, <1>2 DEF Channels, Listed, bcVars
  <1>3. ASSUME UNCHANGED <<chan, consumer>> PROVE Same
    BY <1>3
  <1>4. ASSUME NEW c \in Callers, Start(c) \/ Stop(c) \/ Close(c) \/ PollerClosed(c)
        PROVE  Channels'
    <2>1. UNCHANGED <<bcVars, chan, consumer, updates>>
      BY <1>4 DEF Start, Stop, Close, PollerClosed, roundVars
    <2>2. ~bcClosed /\ ~(closed' /\ mutex' = None)
      BY <1>1, <1>4, MonitorAssumption
      DEF Start, Stop, Close, ClosePoller, PollerClosed, MutexHolder, Channels
    <2> QED
      BY <1>1, <2>1, <2>2 DEF bcVars, Channels, Listed
  <1>5. ASSUME NEW c \in Callers, CloseBroadcaster(c) PROVE Channels'
    <2>1. /\ closed' /\ mutex' = None /\ bcClosed' = TRUE
          /\ listeners' = <<>> /\ UNCHANGED <<updates, consumer>> /\ chan' = AllClosed
      BY <1>1, <1>5 DEF CloseBroadcaster, MutexHolder, roundVars
    <2>2. ASSUME NEW l \in Listeners PROVE ~chan'[l].open
      <3>1. CASE Listed(l)
        BY <1>1, <2>1, <3>1 DEF AllClosed, TypeOK
      <3>2. CASE ~Listed(l)
        BY <1>1, <2>1, <3>2 DEF AllClosed, TypeOK, Channels
      <3> QED
        BY <3>1, <3>2
    <2> QED
      BY <1>1, <2>1, <2>2 DEF Channels, Once, Listed
  <1>6. ASSUME NEW l \in Listeners, Listen(l) PROVE Channels'
    <2>1. /\ consumer[l].at = "out" /\ ~bcClosed /\ listeners' = Append(listeners, l)
          /\ UNCHANGED <<closed, mutex, bcClosed, updates>>
      BY <1>6 DEF Listen, callerVars, roundVars
    <2>2. ~Listed(l)
      BY <1>1, <2>1 DEF Channels
    <2>3. Once(listeners)' /\ \A m \in Listeners : Listed(m)' <=> Listed(m) \/ m = l
      BY <1>1, <2>1, <2>2, ListedAfter DEF Channels
    <2>4. /\ chan'[l].open /\ consumer'[l].at = "out" => ~chan'[l].open
          /\ \A m \in Listeners : m # l => chan'[m] = chan[m] /\ consumer'[m] = consumer[m]
      BY <1>1, <1>6, <2>1, ConsumerEffects
    <2>5. chan'[l].open
      BY <1>1, <1>6, <2>1, ConsumerEffects
    <2> QED
      BY <1>1, <2>1, <2>3, <2>4, <2>5 DEF Channels
  <1>7. ASSUME NEW l \in Listeners, Unlisten(l) PROVE Channels'
    <2>1. /\ consumer[l].at # "out"
          /\ UNCHANGED <<closed, mutex, bcClosed, updates>>
      BY <1>7 DEF Unlisten, callerVars, roundVars
    <2>2. /\ Once(listeners)'
          /\ \A m \in Listeners : Listed(m)' <=> Listed(m) /\ m # l
          /\ listeners = <<>> => listeners' = <<>>
      <3>1. CASE ~Listed(l) /\ UNCHANGED listeners
        BY <1>1, <3>1 DEF Channels, Listed
      <3>2. ASSUME NEW i \in DOMAIN listeners, listeners[i] = l, listeners' = Without(i)
            PROVE  /\ Once(listeners)' /\ listeners # <<>>
                   /\ \A m \in Listeners : Listed(m)' <=> Listed(m) /\ m # l
        <4>1. listeners # <<>>
          BY <3>2
        <4> QED
          BY <1>1, <3>2, <4>1, ListedAfter DEF Channels
      <3> QED
        BY <1>7, <3>1, <3>2 DEF Unlisten
    <2>3. /\ ~chan'[l].open
          /\ \A m \in Listeners : m # l => chan'[m] = chan[m] /\ consumer'[m] = consumer[m]
      BY <1>1, <1>7, <2>1, ConsumerEffects
    <2> QED
      BY <1>1, <2>1, <2>2, <2>3 DEF Channels
  <1>8. ASSUME NEW l \in Listeners,
               Receive(l) \/ ListenToUpdate(l) \/ RangeEnds(l) \/ BeginUnlisten(l)
        PROVE  Channels'
    <2>1. UNCHANGED <<closed, mutex, bcVars, updates>>
      BY <1>8 DEF Receive, ListenToUpdate, RangeEnds, BeginUnlisten, callerVars, roundVars
    <2>2. /\ chan'[l].open = chan[l].open
          /\ consumer'[l].at = "out" => ~chan[l].open
          /\ \A m \in Listeners : m # l => chan'[m] = chan[m] /\ consumer'[m] = consumer[m]
      BY <1>1, <1>8, ConsumerEffects
    <2> QED
      BY <1>1, <2>1, <2>2 DEF Channels, Listed, bcVars
  <1>9. CASE BroadcastLock
    BY <1>1, <1>9 DEF BroadcastLock, Channels, Listed, callerVars, bcVars
  <1>10. CASE BroadcastSend
    <2>1. UNCHANGED <<closed, mutex, bcVars, updates, consumer>>
      BY <1>10 DEF BroadcastSend, callerVars
    <2>2. Same
      BY <1>10, <2>1, SendEffects
    <2> QED
      BY <1>2, <2>1, <2>2
  <1>11. CASE PollReturns
    <2>1. UNCHANGED <<closed, mutex, bcVars>> /\ updates' = <<>> /\ Becomes(Listeners, "incomplete")
      BY <1>11 DEF PollReturns, callerVars
    <2>2. Same
      BY <1>1, <2>1, BecomesEffects DEF Kinds
    <2>3. Once(updates)'
      BY <2>1 DEF Once
    <2> QED
      BY <1>1, <2>1, <2>2, <2>3 DEF Channels, Listed, bcVars
  <1>12. ASSUME NEW k \in Conns, ComputeSend(k) PROVE Channels'
    <2>1. UNCHANGED <<closed, mutex, bcVars, updates>>
      BY <1>12 DEF ComputeSend, callerVars
    <2>2. Same
      <3>1. UNCHANGED <<chan, consumer>> \/ \E ls : Becomes(ls, "complete")
        BY <1>12 DEF ComputeSend
      <3> QED
        BY <1>1, <1>3, <3>1, BecomesEffects DEF Kinds
    <2> QED
      BY <1>2, <2>1, <2>2
  <1>13. CASE UNCHANGED <<closed, mutex, bcVars, updates, chan, consumer>>
    BY <1>2, <1>3, <1>13
  <1> QED
    BY <1>4, <1>5, <1>6, <1>7, <1>8, <1>9, <1>10, <1>11, <1>12, <1>13, Steps
    DEF Update, Tick, StartInvocation, Timeout, PollCheck, ComputeStart, QueryReturns, QueryIsLost,
        vars, callerVars, roundVars

(* The computations that are counted are finitely many. *)
LEMMA UnsentFinite ==
    ASSUME NEW l
    PROVE  /\ Cardinality(Conns) \in Nat
           /\ IsFiniteSet(Unsent(l)) /\ Cardinality(Unsent(l)) \in Nat
           /\ Cardinality(Unsent(l)) <= Cardinality(Conns)
  <1>1. IsFiniteSet(Conns) /\ Unsent(l) \in SUBSET Conns
    BY MonitorAssumption DEF Unsent
  <1>2. IsFiniteSet(Unsent(l)) /\ Cardinality(Unsent(l)) <= Cardinality(Conns)
    BY <1>1, FS_Subset
  <1> QED
    BY <1>1, <1>2, FS_CardinalityType

(* Every backlog that is sent is counted once for each update, and a computation
   that gives up counts only against a poll that is cancelled. *)
LEMMA CountingKeeps ==
    ASSUME IndInv, [Next]_vars
    PROVE  left' \in [Listeners -> 0 .. Cardinality(Conns)] /\ Counting'
  <1> DEFINE N == Cardinality(Conns)
             Kept == left' \in [Listeners -> 0 .. N] /\ Counting'
  <1>1. /\ TypeOK /\ Rounds /\ Counting /\ Channels
        /\ left \in [Listeners -> 0 .. N] /\ N \in Nat
        /\ updates \in Seq(Listeners) /\ listeners \in Seq(Listeners)
        /\ DOMAIN updates = 1 .. Len(updates) /\ Len(updates) \in Nat
    BY UnsentFinite, LenProperties DEF IndInv, TypeOK
  <1>2. ASSUME UNCHANGED <<poll, updates, comp, left>>,
               ~ctxDone' => ~ctxDone \/ poll.at = "none"
        PROVE  Kept
    <2>1. \A l \in Listeners : Unsent(l)' = Unsent(l) /\ (Awaited(l)' <=> Awaited(l))
      BY <1>2 DEF Awaited, Unsent
    <2> QED
      BY <1>1, <1>2, <2>1 DEF Counting
  <1>3. ASSUME poll'.at \notin {"broadcast", "compute"}, UNCHANGED left
        PROVE  Kept
    BY <1>1, <1>3 DEF Counting
  <1>4. ASSUME NEW c \in Callers, Stop(c) \/ Close(c) PROVE Kept
    <2>1. UNCHANGED roundVars /\ (ctxDone' = ctxDone \/ ctxDone' = (poll.at # "none"))
      BY <1>4 DEF Stop, Close, ClosePoller
    <2> QED
      BY <1>2, <2>1 DEF roundVars
  <1>5. ASSUME Timeout PROVE Kept
    BY <1>2, <1>5 DEF Timeout, roundVars
  <1>6. ASSUME StartInvocation \/ PollCheck PROVE Kept
    <2>1. UNCHANGED <<updates, comp, left>>
      BY <1>6 DEF StartInvocation, PollCheck
    <2>2. poll'.at \notin {"broadcast", "compute"} \/ (poll' = poll /\ ctxDone' = ctxDone)
      BY <1>1, <1>6, PollMoves DEF StartInvocation
    <2> QED
      BY <1>2, <1>3, <2>1, <2>2
  <1>7. ASSUME PollReturns PROVE Kept
    <2>1. poll'.at = "none" /\ left' = [l \in Listeners |-> 0]
      BY <1>1, <1>7, PollMoves DEF PollReturns
    <2> QED
      BY <1>1, <2>1 DEF Counting
  <1>8. ASSUME BroadcastLock PROVE Kept
    <2>1. /\ updates' = listeners
          /\ left' = [l \in Listeners |-> IF Listed(l) THEN N ELSE 0]
          /\ poll'.at = IF listeners = <<>> THEN "compute" ELSE "broadcast"
      BY <1>1, <1>8, PollMoves DEF BroadcastLock
    <2>2. \A l \in Listeners : Awaited(l)' <=> Listed(l)
      BY <2>1 DEF Awaited, Listed
    <2>3. CASE listeners = <<>>
      <3>1. \A l \in Listeners : ~Listed(l)
        BY <2>3 DEF Listed
      <3>2. Len(updates') = 0
        BY <2>1, <2>3, EmptySeq
      <3>3. \A k \in Conns : comp'[k].next \in Nat \ {0}
        BY <1>1, <1>8, <2>3 DEF BroadcastLock, SpawnComputes
      <3>4. \A l \in Listeners : Unsent(l)' = {}
        BY <3>2, <3>3 DEF Unsent
      <3>5. \A l \in Listeners : Cardinality(Unsent(l)') = 0
        BY <3>4, FS_EmptySet
      <3> QED
        BY <1>1, <2>1, <2>3, <3>1, <3>5 DEF Counting
    <2>4. CASE listeners # <<>>
      BY <1>1, <2>1, <2>2, <2>4 DEF Counting
    <2> QED
      BY <2>3, <2>4
  <1>9. ASSUME BroadcastSend PROVE Kept
    <2>1. UNCHANGED <<updates, left>> /\ poll.at = "broadcast"
      BY <1>9 DEF BroadcastSend
    <2>2. \A l \in Listeners : Awaited(l)' <=> Awaited(l)
      BY <2>1 DEF Awaited
    <2>3. CASE poll'.at = "broadcast"
      BY <1>1, <2>1, <2>2, <2>3 DEF Counting
    <2>4. CASE poll'.at = "compute" /\ SpawnComputes
      <3>1. \A k \in Conns : comp'[k].at = "spawned" /\ comp'[k].next = 1
        BY <2>4 DEF SpawnComputes
      <3>2. \A l \in Listeners : Unsent(l)' = IF Awaited(l) THEN Conns ELSE {}
        BY <1>1, <2>1, <3>1 DEF Unsent, Awaited
      <3>3. \A l \in Listeners : Cardinality(Unsent(l)') = IF Awaited(l) THEN N ELSE 0
        BY <3>2, FS_EmptySet
      <3>4. \A l \in Listeners : left[l] = IF Awaited(l) THEN N ELSE 0
        BY <1>1, <2>1 DEF Counting
      <3> QED
        BY <1>1, <2>1, <2>4, <3>3, <3>4, SMTT(30) DEF Counting
    <2> QED
      BY <1>1, <1>9, <2>3, <2>4, PollMoves
  <1>10. ASSUME NEW k \in Conns, ComputeStart(k) \/ QueryReturns(k) \/ QueryIsLost(k) PROVE Kept
    <2>1. UNCHANGED <<poll, updates, left, ctxDone>>
      BY <1>10 DEF ComputeStart, QueryReturns, QueryIsLost
    <2>2. /\ comp[k].at # "none" /\ comp'[k].next = comp[k].next
          /\ comp'[k].at = "none" => ctxDone
          /\ \A j \in Conns : j # k => comp'[j] = comp[j]
      BY <1>1, <1>10, ComputeMoves
    <2>3. ASSUME NEW l \in Listeners
          PROVE  /\ Unsent(l)' \in SUBSET Unsent(l)
                 /\ ~ctxDone => Unsent(l)' = Unsent(l)
      BY <2>1, <2>2 DEF Unsent
    <2>4. ASSUME NEW l \in Listeners
          PROVE  /\ Cardinality(Unsent(l)') <= Cardinality(Unsent(l))
                 /\ Cardinality(Unsent(l)') \in Nat /\ Cardinality(Unsent(l)) \in Nat
      <3>1. IsFiniteSet(Unsent(l)) /\ Cardinality(Unsent(l)) \in Nat
        BY UnsentFinite
      <3>2. IsFiniteSet(Unsent(l)') /\ Cardinality(Unsent(l)') <= Cardinality(Unsent(l))
        BY <2>3, <3>1, FS_Subset
      <3> QED
        BY <3>1, <3>2, FS_CardinalityType
    <2>5. poll.at = "compute"
      BY <1>1, <2>2 DEF Rounds
    <2>6. ASSUME NEW l \in Listeners
          PROVE  /\ left'[l] >= Cardinality(Unsent(l)')
                 /\ ~ctxDone' => left'[l] = Cardinality(Unsent(l)')
      <3>1. /\ left[l] \in 0 .. N /\ left[l] >= Cardinality(Unsent(l))
            /\ ~ctxDone => left[l] = Cardinality(Unsent(l))
        BY <1>1, <2>5 DEF Counting
      <3>2. left'[l] >= Cardinality(Unsent(l)')
        BY <1>1, <2>1, <2>4, <3>1
      <3> QED
        BY <2>1, <2>3, <3>1, <3>2
    <2> QED
      BY <1>1, <2>1, <2>5, <2>6 DEF Counting
  <1>11. ASSUME NEW k \in Conns, ComputeSend(k) PROVE Kept
    <2>1. UNCHANGED <<poll, updates, ctxDone>> /\ comp[k].at = "send" /\ poll.at = "compute"
      BY <1>1, <1>11 DEF ComputeSend, Rounds
    <2>2. comp[k].next \in Nat \ {0}
      BY <1>1 DEF TypeOK
    <2>3. \A j \in Conns : j # k => comp'[j] = comp[j]
      BY <1>1, <1>11, ComputeMoves
    <2>4. CASE /\ comp[k].next > Len(updates) /\ comp'[k].at = "none" /\ left' = left
      <3>1. \A l \in Listeners : Unsent(l)' = Unsent(l)
        BY <1>1, <2>1, <2>2, <2>3, <2>4 DEF Unsent
      <3> QED
        BY <1>1, <2>1, <2>4, <3>1 DEF Counting
    <2>5. CASE /\ comp[k].next <= Len(updates)
               /\ comp'[k].at = "send" /\ comp'[k].next = comp[k].next + 1
               /\ left' = [left EXCEPT ![updates[comp[k].next]] = @ - 1]
      <3>1. comp[k].next \in 1 .. Len(updates) /\ updates[comp[k].next] \in Listeners
        BY <1>1, <2>2, <2>5, ElementOfSeq
      <3>2. PICK n \in Nat : n = comp[k].next
        BY <2>2
      <3>3. PICK u \in Listeners : u = updates[n]
        BY <3>1, <3>2
      <3>4. n \in 1 .. Len(updates) /\ n = comp[k].next /\ u = updates[n]
        BY <3>1, <3>2, <3>3
      <3>5. \A l \in Listeners : l # u => Unsent(l)' = Unsent(l)
        <4>1. ASSUME NEW l \in Listeners, l # u
              PROVE  (\E i \in n .. Len(updates) : updates[i] = l)
                     <=> (\E i \in n + 1 .. Len(updates) : updates[i] = l)
          BY <1>1, <3>4, <4>1, SMTT(30)
        <4>2. ASSUME NEW l \in Listeners, l # u, NEW j \in Conns
              PROVE  j \in Unsent(l)' <=> j \in Unsent(l)
          <5>1. CASE j = k
            BY <2>1, <2>5, <3>4, <4>1, <4>2, <5>1 DEF Unsent
          <5>2. CASE j # k
            BY <2>1, <2>3, <5>2 DEF Unsent
          <5> QED
            BY <5>1, <5>2
        <4>3. \A l \in Listeners : Unsent(l) \subseteq Conns /\ Unsent(l)' \subseteq Conns
          BY DEF Unsent
        <4> QED
          BY <4>2, <4>3
      <3>6. k \in Unsent(u) /\ Unsent(u)' = Unsent(u) \ {k}
        <4>1. \E i \in n .. Len(updates) : updates[i] = u
          BY <1>1, <3>4
        <4>2. ~\E i \in n + 1 .. Len(updates) : updates[i] = u
          <5> SUFFICES ASSUME NEW i \in n + 1 .. Len(updates), updates[i] = u
                       PROVE  FALSE
            OBVIOUS
          <5>1. i \in DOMAIN updates /\ n \in DOMAIN updates /\ i # n
            BY <1>1, <3>4
          <5> QED
            BY <1>1, <3>4, <5>1 DEF Channels, Once
        <4>3. k \in Unsent(u) /\ k \notin Unsent(u)'
          BY <2>1, <2>5, <3>4, <4>1, <4>2 DEF Unsent
        <4>4. \A j \in Conns : j # k => (j \in Unsent(u)' <=> j \in Unsent(u))
          BY <2>1, <2>3 DEF Unsent
        <4>5. Unsent(u) \subseteq Conns /\ Unsent(u)' \subseteq Conns
          BY DEF Unsent
        <4> QED
          BY <4>3, <4>4, <4>5
      <3>7. /\ Cardinality(Unsent(u)') = Cardinality(Unsent(u)) - 1
            /\ Cardinality(Unsent(u)) \in Nat \ {0}
        <4>1. IsFiniteSet(Unsent(u)) /\ Cardinality(Unsent(u)) \in Nat
          BY UnsentFinite
        <4>2. Cardinality(Unsent(u)) # 0
          BY <3>6, <4>1, FS_EmptySet
        <4>3. Cardinality(Unsent(u) \ {k}) = Cardinality(Unsent(u)) - 1
          BY <3>6, <4>1, FS_RemoveElement
        <4> QED
          BY <3>6, <4>1, <4>2, <4>3
      <3>8. /\ left[u] \in 0 .. N /\ left[u] >= Cardinality(Unsent(u))
            /\ ~ctxDone => left[u] = Cardinality(Unsent(u))
        BY <1>1, <2>1, <3>4 DEF Counting
      <3>9. left' \in [Listeners -> 0 .. N] /\ left'[u] = left[u] - 1
            /\ \A l \in Listeners : l # u => left'[l] = left[l]
        <4> DEFINE v == left[u] - 1
        <4>1. v \in 0 .. N
          BY <1>1, <3>7, <3>8
        <4>2. left' = [left EXCEPT ![u] = v]
          BY <2>5, <3>4
        <4> HIDE DEF v
        <4>3. /\ left' \in [Listeners -> 0 .. N] /\ left'[u] = v
              /\ \A l \in Listeners : l # u => left'[l] = left[l]
          BY <1>1, <4>1, <4>2
        <4> QED
          BY <4>3 DEF v
      <3>10. \A l \in Listeners :
               /\ left'[l] >= Cardinality(Unsent(l)')
               /\ ~ctxDone => left'[l] = Cardinality(Unsent(l)')
        <4>1. /\ left'[u] >= Cardinality(Unsent(u)')
              /\ ~ctxDone => left'[u] = Cardinality(Unsent(u)')
          BY <1>1, <3>7, <3>8, <3>9
        <4>2. ASSUME NEW l \in Listeners, l # u
              PROVE  /\ left'[l] >= Cardinality(Unsent(l)')
                     /\ ~ctxDone => left'[l] = Cardinality(Unsent(l)')
          <5>1. /\ left[l] >= Cardinality(Unsent(l))
                /\ ~ctxDone => left[l] = Cardinality(Unsent(l))
            BY <1>1, <2>1 DEF Counting
          <5>2. left'[l] = left[l] /\ Unsent(l)' = Unsent(l)
            BY <3>5, <3>9, <4>2
          <5> QED
            BY <5>1, <5>2
        <4> QED
          BY <4>1, <4>2
      <3> QED
        BY <2>1, <3>9, <3>10 DEF Counting
    <2> QED
      BY <1>1, <1>11, <2>4, <2>5, ComputeMoves
  <1>12. ASSUME UNCHANGED <<ctxDone, roundVars>> PROVE Kept
    BY <1>2, <1>12 DEF roundVars
  <1> QED
    BY <1>4, <1>5, <1>6, <1>7, <1>8, <1>9, <1>10, <1>11, <1>12, Steps
    DEF Start, Update, PollerClosed, CloseBroadcaster, Tick, Listen, Receive, ListenToUpdate,
        RangeEnds, BeginUnlisten, Unlisten, vars

-----------------------------------------------------------------------------
(* The monitor as New makes it. *)
LEMMA InitIndInv == Init => IndInv
  <1> SUFFICES ASSUME Init PROVE IndInv
    OBVIOUS
  <1>1. TypeOK
    <2>1. <<>> \in Seq(Listeners) /\ <<>> \in Seq(Kinds) /\ Len(<<>>) = 0
      BY EmptySeq
    <2>2. chan \in [Listeners -> Chans] /\ consumer \in [Listeners -> Consumers]
      BY <2>1 DEF Init, NoChan, Out, Chans, Consumers
    <2>3. \A l \in Listeners : Len(chan[l].queue) <= ChanSize
      BY <2>1, MonitorAssumption DEF Init, NoChan
    <2>4. poll \in Polls /\ comp \in [Conns -> Comps]
      BY DEF Init, NoPoll, Polls, Comps
    <2>5. left \in [Listeners -> 0 .. Cardinality(Conns)]
      BY UnsentFinite DEF Init
    <2> QED
      BY <2>1, <2>2, <2>3, <2>4, <2>5 DEF Init, TypeOK, Polls, Comps, Chans, Consumers
  <1>2. MutexHolder /\ Polling /\ Counting
    BY MonitorAssumption DEF Init, MutexHolder, Polling, NoPoll, Counting
  <1>3. Rounds
    <2>1. Len(updates) = 0
      BY EmptySeq DEF Init
    <2> QED
      BY <2>1 DEF Init, NoPoll, Rounds
  <1>4. Channels
    BY MonitorAssumption DEF Init, Channels, NoChan, Out, Listed, Once
  <1> QED
    BY <1>1, <1>2, <1>3, <1>4 DEF IndInv

(* Every step keeps the invariant. *)
LEMMA NextKeeps == IndInv /\ [Next]_vars => IndInv'
  <1> SUFFICES ASSUME IndInv, [Next]_vars PROVE IndInv'
    OBVIOUS
  <1>1. TypeOK
    BY DEF IndInv
  <1>2. TypeOK'
    BY <1>1, CallerTypes, RoundTypes, ChannelTypes, CountingKeeps
    DEF TypeOK, Polls, Comps, Chans, Consumers
  <1> QED
    BY <1>2, MutexHolderKeeps, PollingKeeps, RoundsKeep, ChannelsKeep, CountingKeeps DEF IndInv

(* The inductive invariant of the backlog monitor, whatever its callers and its
   listeners do. *)
THEOREM Invariance == Spec => []IndInv
  BY InitIndInv, NextKeeps, PTL DEF Spec

(* A broadcast is over the channels listed. *)
LEMMA BroadcastsToListed ==
    ASSUME IndInv, poll.at = "broadcast", NEW i \in DOMAIN updates
    PROVE  updates[i] \in Listeners /\ Listed(updates[i]) /\ chan[updates[i]].open
  <1>1. updates = listeners /\ updates \in Seq(Listeners)
    BY DEF IndInv, Rounds, TypeOK
  <1>2. updates[i] \in Listeners
    BY <1>1, LenProperties, ElementOfSeq
  <1> QED
    BY <1>1, <1>2 DEF IndInv, Channels, Listed

(* Broadcast never sends on a closed channel, which would panic: Listen, Unlisten
   and Close wait for it. *)
THEOREM SendsToOpenChannels == Spec => []BroadcastsToOpenChannels
  <1>1. IndInv => BroadcastsToOpenChannels
    <2> SUFFICES ASSUME IndInv, poll.at = "broadcast", NEW i \in poll.next .. Len(updates)
                 PROVE  chan[updates[i]].open /\ Listed(updates[i])
      BY DEF BroadcastsToOpenChannels
    <2>1. i \in DOMAIN updates
      BY LenProperties DEF IndInv, TypeOK
    <2> QED
      BY <2>1, BroadcastsToListed
  <1> QED
    BY <1>1, Invariance, PTL

(* The variables of the monitor, the rounds and the broadcaster keep their types;
   no channel holds more than its buffer, and no update is sent more backlogs than
   there are connections. *)
THEOREM MonitorTypes == Spec => []TypeOK
  <1>1. IndInv => TypeOK
    BY DEF IndInv
  <1> QED
    BY <1>1, Invariance, PTL

(* A poll that is not cancelled has sent every backlog to every update it has
   handed out when it returns. *)
THEOREM RoundsAreComplete == Spec => RoundsComplete
  <1>1. ASSUME IndInv, [Next]_vars
        PROVE  [poll.at = "compute" /\ poll'.at = "none" /\ ~ctxDone
                   => \A l \in Listeners : left[l] = 0]_vars
    <2> SUFFICES ASSUME poll.at = "compute", poll'.at = "none", ~ctxDone, NEW l \in Listeners
                 PROVE  left[l] = 0
      OBVIOUS
    <2>1. TypeOK /\ poll' # poll
      BY <1>1 DEF IndInv
    <2>2. PollReturns
      BY <1>1, <2>1, Steps, PollMoves
      DEF Start, Stop, Close, Update, PollerClosed, CloseBroadcaster, Tick, Timeout,
          ComputeStart, QueryReturns, QueryIsLost, ComputeSend, Listen, Receive, ListenToUpdate,
          RangeEnds, BeginUnlisten, Unlisten, vars, roundVars
    <2>3. Unsent(l) = {}
      BY <2>2 DEF PollReturns, Unsent
    <2>4. left[l] = Cardinality(Unsent(l))
      BY <1>1 DEF IndInv, Counting
    <2> QED
      BY <2>3, <2>4, FS_EmptySet
  <1> QED
    BY <1>1, Invariance, PTL DEF Spec, RoundsComplete

-----------------------------------------------------------------------------
(* The contract's record of a monitor. *)
Record(p, b, q, s, a) ==
    [phase |-> p, by |-> b, polling |-> q, stalled |-> s, attached |-> a]

(* Each field of the record can be read and updated. *)
LEMMA RecordUpdates ==
    ASSUME NEW p, NEW b, NEW q, NEW s, NEW a, NEW x
    PROVE  /\ [Record(p, b, q, s, a) EXCEPT !.phase = x] = Record(x, b, q, s, a)
           /\ [Record(p, b, q, s, a) EXCEPT !.by = x] = Record(p, x, q, s, a)
           /\ [Record(p, b, q, s, a) EXCEPT !.polling = x] = Record(p, b, x, s, a)
           /\ [Record(p, b, q, s, a) EXCEPT !.stalled = x] = Record(p, b, q, x, a)
           /\ [Record(p, b, q, s, a) EXCEPT !.attached = x] = Record(p, b, q, s, x)
           /\ Record(p, b, q, s, a).phase = p
           /\ Record(p, b, q, s, a).by = b
           /\ Record(p, b, q, s, a).polling = q
           /\ Record(p, b, q, s, a).stalled = s
           /\ Record(p, b, q, s, a).attached = a
  BY DEF Record

(* The contract's function for one monitor with such a record. *)
Alone(p, b, q, s, a) == [m \in {"backlog"} |-> Record(p, b, q, s, a)]

SetPhase(f, x) == [f EXCEPT !["backlog"].phase = x]
SetBy(f, x) == [f EXCEPT !["backlog"].by = x]
SetPolling(f, x) == [f EXCEPT !["backlog"].polling = x]
SetStalled(f, x) == [f EXCEPT !["backlog"].stalled = x]
SetAttached(f, x) == [f EXCEPT !["backlog"].attached = x]

(* Each field can be updated in the function. *)
LEMMA AloneUpdates ==
    ASSUME NEW p, NEW b, NEW q, NEW s, NEW a, NEW x
    PROVE  /\ SetPhase(Alone(p, b, q, s, a), x) = Alone(x, b, q, s, a)
           /\ SetBy(Alone(p, b, q, s, a), x) = Alone(p, x, q, s, a)
           /\ SetPolling(Alone(p, b, q, s, a), x) = Alone(p, b, x, s, a)
           /\ SetStalled(Alone(p, b, q, s, a), x) = Alone(p, b, q, x, a)
           /\ SetAttached(Alone(p, b, q, s, a), x) = Alone(p, b, q, s, x)
  <1> DEFINE r == Record(p, b, q, s, a)
             f == Alone(p, b, q, s, a)
  <1>1. f["backlog"] = r /\ \A y : [f EXCEPT !["backlog"] = y] = [m \in {"backlog"} |-> y]
    BY DEF Alone
  <1>2. /\ [r EXCEPT !.phase = x] = Record(x, b, q, s, a)
        /\ [r EXCEPT !.by = x] = Record(p, x, q, s, a)
        /\ [r EXCEPT !.polling = x] = Record(p, b, x, s, a)
        /\ [r EXCEPT !.stalled = x] = Record(p, b, q, x, a)
        /\ [r EXCEPT !.attached = x] = Record(p, b, q, s, x)
    BY RecordUpdates
  <1> HIDE DEF r, f
  <1>3. /\ [f EXCEPT !["backlog"].phase = x] = [m \in {"backlog"} |-> [r EXCEPT !.phase = x]]
        /\ [f EXCEPT !["backlog"].by = x] = [m \in {"backlog"} |-> [r EXCEPT !.by = x]]
        /\ [f EXCEPT !["backlog"].polling = x] = [m \in {"backlog"} |-> [r EXCEPT !.polling = x]]
        /\ [f EXCEPT !["backlog"].stalled = x] = [m \in {"backlog"} |-> [r EXCEPT !.stalled = x]]
        /\ [f EXCEPT !["backlog"].attached = x] = [m \in {"backlog"} |-> [r EXCEPT !.attached = x]]
    BY <1>1
  <1>4. /\ [f EXCEPT !["backlog"].phase = x] = Alone(x, b, q, s, a)
        /\ [f EXCEPT !["backlog"].by = x] = Alone(p, x, q, s, a)
        /\ [f EXCEPT !["backlog"].polling = x] = Alone(p, b, x, s, a)
        /\ [f EXCEPT !["backlog"].stalled = x] = Alone(p, b, q, x, a)
        /\ [f EXCEPT !["backlog"].attached = x] = Alone(p, b, q, s, x)
    BY <1>2, <1>3 DEF Alone
  <1> QED
    BY <1>4 DEF f, SetPhase, SetBy, SetPolling, SetStalled, SetAttached

IsPolling == poll.at # "none"

(* What the contract sees of the monitor, before and after a step. *)
LEMMA LivesIs ==
    /\ Lives = Alone(Phase, mutex, IsPolling, StalledBy, Attached)
    /\ Lives' = Alone(Phase', mutex', IsPolling', StalledBy', Attached')
  BY DEF Lives, Life, Alone, Record, IsPolling

(* The fields of the contract's record. *)
LEMMA LifeFields ==
    /\ Lives["backlog"].phase = Phase
    /\ Lives["backlog"].by = mutex
    /\ Lives["backlog"].polling = IsPolling
    /\ Lives["backlog"].stalled = StalledBy
    /\ Lives["backlog"].attached = Attached
  <1>1. Lives["backlog"] = Record(Phase, mutex, IsPolling, StalledBy, Attached)
    BY LivesIs DEF Alone
  <1> QED
    BY <1>1, RecordUpdates

(* The monitor as New makes it is a stopped one. *)
LEMMA InitSimulates == Init => Contract!Init
  <1> SUFFICES ASSUME Init PROVE Contract!Init
    OBVIOUS
  <1>1. Phase = "stopped" /\ Attached = {} /\ StalledBy = "no" /\ (poll.at # "none") = FALSE
    BY DEF Init, Phase, Attached, NoChan, NoPoll, StalledBy, Stalled
  <1> QED
    BY <1>1 DEF Init, Contract!Init, Contract!New, Lives, Life

(* How a step that stalls nothing changes the contract's state. *)
LEMMA LifeChanges ==
    ASSUME NEW x, NEW y, StalledBy' = StalledBy
    PROVE  /\ Phase' = Phase /\ mutex' = mutex /\ IsPolling' = IsPolling /\ Attached' = Attached
              => Lives' = Lives
           /\ Phase' = x /\ mutex' = mutex /\ IsPolling' = IsPolling /\ Attached' = Attached
              => Lives' = SetPhase(Lives, x)
           /\ Phase' = x /\ mutex' = y /\ IsPolling' = IsPolling /\ Attached' = Attached
              => Lives' = SetBy(SetPhase(Lives, x), y)
           /\ Phase' = Phase /\ mutex' = mutex /\ IsPolling' = x /\ Attached' = Attached
              => Lives' = SetPolling(Lives, x)
           /\ Phase' = Phase /\ mutex' = mutex /\ IsPolling' = IsPolling /\ Attached' = x
              => Lives' = SetAttached(Lives, x)
           /\ Phase' = x /\ mutex' = y /\ IsPolling' = IsPolling /\ Attached' = {}
              => Lives' = SetAttached(SetBy(SetPhase(Lives, x), y), {})
  <1>1. SetPhase(Lives, x) = Alone(x, mutex, IsPolling, StalledBy, Attached)
    BY LivesIs, AloneUpdates
  <1>2. SetBy(SetPhase(Lives, x), y) = Alone(x, y, IsPolling, StalledBy, Attached)
    BY <1>1, AloneUpdates
  <1>3. SetAttached(SetBy(SetPhase(Lives, x), y), {}) = Alone(x, y, IsPolling, StalledBy, {})
    BY <1>2, AloneUpdates
  <1>4. /\ SetPolling(Lives, x) = Alone(Phase, mutex, x, StalledBy, Attached)
        /\ SetAttached(Lives, x) = Alone(Phase, mutex, IsPolling, StalledBy, x)
    BY LivesIs, AloneUpdates
  <1> QED
    BY <1>1, <1>2, <1>3, <1>4, LivesIs

(* Only Broadcast stalls for a listener, and only a computation for a query. *)
Lost == \E k \in Conns : comp[k].at = "lost"

LEMMA StallsInBroadcast ==
    /\ Stalled \in BOOLEAN /\ (Stalled => poll.at = "broadcast")
    /\ Stalled' \in BOOLEAN /\ (Stalled' => poll'.at = "broadcast")
  BY DEF Stalled, Stuck

LEMMA StallsInPoll ==
    ASSUME IndInv
    PROVE  /\ StalledBy = IF Stalled THEN "listener" ELSE IF Lost THEN "query" ELSE "no"
           /\ StalledBy' = IF Stalled' THEN "listener" ELSE IF Lost' THEN "query" ELSE "no"
           /\ Lost \in BOOLEAN /\ Lost' \in BOOLEAN
           /\ Lost => poll.at = "compute"
  BY DEF StalledBy, Lost, IndInv, Rounds

Stalling == \E cause \in Contract!Causes : Contract!Stall("backlog", cause)

(* Lives with another cause. *)
LEMMA SetsStalled ==
    ASSUME NEW x
    PROVE  SetStalled(Lives, x) = Alone(Phase, mutex, IsPolling, x, Attached)
  BY LivesIs, AloneUpdates

(* A step that changes nothing but what keeps the poll from ending. *)
LEMMA Causing ==
    ASSUME NEW cause \in Contract!Causes,
           Phase' = Phase, mutex' = mutex, IsPolling' = IsPolling, Attached' = Attached,
           IsPolling, StalledBy = "no", StalledBy' = cause,
           cause = "listener" => Attached # {}
    PROVE  Stalling
  <1>1. SetStalled(Lives, cause) = Alone(Phase, mutex, IsPolling, cause, Attached)
    BY SetsStalled
  <1>2. Lives' = SetStalled(Lives, cause)
    BY <1>1, LivesIs
  <1>3. /\ Lives["backlog"].polling /\ Lives["backlog"].stalled = "no"
        /\ Lives["backlog"].attached = Attached
    BY LifeFields
  <1> QED
    BY <1>2, <1>3 DEF Stalling, Contract!Stall, SetStalled

(* A step that changes nothing but that Broadcast, at last, waits for a listener
   that is stuck, whose channel is open. *)
LEMMA Stalls ==
    ASSUME IndInv, IndInv', Phase' = Phase, mutex' = mutex, IsPolling' = IsPolling,
           Attached' = Attached, Stalled => Stalled', Lost' = Lost
    PROVE  Lives' = Lives \/ Stalling
  <1>1. CASE Stalled' = Stalled
    <2>1. StalledBy' = StalledBy
      BY <1>1, StallsInPoll
    <2> QED
      BY <2>1, LifeChanges
  <1>2. CASE ~Stalled /\ Stalled'
    <2>1. poll'.at = "broadcast"
      BY <1>2 DEF Stalled
    <2>2. Attached # {}
      <3>1. poll'.next \in DOMAIN updates' /\ updates' \in Seq(Listeners)
        BY <2>1 DEF IndInv, Rounds, TypeOK
      <3>2. updates'[poll'.next] \in Attached'
        <4>1. updates' = listeners' /\ updates'[poll'.next] \in Listeners
          BY <2>1, <3>1, LenProperties, ElementOfSeq DEF IndInv, Rounds
        <4>2. chan'[updates'[poll'.next]].open
          BY <3>1, <4>1 DEF IndInv, Channels, Listed
        <4> QED
          BY <4>1, <4>2 DEF Attached
      <3> QED
        BY <3>2
    <2>3. ~Lost
      BY <2>1 DEF Lost, IndInv, Rounds
    <2>4. StalledBy = "no" /\ StalledBy' = "listener"
      BY <1>2, <2>3, StallsInPoll
    <2>5. IsPolling
      BY <2>1 DEF IsPolling
    <2> QED
      BY <2>2, <2>4, <2>5, Causing DEF Contract!Causes
  <1> QED
    BY <1>1, <1>2, StallsInBroadcast

(* A step of a caller: Start, Stop and Close begin and return as the contract
   says. *)
LEMMA CallerSimulates ==
    ASSUME IndInv, IndInv', NEW c \in Callers, CallerStep(c)
    PROVE  \/ Lives' = Lives \/ Contract!Start("backlog")
           \/ Contract!Stop("backlog", c) \/ Contract!Close("backlog", c)
           \/ Contract!Returns("backlog", c)
  <1> USE DEF IndInv
  <1>1. /\ IsPolling' = IsPolling /\ StalledBy' = StalledBy
        /\ ~CloseBroadcaster(c) => Attached' = Attached
    <2>1. UNCHANGED <<poll, updates, comp, consumer>>
      BY DEF CallerStep, Return, Start, Stop, Close, Update, PollerClosed, CloseBroadcaster,
             roundVars
    <2>2. CASE UNCHANGED chan
      BY <2>1, <2>2 DEF IsPolling, StalledBy, Stalled, Stuck, HasRoom, Attached
    <2>3. CASE CloseBroadcaster(c)
      <3>1. poll.at # "broadcast" /\ poll'.at # "broadcast"
        BY <2>1, <2>3 DEF CloseBroadcaster, BroadcasterFree
      <3> QED
        BY <2>1, <2>3, <3>1 DEF IsPolling, StalledBy, Stalled
    <2> QED
      BY <2>2, <2>3 DEF CallerStep, Return, Start, Stop, Close, Update, PollerClosed
  <1>2. CASE Start(c)
    <2>1. Phase' = "running" /\ mutex' = mutex /\ Attached' = Attached
      BY <1>1, <1>2 DEF Start, CloseBroadcaster, MutexHolder, Phase
    <2>2. Lives' = SetPhase(Lives, "running")
      BY <1>1, <2>1, LifeChanges
    <2>3. Lives["backlog"].by = None /\ Lives["backlog"].phase = "stopped"
      BY <1>2, LifeFields DEF Start, Phase
    <2> QED
      BY <2>2, <2>3 DEF Contract!Start, Contract!Free, SetPhase
  <1>3. CASE Stop(c)
    <2>1. Phase' = "stopping" /\ mutex' = c /\ Attached' = Attached
      BY <1>1, <1>3 DEF Stop, ClosePoller, CloseBroadcaster, MutexHolder, Phase
    <2>2. Lives' = SetBy(SetPhase(Lives, "stopping"), c)
      BY <1>1, <2>1, LifeChanges
    <2>3. Lives["backlog"].by = None /\ Lives["backlog"].phase = "running"
      BY <1>3, LifeFields DEF Stop, MutexHolder, Phase
    <2> QED
      BY <2>2, <2>3 DEF Contract!Stop, Contract!Free, SetPhase, SetBy
  <1>4. CASE Close(c)
    <2>1. Phase' = "closing" /\ mutex' = c /\ Attached' = Attached
      BY <1>1, <1>4, MonitorAssumption DEF Close, ClosePoller, CloseBroadcaster, Phase
    <2>2. Lives' = SetBy(SetPhase(Lives, "closing"), c)
      BY <1>1, <2>1, LifeChanges
    <2>3. Lives["backlog"].by = None /\ Lives["backlog"].phase \in {"stopped", "running"}
      BY <1>4, LifeFields DEF Close, ClosePoller, Phase
    <2> QED
      BY <2>2, <2>3 DEF Contract!Close, Contract!Free, SetPhase, SetBy
  <1>5. CASE Update(c)
    <2>1. Phase' = Phase /\ mutex' = mutex /\ Attached' = Attached
      BY <1>1, <1>5 DEF Update, CloseBroadcaster, MutexHolder, Phase, callerVars
    <2> QED
      BY <1>1, <2>1, LifeChanges
  <1>6. CASE PollerClosed(c) /\ pc[c] = "stop"
    <2>1. Phase' = "stopped" /\ mutex' = None /\ Attached' = Attached
      BY <1>1, <1>6 DEF PollerClosed, CloseBroadcaster, MutexHolder, Phase
    <2>2. Lives' = SetBy(SetPhase(Lives, "stopped"), None)
      BY <1>1, <2>1, LifeChanges
    <2>3. /\ Lives["backlog"].by = c /\ ~Lives["backlog"].polling
          /\ Lives["backlog"].phase = "stopping"
      BY <1>6, LifeFields DEF PollerClosed, PollerIdle, MutexHolder, Phase, IsPolling
    <2> QED
      BY <2>2, <2>3 DEF Contract!Returns, SetPhase, SetBy
  <1>7. CASE PollerClosed(c) /\ pc[c] = "close"
    <2>1. Phase' = Phase /\ mutex' = mutex /\ Attached' = Attached
      BY <1>1, <1>7 DEF PollerClosed, CloseBroadcaster, MutexHolder, Phase
    <2> QED
      BY <1>1, <2>1, LifeChanges
  <1>8. CASE CloseBroadcaster(c)
    <2>1. Phase' = "closed" /\ mutex' = None
      BY <1>8 DEF CloseBroadcaster, MutexHolder, Phase
    <2>2. Attached' = {}
      BY <1>8 DEF CloseBroadcaster, Channels, Listed, Attached
    <2>3. Lives' = SetAttached(SetBy(SetPhase(Lives, "closed"), None), {})
      BY <1>1, <2>1, <2>2, LifeChanges
    <2>4. /\ Lives["backlog"].by = c /\ ~Lives["backlog"].polling
          /\ Lives["backlog"].phase = "closing"
      BY <1>8, MonitorAssumption, LifeFields
      DEF CloseBroadcaster, MutexHolder, Polling, Phase, IsPolling
    <2> QED
      BY <2>3, <2>4 DEF Contract!Returns, SetPhase, SetBy, SetAttached
  <1> QED
    BY <1>2, <1>3, <1>4, <1>5, <1>6, <1>7, <1>8 DEF CallerStep, Return, PollerClosed

(* The end of a poll that nothing has stalled. *)
LEMMA PollEnding ==
    ASSUME Phase' = Phase, mutex' = mutex, Attached' = Attached, StalledBy' = StalledBy,
           StalledBy = "no", IsPolling, ~IsPolling'
    PROVE  Contract!PollEnds("backlog")
  <1> DEFINE no == FALSE
  <1>1. IsPolling' = no
    OBVIOUS
  <1> HIDE DEF no
  <1>2. Lives' = SetPolling(Lives, no)
    BY <1>1, LifeChanges
  <1>3. Lives["backlog"].polling /\ Lives["backlog"].stalled = "no"
    BY LifeFields
  <1> QED
    BY <1>2, <1>3 DEF Contract!PollEnds, SetPolling, no

(* A step of the poller, of the worker or of a computation: a poll begins only
   while the monitor is running, and ends unless it has stalled. *)
LEMMA PollSimulates ==
    ASSUME IndInv, IndInv',
           \/ Tick \/ StartInvocation \/ Timeout \/ WorkerStep
           \/ \E k \in Conns : ComputeStep(k)
    PROVE  \/ Lives' = Lives \/ Stalling
           \/ Contract!PollBegins("backlog") \/ Contract!PollEnds("backlog")
  <1>1. TypeOK /\ TypeOK' /\ Rounds
    BY DEF IndInv
  <1>2. UNCHANGED <<callerVars, bcVars>>
    BY DEF Tick, StartInvocation, Timeout, WorkerStep, PollCheck, BroadcastLock, BroadcastSend,
           PollReturns, ComputeStep, ComputeStart, QueryReturns, QueryIsLost, ComputeSend
  <1>3. Phase' = Phase /\ mutex' = mutex
    BY <1>2 DEF callerVars, Phase
  <1>4. Attached' = Attached
    BY <1>2 DEF IndInv, Channels, Listed, bcVars, Attached
  <1>5. CASE Tick \/ Timeout
    <2>1. StalledBy' = StalledBy /\ IsPolling' = IsPolling
      BY <1>5 DEF Tick, Timeout, StalledBy, Stalled, Stuck, HasRoom, IsPolling, roundVars
    <2> QED
      BY <1>3, <1>4, <2>1, LifeChanges
  <1>6. CASE StartInvocation
    <2>1. CASE poll' = poll
      <3>1. StalledBy' = StalledBy /\ IsPolling' = IsPolling
        BY <1>6, <2>1 DEF StartInvocation, StalledBy, Stalled, Stuck, HasRoom, IsPolling
      <3> QED
        BY <1>3, <1>4, <3>1, LifeChanges
    <2>2. CASE poll.at = "none" /\ poll'.at = "check"
      <3> DEFINE yes == TRUE
      <3>1. StalledBy' = StalledBy /\ IsPolling' = yes
        BY <1>6, <2>2, StallsInBroadcast DEF StartInvocation, StalledBy, IsPolling
      <3> HIDE DEF yes
      <3>2. Lives' = SetPolling(Lives, yes)
        BY <1>3, <1>4, <3>1, LifeChanges
      <3>3. Phase = "running"
        BY <1>6 DEF StartInvocation, IndInv, Polling, MutexHolder, Phase
      <3>4. Lives["backlog"].phase = "running" /\ ~Lives["backlog"].polling
        BY <2>2, <3>3, LifeFields DEF IsPolling
      <3> QED
        BY <3>2, <3>4 DEF Contract!PollBegins, SetPolling, yes
    <2> QED
      BY <1>1, <1>6, <2>1, <2>2, PollMoves
  <1>7. CASE PollCheck \/ PollReturns
    <2>1. poll.at \in {"check", "compute"} /\ poll'.at \in {"none", "lock"}
      BY <1>1, <1>7, PollMoves
    <2>2. StalledBy' = StalledBy /\ StalledBy = "no" /\ IsPolling
      <3>1. ~Lost /\ UNCHANGED comp
        BY <1>1, <1>7 DEF PollCheck, PollReturns, Lost, Rounds
      <3>2. Lost' = Lost
        BY <3>1 DEF Lost
      <3> QED
        BY <2>1, <3>1, <3>2, StallsInBroadcast, StallsInPoll DEF IsPolling
    <2>3. CASE poll'.at = "none"
      BY <1>3, <1>4, <2>2, <2>3, PollEnding DEF IsPolling
    <2>4. CASE poll'.at = "lock"
      <3>1. IsPolling' = IsPolling
        BY <2>1, <2>4 DEF IsPolling
      <3> QED
        BY <1>3, <1>4, <2>2, <3>1, LifeChanges
    <2> QED
      BY <2>1, <2>3, <2>4
  <1>8. CASE BroadcastLock \/ BroadcastSend
    <2>1. poll.at \in {"lock", "broadcast"} /\ poll'.at \in {"broadcast", "compute"}
      BY <1>1, <1>8, PollMoves
    <2>2. IsPolling' = IsPolling
      BY <2>1 DEF IsPolling
    <2>3. ~Stalled
      BY <1>8 DEF BroadcastLock, BroadcastSend, Stalled
    <2>4. ~Lost
      BY <1>1, <2>1 DEF Lost, Rounds
    <2>5. ~Lost'
      <3>1. UNCHANGED comp \/ \A k \in Conns : comp'[k].at = "spawned"
        BY <1>8 DEF BroadcastLock, BroadcastSend, SpawnComputes
      <3> QED
        BY <2>4, <3>1 DEF Lost
    <2>6. Lost' = Lost
      BY <2>4, <2>5, StallsInPoll
    <2> QED
      BY <1>3, <1>4, <2>2, <2>3, <2>6, Stalls
  <1>9. ASSUME NEW k \in Conns, ComputeStep(k)
        PROVE  Lives' = Lives \/ Stalling
    <2>1. UNCHANGED poll /\ comp[k].at # "none"
      BY <1>9 DEF ComputeStep, ComputeStart, QueryReturns, QueryIsLost, ComputeSend
    <2>2. poll.at = "compute"
      BY <1>1, <2>1 DEF Rounds
    <2>3. ~Stalled /\ ~Stalled' /\ IsPolling' = IsPolling /\ IsPolling
      BY <2>1, <2>2, StallsInBroadcast DEF IsPolling
    <2>4. /\ \A j \in Conns : j # k => comp'[j] = comp[j]
          /\ comp[k].at # "lost"
          /\ comp'[k].at = "lost" => QueryIsLost(k)
      BY <1>1, <1>9, ComputeMoves DEF ComputeStep
    <2>5. CASE Lost' = Lost
      <3>1. StalledBy' = StalledBy
        BY <2>3, <2>5, StallsInPoll
      <3> QED
        BY <1>3, <1>4, <2>3, <3>1, LifeChanges
    <2>6. CASE ~Lost /\ Lost'
      <3>1. StalledBy = "no" /\ StalledBy' = "query"
        BY <2>3, <2>6, StallsInPoll
      <3> QED
        BY <1>3, <1>4, <2>3, <3>1, Causing DEF Contract!Causes
    <2>7. Lost => Lost'
      BY <2>4 DEF Lost
    <2> QED
      BY <2>5, <2>6, <2>7, StallsInPoll
  <1> QED
    BY <1>5, <1>6, <1>7, <1>8, <1>9 DEF WorkerStep

(* A step of a listener: Listen attaches its channel to a monitor that is not
   closed, Unlisten detaches it, and a listener that stops receiving may stall the
   broadcast. *)
LEMMA ListenerSimulates ==
    ASSUME IndInv, IndInv', NEW l \in Listeners, ListenerStep(l)
    PROVE  \/ Lives' = Lives \/ Stalling
           \/ Contract!Listen("backlog", l) \/ Contract!Unlisten("backlog", l)
  <1>1. TypeOK /\ Channels /\ Rounds /\ updates \in Seq(Listeners)
    BY DEF IndInv, TypeOK
  <1>2. UNCHANGED <<callerVars, poll, updates, comp>>
    BY DEF ListenerStep, Consume, Listen, Unlisten, Receive, ListenToUpdate, RangeEnds,
           BeginUnlisten, roundVars
  <1>3. /\ Phase' = Phase /\ mutex' = mutex /\ IsPolling' = IsPolling
        /\ Lost' = Lost
    BY <1>2 DEF callerVars, Phase, IsPolling, Lost
  <1>4. CASE Listen(l)
    <2>1. StalledBy' = StalledBy
      BY <1>2, <1>3, <1>4, StallsInBroadcast, StallsInPoll DEF Listen, BroadcasterFree
    <2>2. /\ ~chan[l].open /\ chan'[l].open
          /\ \A m \in Listeners : m # l => chan'[m] = chan[m]
      <3>1. consumer[l].at = "out"
        BY <1>4 DEF Listen
      <3> QED
        BY <1>1, <1>4, <3>1, ConsumerEffects DEF Channels
    <2>3. Attached' = Attached \cup {l} /\ l \notin Attached
      BY <2>2 DEF Attached
    <2>4. Lives' = SetAttached(Lives, Attached \cup {l})
      BY <1>3, <2>1, <2>3, LifeChanges
    <2>5. Phase # "closed"
      BY <1>1, <1>4 DEF Listen, Phase, Channels, TypeOK
    <2>6. /\ Lives["backlog"].phase # "closed" /\ Lives["backlog"].attached = Attached
      BY <2>5, LifeFields
    <2> QED
      BY <2>3, <2>4, <2>6 DEF Contract!Listen, SetAttached
  <1>5. CASE Unlisten(l)
    <2>1. StalledBy' = StalledBy
      BY <1>2, <1>3, <1>5, StallsInBroadcast, StallsInPoll DEF Unlisten, BroadcasterFree
    <2>2. /\ ~chan'[l].open
          /\ \A m \in Listeners : m # l => chan'[m] = chan[m]
      <3>1. consumer[l].at = "unlisten"
        BY <1>5 DEF Unlisten
      <3> QED
        BY <1>1, <1>5, <3>1, ConsumerEffects
    <2>3. Attached' = Attached \ {l}
      BY <2>2 DEF Attached
    <2>4. CASE l \notin Attached
      <3>1. Attached' = Attached
        BY <2>3, <2>4
      <3> QED
        BY <1>3, <2>1, <3>1, LifeChanges
    <2>5. CASE l \in Attached
      <3>1. Lives' = SetAttached(Lives, Attached \ {l})
        BY <1>3, <2>1, <2>3, LifeChanges
      <3>2. Lives["backlog"].attached = Attached
        BY LifeFields
      <3> QED
        BY <2>5, <3>1, <3>2 DEF Contract!Unlisten, SetAttached
    <2> QED
      BY <2>4, <2>5
  <1>6. CASE Receive(l) \/ ListenToUpdate(l) \/ RangeEnds(l) \/ BeginUnlisten(l)
    <2>1. /\ chan'[l].open = chan[l].open
          /\ \A m \in Listeners : m # l => chan'[m] = chan[m] /\ consumer'[m] = consumer[m]
      BY <1>1, <1>6, ConsumerEffects
    <2>2. Attached' = Attached
      BY <2>1 DEF Attached
    <2>3. ~Stuck(l)
      BY <1>6 DEF Receive, ListenToUpdate, RangeEnds, BeginUnlisten, Stuck
    <2>4. Stalled => Stalled'
      <3> SUFFICES ASSUME Stalled PROVE Stalled'
        OBVIOUS
      <3>1. PICK m \in Listeners : m = updates[poll.next]
        <4>1. poll.next \in DOMAIN updates
          BY <1>1, StallsInBroadcast DEF Rounds
        <4> QED
          BY <1>1, <4>1, LenProperties, ElementOfSeq
      <3>2. poll.at = "broadcast" /\ Stuck(m) /\ ~HasRoom(m)
        BY <3>1 DEF Stalled
      <3>3. m # l
        BY <2>3, <3>2
      <3>4. Stuck(m)' /\ ~HasRoom(m)'
        BY <2>1, <3>2, <3>3 DEF Stuck, HasRoom
      <3>5. m = updates'[poll'.next] /\ poll'.at = "broadcast"
        BY <1>2, <3>1, <3>2
      <3> QED
        BY <3>4, <3>5 DEF Stalled
    <2> QED
      BY <1>3, <2>2, <2>4, Stalls
  <1> QED
    BY <1>4, <1>5, <1>6 DEF ListenerStep, Consume

(* The backlog monitor implements the safety part of its contract. *)
THEOREM ImplementsLifecycle == Spec => Contract!Spec
  <1>1. ASSUME IndInv, IndInv', [Next]_vars
        PROVE  [Contract!Next]_Lives
    <2>1. CASE UNCHANGED vars
      <3>1. /\ Phase' = Phase /\ mutex' = mutex /\ IsPolling' = IsPolling
            /\ Attached' = Attached /\ StalledBy' = StalledBy
        BY <2>1 DEF vars, callerVars, bcVars, roundVars, Phase, IsPolling, Attached, StalledBy,
                    Stalled, Stuck, HasRoom
      <3> QED
        BY <3>1, LifeChanges
    <2>2. ASSUME NEW c \in Callers, CallerStep(c)
          PROVE  [Contract!Next]_Lives
      BY <1>1, <2>2, CallerSimulates DEF Contract!Next
    <2>3. CASE \/ Tick \/ StartInvocation \/ Timeout \/ WorkerStep
               \/ \E k \in Conns : ComputeStep(k)
      BY <1>1, <2>3, PollSimulates DEF Contract!Next, Stalling
    <2>4. ASSUME NEW l \in Listeners, ListenerStep(l)
          PROVE  [Contract!Next]_Lives
      BY <1>1, <2>4, ListenerSimulates DEF Contract!Next, Stalling
    <2> QED
      BY <1>1, <2>1, <2>2, <2>3, <2>4 DEF Next
  <1> QED
    BY <1>1, Invariance, InitSimulates, PTL DEF Spec, Contract!Spec
=============================================================================
