-------------------------------- MODULE Cache -------------------------------
(***************************************************************************)
(* cache/cache.go: an expiring cache whose misses share one lookup per key *)
(* and whose expired entries a cleanup goroutine removes.                  *)
(*                                                                         *)
(* The processes are the callers of Lookup, Value, Set, Evict and Close,   *)
(* the retrieve() goroutines, each named after the caller whose Lookup     *)
(* started it, and the cleanup() goroutine.  No section under cache.m      *)
(* blocks, so each is one action; `lock' only records what the early       *)
(* returns that skip the unlock leave behind.                              *)
(***************************************************************************)
EXTENDS Naturals, FiniteSets, Sequences, SequencesExt

CONSTANTS
    Keys,          \* cache keys
    Callers,       \* goroutines that call the cache
    None,          \* nil
    Duration,      \* cache.d
    MaxTime,       \* bound on the clock
    MaxValues      \* bound on the values that lookups and callers make

Time == 0 .. MaxTime
Values == 1 .. MaxValues
Entries == [ts : Time, val : Values]

ASSUME CacheAssumption ==
    /\ IsFiniteSet(Callers)
    /\ None \notin Keys \cup Callers \cup Values
    /\ None \notin Entries
    /\ Duration \in Nat
    /\ MaxTime \in Nat
    /\ MaxValues \in Nat

VARIABLES
    now,        \* the clock
    lock,       \* cache.m: "free", "leaked" read lock, or "stuck" for good
    closed,     \* cache.closed(): data, pending, log and lookup are nil
    data,       \* cache.data
    pending,    \* cache.pending: the caller that created the entry
    log,        \* cache.log
    cleaning,   \* cache.cleaning
    cleaner,    \* the cleanup() goroutine
    call,       \* what each caller is doing
    ctxDone,    \* callers whose context is done
    retrieval,  \* the retrieve() goroutine started by each caller's Lookup
    made,       \* how many values have been made; they are numbered
    released,   \* how often release() was called on each value
    crashed     \* the program has panicked

vars == <<now, lock, closed, data, pending, log, cleaning, cleaner, call,
          ctxDone, retrieval, made, released, crashed>>

Ops == {"idle", "first", "second", "wait", "value", "set", "evict", "close"}

TypeOK ==
    /\ now \in Time
    /\ lock \in {"free", "leaked", "stuck"}
    /\ closed \in BOOLEAN
    /\ data \in [Keys -> Entries \cup {None}]
    /\ pending \in [Keys -> Callers \cup {None}]
    /\ log \in Seq([ts : Time, key : Keys])
    /\ cleaning \in BOOLEAN
    /\ cleaner \in [state : {"off", "top", "sleep", "lock"}, next : Nat, now : Time]
    /\ call \in [Callers -> [op : Ops, key : Keys \cup {None}, ts : Time,
                             entry : Callers \cup {None}]]
    /\ ctxDone \in SUBSET Callers
    /\ retrieval \in [Callers -> [state : {"none", "start", "looking", "store", "abandoned"},
                                  key : Keys \cup {None}, ts : Time,
                                  val : Values \cup {None}]]
    /\ made \in 0 .. MaxValues
    /\ released \in [Values -> Nat]
    /\ crashed \in BOOLEAN

Idle == [op |-> "idle", key |-> None, ts |-> 0, entry |-> None]
NoRetrieval == [state |-> "none", key |-> None, ts |-> 0, val |-> None]
NoCleaner == [state |-> "off", next |-> 0, now |-> 0]
NoData == [k \in Keys |-> None]

Init ==
    /\ now = 0
    /\ lock = "free"
    /\ closed = FALSE
    /\ data = NoData
    /\ pending = NoData
    /\ log = <<>>
    /\ cleaning = FALSE
    /\ cleaner = NoCleaner
    /\ call = [c \in Callers |-> Idle]
    /\ ctxDone = {}
    /\ retrieval = [c \in Callers |-> NoRetrieval]
    /\ made = 0
    /\ released = [v \in Values |-> 0]
    /\ crashed = FALSE

(* The bound leaves room for one more value than the Sets under way bring. *)
Room == made + Cardinality({c \in Callers : call[c].op = "set"}) < MaxValues

CanRead == ~crashed /\ lock # "stuck"
CanWrite == ~crashed /\ lock = "free"

-----------------------------------------------------------------------------
(* Helpers that need the lock *)

(* value(k): an entry that has not expired. *)
Found(k) == data[k] # None /\ data[k].ts + Duration > now

(* release(v) for the value of every entry under the given keys. *)
Release(ks) ==
    released' = [v \in Values |->
                    IF \E k \in ks : data[k] # None /\ data[k].val = v
                    THEN released[v] + 1 ELSE released[v]]

(* spawnCleanup *)
SpawnCleanup(newLog) ==
    IF newLog # <<>> /\ ~cleaning
    THEN /\ cleaning' = TRUE
         /\ cleaner' = [state |-> "top", next |-> newLog[1].ts, now |-> 0]
    ELSE UNCHANGED <<cleaning, cleaner>>

ReplacedNothing(k) == {}
(* The entries that set(k) deletes. *)
Replaced(k) == {k}

(* set(ts, k, v) *)
SetEntry(ts, k, v) ==
    LET newLog == Append(log, [ts |-> ts, key |-> k]) IN
    /\ Release(Replaced(k))
    /\ data' = [data EXCEPT ![k] = [ts |-> ts, val |-> v]]
    /\ log' = newLog
    /\ SpawnCleanup(newLog)

-----------------------------------------------------------------------------
(* Calls.  Set takes its timestamp before it locks. *)

Begin(c, op, k) ==
    /\ ~crashed
    /\ call[c] = Idle
    /\ call' = [call EXCEPT ![c] = [op |-> op, key |-> k, entry |-> None,
                                    ts |-> IF op = "set" THEN now ELSE 0]]
    /\ UNCHANGED <<now, lock, closed, data, pending, log, cleaning, cleaner,
                   ctxDone, retrieval, made, released, crashed>>

BeginLookup(c) == \E k \in Keys : Begin(c, "first", k)
BeginSet(c) == Room /\ \E k \in Keys : Begin(c, "set", k)
BeginValue(c) == Begin(c, "value", None)    \* whatever its key, it changes no entry
BeginEvict(c) == Begin(c, "evict", None)
BeginClose(c) == Begin(c, "close", None)

Return(c) == call' = [call EXCEPT ![c] = Idle] /\ ctxDone' = ctxDone \ {c}

(* Value: on a closed cache it returns without RUnlock. *)
Value(c) ==
    /\ CanRead
    /\ call[c].op = "value"
    /\ lock' = IF closed THEN "leaked" ELSE lock
    /\ Return(c)
    /\ UNCHANGED <<now, closed, data, pending, log, cleaning, cleaner,
                   retrieval, made, released, crashed>>

(* The first attempt of Lookup: the same on a closed cache. *)
FirstAttempt(c) ==
    /\ CanRead
    /\ call[c].op = "first"
    /\ \/ /\ closed
          /\ lock' = "leaked"
          /\ Return(c)
       \/ /\ ~closed
          /\ Found(call[c].key)
          /\ Return(c)
          /\ UNCHANGED lock
       \/ /\ ~closed
          /\ ~Found(call[c].key)
          /\ call' = [call EXCEPT ![c].op = "second"]
          /\ UNCHANGED <<lock, ctxDone>>
    /\ UNCHANGED <<now, closed, data, pending, log, cleaning, cleaner,
                   retrieval, made, released, crashed>>

JoinsNothing(k) == FALSE
(* pend: there is a pending entry to wait for. *)
Joins(k) == pending[k] # None

(* The second attempt of Lookup: on a closed cache it returns without Unlock,
   on a miss it waits for the pending entry, or for a new one. *)
SecondAttempt(c) ==
    LET k == call[c].key IN
    /\ CanWrite
    /\ call[c].op = "second"
    /\ \/ /\ closed
          /\ lock' = "stuck"
          /\ Return(c)
          /\ UNCHANGED <<pending, retrieval>>
       \/ /\ ~closed
          /\ Found(k)
          /\ Return(c)
          /\ UNCHANGED <<lock, pending, retrieval>>
       \/ /\ ~closed
          /\ ~Found(k)
          /\ Joins(k)
          /\ call' = [call EXCEPT ![c] = [@ EXCEPT !.op = "wait", !.entry = pending[k]]]
          /\ UNCHANGED <<lock, ctxDone, pending, retrieval>>
       \/ /\ ~closed
          /\ ~Found(k)
          /\ ~Joins(k)
          /\ pending' = [pending EXCEPT ![k] = c]
          /\ retrieval' = [retrieval EXCEPT ![c] =
                              [NoRetrieval EXCEPT !.state = "start", !.key = k]]
          /\ call' = [call EXCEPT ![c] = [@ EXCEPT !.op = "wait", !.entry = c]]
          /\ UNCHANGED <<lock, ctxDone>>
    /\ UNCHANGED <<now, closed, data, log, cleaning, cleaner, made, released, crashed>>

(* Set *)
Set(c) ==
    /\ CanWrite
    /\ call[c].op = "set"
    /\ \/ /\ closed
          /\ UNCHANGED <<data, log, cleaning, cleaner, made, released>>
       \/ /\ ~closed
          /\ made' = made + 1
          /\ SetEntry(call[c].ts, call[c].key, made + 1)
    /\ Return(c)
    /\ UNCHANGED <<now, lock, closed, pending, retrieval, crashed>>

KeptData == data
(* data = make(map[Key]*cacheEntry) *)
EmptiedData == NoData

(* Evict *)
Evict(c) ==
    /\ CanWrite
    /\ call[c].op = "evict"
    /\ \/ /\ closed
          /\ UNCHANGED <<data, log, released>>
       \/ /\ ~closed
          /\ Release(Keys)
          /\ data' = EmptiedData
          /\ log' = <<>>
    /\ Return(c)
    /\ UNCHANGED <<now, lock, closed, pending, cleaning, cleaner, retrieval, made, crashed>>

(* Close *)
Close(c) ==
    /\ CanWrite
    /\ call[c].op = "close"
    /\ \/ /\ closed
          /\ UNCHANGED <<closed, data, pending, log, released>>
       \/ /\ ~closed
          /\ closed' = TRUE
          /\ Release(Keys)
          /\ data' = NoData
          /\ pending' = NoData
          /\ log' = <<>>
    /\ Return(c)
    /\ UNCHANGED <<now, lock, cleaning, cleaner, retrieval, made, crashed>>

(* With a read lock leaked, the first call of Lock waits for good, and from
   then on keeps every reader out. *)
Writers == {c \in Callers : call[c].op \in {"second", "set", "evict", "close"}}
WriterBlocks ==
    /\ ~crashed
    /\ lock = "leaked"
    /\ \/ Writers # {}
       \/ cleaner.state = "lock"
       \/ \E c \in Callers : retrieval[c].state = "store"
    /\ lock' = "stuck"
    /\ UNCHANGED <<now, closed, data, pending, log, cleaning, cleaner, call,
                   ctxDone, retrieval, made, released, crashed>>

(* The context of a Lookup under way is cancelled. *)
CancelContext(c) ==
    /\ ~crashed
    /\ call[c].op \in {"first", "second", "wait"}
    /\ c \notin ctxDone
    /\ ctxDone' = ctxDone \cup {c}
    /\ UNCHANGED <<now, lock, closed, data, pending, log, cleaning, cleaner,
                   call, retrieval, made, released, crashed>>

-----------------------------------------------------------------------------
(* retrieve() *)

(* A cancelled context makes it return, leaving its pending entry and the
   WaitGroup as they are.  cache.lookup is read without the lock: it is nil
   once the cache is closed. *)
RetrieveStart(c) ==
    /\ ~crashed
    /\ retrieval[c].state = "start"
    /\ \/ /\ c \in ctxDone
          /\ retrieval' = [retrieval EXCEPT ![c].state = "abandoned"]
          /\ UNCHANGED crashed
       \/ /\ c \notin ctxDone
          /\ closed
          /\ crashed' = TRUE
          /\ UNCHANGED retrieval
       \/ /\ c \notin ctxDone
          /\ ~closed
          /\ retrieval' = [retrieval EXCEPT ![c].state = "looking"]
          /\ UNCHANGED crashed
    /\ UNCHANGED <<now, lock, closed, data, pending, log, cleaning, cleaner,
                   call, ctxDone, made, released>>

(* The time is taken, for the value that cache.lookup brought, if any. *)
Brings(c, val) ==
    retrieval' = [retrieval EXCEPT ![c] =
                    [state |-> "store", key |-> @.key, ts |-> now, val |-> val]]

(* cache.lookup returns a new value, or an error. *)
LookupReturns(c) ==
    /\ ~crashed
    /\ retrieval[c].state = "looking"
    /\ \/ Room /\ made' = made + 1 /\ Brings(c, made + 1)
       \/ Brings(c, None) /\ UNCHANGED made
    /\ UNCHANGED <<now, lock, closed, data, pending, log, cleaning, cleaner,
                   call, ctxDone, released, crashed>>

WokenOnSuccess(c) == {d \in Callers : call[d].entry = c /\ retrieval[c].val # None}
(* The callers that p.WG.Done() lets return. *)
Woken(c) == {d \in Callers : call[d].entry = c}

(* What the lookup brought is stored unless it failed or the cache is closed. *)
Cacheable(r) == ~closed /\ r.val # None

(* The rest of retrieve, down to p.WG.Done(). *)
RetrieveStore(c) ==
    LET r == retrieval[c] IN
    /\ CanWrite
    /\ r.state = "store"
    /\ IF Cacheable(r)
       THEN SetEntry(r.ts, r.key, r.val)
       ELSE UNCHANGED <<data, log, cleaning, cleaner, released>>
    /\ pending' = IF closed THEN pending ELSE [pending EXCEPT ![r.key] = None]
    /\ retrieval' = [retrieval EXCEPT ![c] = NoRetrieval]
    /\ call' = [d \in Callers |-> IF d \in Woken(c) THEN Idle ELSE call[d]]
    /\ ctxDone' = ctxDone \ Woken(c)
    /\ UNCHANGED <<now, lock, closed, made, crashed>>

-----------------------------------------------------------------------------
(* cleanup() *)

(* now := time.Now(), and the timer if next is later. *)
CleanupTop ==
    /\ ~crashed
    /\ cleaner.state = "top"
    /\ cleaner' = IF cleaner.next > now
                  THEN [cleaner EXCEPT !.state = "sleep"]
                  ELSE [state |-> "lock", next |-> 0, now |-> now]
    /\ UNCHANGED <<now, lock, closed, data, pending, log, cleaning, call,
                   ctxDone, retrieval, made, released, crashed>>

(* <-time.After(remaining), then now = time.Now(). *)
CleanupWake ==
    /\ ~crashed
    /\ cleaner.state = "sleep"
    /\ cleaner.next <= now
    /\ cleaner' = [state |-> "lock", next |-> 0, now |-> now]
    /\ UNCHANGED <<now, lock, closed, data, pending, log, cleaning, call,
                   ctxDone, retrieval, made, released, crashed>>

DueOneEarly(e) == e.ts + Duration <= cleaner.now + 1
(* validate's first test: the record at the head is not for later. *)
Due(e) == e.ts + Duration <= cleaner.now

(* validate's second test, on the entry itself. *)
Expired(k) == data[k] # None /\ data[k].ts + Duration < cleaner.now

(* cache.cleaning = false *)
StopsCleaning == FALSE

(* The locked section of the loop: validate(now), and the exit of the
   goroutine when the log is empty. *)
CleanupValidate ==
    LET later   == {i \in DOMAIN log : ~Due(log[i])}
        passed  == IF later = {} THEN Len(log)
                   ELSE (CHOOSE i \in later : \A j \in later : i <= j) - 1
        dropped == {k \in Keys : Expired(k) /\ \E i \in 1 .. passed : log[i].key = k}
        rest    == SubSeq(log, passed + 1, Len(log))
    IN
    /\ CanWrite
    /\ cleaner.state = "lock"
    /\ Release(dropped)
    /\ data' = [k \in Keys |-> IF k \in dropped THEN None ELSE data[k]]
    /\ log' = rest
    /\ \/ /\ rest # <<>>
          /\ cleaner' = [state |-> "top", next |-> Head(rest).ts + Duration, now |-> 0]
          /\ UNCHANGED cleaning
       \/ /\ rest = <<>>
          /\ cleaner' = NoCleaner
          /\ cleaning' = StopsCleaning
    /\ UNCHANGED <<now, lock, closed, pending, call, ctxDone, retrieval, made, crashed>>

Tick ==
    /\ ~crashed
    /\ now < MaxTime
    /\ now' = now + 1
    /\ UNCHANGED <<lock, closed, data, pending, log, cleaning, cleaner, call,
                   ctxDone, retrieval, made, released, crashed>>

-----------------------------------------------------------------------------
Proceed(c) ==
    \/ Value(c)
    \/ FirstAttempt(c)
    \/ SecondAttempt(c)
    \/ Set(c)
    \/ Evict(c)
    \/ Close(c)
    \/ RetrieveStart(c)
    \/ LookupReturns(c)
    \/ RetrieveStore(c)

CleanupStep == CleanupTop \/ CleanupWake \/ CleanupValidate

Next ==
    \/ \E c \in Callers :
          \/ BeginLookup(c) \/ BeginSet(c) \/ BeginValue(c)
          \/ BeginEvict(c) \/ BeginClose(c)
          \/ CancelContext(c)
    \/ \E c \in Callers : Proceed(c)
    \/ CleanupStep
    \/ WriterBlocks
    \/ Tick

Spec == Init /\ [][Next]_vars

(* Goroutines run, sync.RWMutex keeps nobody waiting while it is free, and the
   lookup function returns.  Nobody has to call, cancel or close. *)
FairSpec == Spec /\ \A c \in Callers : WF_vars(Proceed(c))

-----------------------------------------------------------------------------
(* Properties *)

(* No value is released twice, and none is released while the cache still
   hands it out: Evict, Close, set and validate never meet on an entry. *)
CachedValuesAreLive ==
    /\ \A v \in Values : released[v] <= 1
    /\ \A k \in Keys : data[k] # None => released[data[k].val] = 0

(* A value that leaves the cache, by whatever operation, is released. *)
LeavingIsReleasing ==
    [][\A k \in Keys :
          data[k] # None /\ data'[k] # data[k] => released'[data[k].val] = 1]_vars

(* One lookup at a time for each key, however many callers miss it, and over
   Evict and Close. *)
SingleFlight ==
    \A c, d \in Callers :
        /\ retrieval[c].state \in {"start", "looking", "store"}
        /\ retrieval[d].state \in {"start", "looking", "store"}
        /\ retrieval[c].key = retrieval[d].key
        => c = d

(* Every entry that is still to expire awaits its cleanup: its record is in the
   log, even if Sets that took their time before the lock put the log out of
   order, and a cleanup() goroutine is there to process it, which never exits
   just before an entry that relies on it is set. *)
EntriesAwaitCleanup ==
    /\ \A k \in Keys : Found(k) => Contains(log, [ts |-> data[k].ts, key |-> k])
    /\ log # <<>> => cleaning /\ cleaner.state # "off"

(* A call never returns only if it waits for a lock that was not released or
   for a retrieve() that gave up. *)
Lost(c) ==
    \/ crashed
    \/ lock # "free"
    \/ call[c].op = "wait" /\ retrieval[call[c].entry].state = "abandoned"

(* Lookup, Value, Set, Evict and Close return, but for the calls that are
   lost: those meet a lock leaked on a closed cache or an abandoned lookup. *)
CallsReturnOrAreLost ==
    \A c \in Callers : call[c].op # "idle" ~> (call[c].op = "idle" \/ Lost(c))
=============================================================================
