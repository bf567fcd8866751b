---------------------------- MODULE Cache_proofs ----------------------------
(***************************************************************************)
(* Proofs about Cache, for any keys and any finite number of callers, and  *)
(* for any bounds on the clock and on the values.                          *)
(*                                                                         *)
(* A value passes from the lookup that made it into the cache, and out of  *)
(* it by one of four operations: the proof keeps track of the one place    *)
(* where each value is.  A retrieve() goroutine belongs to the caller that *)
(* waits for it, and to the pending entry that keeps others from starting  *)
(* a second one.                                                           *)
(***************************************************************************)
EXTENDS Cache, SequenceTheorems, FiniteSetTheorems, WellFoundedInduction, TLAPS

CallType == [op : Ops, key : Keys \cup {None}, ts : Time, entry : Callers \cup {None}]
RetrievalType == [state : {"none", "start", "looking", "store", "abandoned"},
                  key : Keys \cup {None}, ts : Time, val : Values \cup {None}]

Setters == {c \in Callers : call[c].op = "set"}

(* The bound on the values leaves room for those of the Sets under way. *)
RoomKept == made + Cardinality(Setters) <= MaxValues

(* Whoever needs a key has one. *)
KeysKnown ==
    \A c \in Callers :
        /\ call[c].op \in {"first", "second", "set"} => call[c].key # None
        /\ retrieval[c].state # "none" => retrieval[c].key # None

(* A caller waits for a pending entry, and only in "wait"; the retrieve() that
   its own Lookup started works for the entry that it waits for. *)
WaitsForEntry ==
    \A c \in Callers :
        /\ call[c].op = "wait" <=> call[c].entry # None
        /\ retrieval[c].state # "none" => call[c].entry = c

(* Until the cache is closed, the pending entry of a key is the one that the
   retrieve() for that key has been started with. *)
EntryPending ==
    ~closed => \A c \in Callers :
                  retrieval[c].state # "none" => pending[retrieval[c].key] = c

(* Where the values are: none beyond the last one made is anywhere, and no two
   entries and retrievals have the same one. *)
ValuesApart ==
    /\ \A v \in Values : v > made => released[v] = 0
    /\ \A k \in Keys : data[k] # None => data[k].val <= made
    /\ \A k, l \in Keys :
          data[k] # None /\ data[l] # None /\ data[k].val = data[l].val => k = l
    /\ \A c \in Callers : retrieval[c].val # None =>
          /\ retrieval[c].state = "store"
          /\ retrieval[c].val <= made
          /\ released[retrieval[c].val] = 0
          /\ \A k \in Keys : data[k] # None => data[k].val # retrieval[c].val
          /\ \A d \in Callers : retrieval[d].val = retrieval[c].val => d = c

(* The cleanup() goroutine is there when cache.cleaning says so, and it does
   not run ahead of the clock. *)
CleanerRuns ==
    /\ cleaning <=> cleaner.state # "off"
    /\ cleaner.now <= now

(* Which call each goroutine works for. *)
CallsMatch ==
    /\ KeysKnown
    /\ WaitsForEntry
    /\ EntryPending
    /\ SingleFlight

IndInv ==
    /\ TypeOK
    /\ RoomKept
    /\ CallsMatch
    /\ ValuesApart
    /\ CleanerRuns
    /\ CachedValuesAreLive
    /\ EntriesAwaitCleanup

(* The invariant but for the room of the bound, which concerns all callers. *)
CoreInv ==
    /\ TypeOK
    /\ CallsMatch
    /\ ValuesApart
    /\ CleanerRuns
    /\ CachedValuesAreLive
    /\ EntriesAwaitCleanup

(* What LeavingIsReleasing says of one step. *)
Leaving ==
    \A k \in Keys :
       data[k] # None /\ data'[k] # data[k] => released'[data[k].val] = 1

-----------------------------------------------------------------------------
(* The first of the records that are not due. *)
LEMMA SmallestMember ==
    ASSUME NEW S \in SUBSET Nat, S # {}
    PROVE  \E m \in S : \A n \in S : m <= n
<1> DEFINE Below == {ss \in Nat \X Nat : ss[1] < ss[2]}
<1>1. IsWellFoundedOn(Below, Nat)
  BY NatLessThanWellFounded, Zenon DEF OpToRel
<1>2. S \subseteq Nat
  OBVIOUS
<1> HIDE DEF Below
<1>3. PICK m \in S : \A n \in S : ~(<<n, m>> \in Below)
  BY <1>1, <1>2, WFMin
<1>4. ASSUME NEW n \in S PROVE m <= n
  <2>1. n \in Nat /\ m \in Nat
    OBVIOUS
  <2>2. <<n, m>> \notin Below
    BY <1>3
  <2>3. ~(n < m)
    BY <2>1, <2>2 DEF Below
  <2>4. QED
    BY <2>1, <2>3
<1>5. QED
  BY <1>4

(* release() on entries of the cache, none of which has been released: their
   values are released once, and no others. *)
LEMMA ReleaseOnce ==
    ASSUME TypeOK, CachedValuesAreLive, NEW ks \in SUBSET Keys, Release(ks)
    PROVE  /\ released' \in [Values -> Nat]
           /\ \A v \in Values : released'[v] <= 1
           /\ \A k \in ks : data[k] # None => released'[data[k].val] = 1
           /\ \A v \in Values :
                 (\A k \in ks : data[k] # None => data[k].val # v) => released'[v] = released[v]
<1>1. released \in [Values -> Nat] /\ data \in [Keys -> Entries \cup {None}]
  BY DEF TypeOK
<1>2. /\ \A v \in Values : released[v] <= 1
      /\ \A k \in Keys : data[k] # None => released[data[k].val] = 0
  BY DEF CachedValuesAreLive
<1>3. \A v \in Values :
         released'[v] = IF \E k \in ks : data[k] # None /\ data[k].val = v
                        THEN released[v] + 1 ELSE released[v]
  BY DEF Release
<1>4. released' \in [Values -> Nat]
  BY <1>1 DEF Release
<1>5. \A k \in Keys : data[k] # None => data[k].val \in Values
  BY <1>1 DEF Entries
<1>6. ASSUME NEW v \in Values PROVE released'[v] <= 1
  <2>1. CASE \E k \in ks : data[k] # None /\ data[k].val = v
    BY <2>1, <1>2, <1>3
  <2>2. CASE ~ \E k \in ks : data[k] # None /\ data[k].val = v
    BY <2>2, <1>2, <1>3
  <2>3. QED
    BY <2>1, <2>2
<1>7. ASSUME NEW k \in ks, data[k] # None PROVE released'[data[k].val] = 1
  BY <1>7, <1>2, <1>3, <1>5
<1>8. QED
  BY <1>3, <1>4, <1>6, <1>7

(* spawnCleanup, for a log that is not empty: from then on there is a cleanup()
   goroutine. *)
LEMMA CleanupSpawned ==
    ASSUME TypeOK, CleanerRuns, NEW newLog \in Seq([ts : Time, key : Keys]), newLog # <<>>,
           SpawnCleanup(newLog)
    PROVE  /\ cleaning' = TRUE
           /\ cleaner' \in [state : {"off", "top", "sleep", "lock"}, next : Nat, now : Time]
           /\ cleaner'.state # "off"
           /\ cleaner'.now <= now
<1>1. /\ cleaner \in [state : {"off", "top", "sleep", "lock"}, next : Nat, now : Time]
      /\ cleaning \in BOOLEAN /\ now \in Time
  BY DEF TypeOK
<1>2. Time \subseteq Nat /\ 0 \in Time
  BY CacheAssumption DEF Time
<1>3. newLog[1].ts \in Time
  <2> DEFINE R == [ts : Time, key : Keys]
  <2>1. newLog \in Seq(R) /\ newLog # <<>>
    OBVIOUS
  <2> HIDE DEF R
  <2>2. Len(newLog) \in Nat \ {0} /\ newLog[1] \in R
    BY <2>1, EmptySeq, ElementOfSeq
  <2>3. QED
    BY <2>2 DEF R
<1>4. CASE ~cleaning
  <2>1. cleaning' = TRUE /\ cleaner' = [state |-> "top", next |-> newLog[1].ts, now |-> 0]
    BY <1>4 DEF SpawnCleanup
  <2>2. 0 <= now
    BY <1>1, <1>2
  <2>3. QED
    BY <1>2, <1>3, <2>1, <2>2
<1>5. CASE cleaning
  BY <1>1, <1>5 DEF SpawnCleanup, CleanerRuns
<1>6. QED
  BY <1>4, <1>5

(* A record appended to a log: the others keep their places. *)
LEMMA AppendKeeps ==
    ASSUME NEW S, NEW s \in Seq(S), NEW e \in S
    PROVE  /\ Append(s, e) \in Seq(S)
           /\ Append(s, e) # <<>>
           /\ Contains(Append(s, e), e)
           /\ \A x : Contains(s, x) => Contains(Append(s, e), x)
<1>1. Append(s, e) \in Seq(S) /\ Len(Append(s, e)) = Len(s) + 1 /\ Len(s) \in Nat
  OBVIOUS
<1>2. Append(s, e)[Len(s) + 1] = e /\ \A i \in 1 .. Len(s) : Append(s, e)[i] = s[i]
  OBVIOUS
<1>3. Append(s, e) # <<>>
  BY <1>1
<1>4. Contains(Append(s, e), e)
  BY <1>1, <1>2 DEF Contains
<1>5. ASSUME NEW x, Contains(s, x) PROVE Contains(Append(s, e), x)
  BY <1>1, <1>2, <1>5 DEF Contains
<1>6. QED
  BY <1>1, <1>3, <1>4, <1>5

(* set(): the entry that it replaces is released, the new one has a record in
   the log, and a cleanup() goroutine is there. *)
LEMMA SetEntryKeeps ==
    ASSUME TypeOK, CleanerRuns, ValuesApart, CachedValuesAreLive, EntriesAwaitCleanup,
           NEW ts \in Time, NEW k \in Keys, NEW v \in Values,
           released[v] = 0, \A l \in Keys : data[l] # None => data[l].val # v,
           SetEntry(ts, k, v), now' = now
    PROVE  /\ data' \in [Keys -> Entries \cup {None}]
           /\ data'[k] = [ts |-> ts, val |-> v]
           /\ \A l \in Keys \ {k} : data'[l] = data[l]
           /\ log' \in Seq([ts : Time, key : Keys])
           /\ cleaning' \in BOOLEAN
           /\ cleaner' \in [state : {"off", "top", "sleep", "lock"}, next : Nat, now : Time]
           /\ released' \in [Values -> Nat]
           /\ \A w \in Values : (\A l \in Keys : data[l] # None => data[l].val # w)
                                   => released'[w] = released[w]
           /\ data[k] # None => released'[data[k].val] = 1
           /\ CachedValuesAreLive'
           /\ CleanerRuns'
           /\ EntriesAwaitCleanup'
<1> DEFINE entry == [ts |-> ts, val |-> v]
           record == [ts |-> ts, key |-> k]
<1>1. /\ data \in [Keys -> Entries \cup {None}] /\ log \in Seq([ts : Time, key : Keys])
      /\ released \in [Values -> Nat]
  BY DEF TypeOK
<1>2. /\ Release({k}) /\ data' = [data EXCEPT ![k] = entry] /\ log' = Append(log, record)
      /\ SpawnCleanup(log')
  BY DEF SetEntry, Replaced
<1>3. entry \in Entries /\ record \in [ts : Time, key : Keys]
  BY DEF Entries
<1>4. /\ data' \in [Keys -> Entries \cup {None}] /\ data'[k] = entry
      /\ \A l \in Keys \ {k} : data'[l] = data[l]
  BY <1>1, <1>2, <1>3
<1>5. /\ log' \in Seq([ts : Time, key : Keys]) /\ log' # <<>>
      /\ Contains(log', record)
      /\ \A x : Contains(log, x) => Contains(log', x)
  <2> DEFINE R == [ts : Time, key : Keys]
             rec == record
  <2>1. log \in Seq(R) /\ rec \in R /\ log' = Append(log, rec)
    BY <1>1, <1>2, <1>3
  <2> HIDE DEF R, rec
  <2>2. /\ Append(log, rec) \in Seq(R) /\ Append(log, rec) # <<>>
        /\ Contains(Append(log, rec), rec)
        /\ \A x : Contains(log, x) => Contains(Append(log, rec), x)
    BY <2>1, AppendKeeps
  <2>3. QED
    BY <2>1, <2>2 DEF R, rec
<1>6. /\ cleaning' = TRUE
      /\ cleaner' \in [state : {"off", "top", "sleep", "lock"}, next : Nat, now : Time]
      /\ cleaner'.state # "off"
      /\ cleaner'.now <= now
  <2> DEFINE newLog == Append(log, record)
  <2>1. newLog \in Seq([ts : Time, key : Keys]) /\ newLog # <<>> /\ SpawnCleanup(newLog)
    BY <1>2, <1>5
  <2> HIDE DEF newLog
  <2>2. QED
    BY <2>1, CleanupSpawned
<1>7. /\ released' \in [Values -> Nat]
      /\ \A w \in Values : released'[w] <= 1
      /\ data[k] # None => released'[data[k].val] = 1
      /\ \A w \in Values : (data[k] # None => data[k].val # w) => released'[w] = released[w]
  <2>1. {k} \in SUBSET Keys
    OBVIOUS
  <2> DEFINE ks == {k}
  <2>2. Release(ks)
    BY <1>2
  <2> HIDE DEF ks
  <2>3. /\ released' \in [Values -> Nat]
        /\ \A w \in Values : released'[w] <= 1
        /\ \A l \in ks : data[l] # None => released'[data[l].val] = 1
        /\ \A w \in Values :
              (\A l \in ks : data[l] # None => data[l].val # w) => released'[w] = released[w]
    BY <2>2, <2>1, ReleaseOnce DEF ks
  <2>4. QED
    BY <2>3 DEF ks
<1>8. CachedValuesAreLive'
  <2>1. ASSUME NEW l \in Keys, data'[l] # None PROVE released'[data'[l].val] = 0
    <3>1. CASE l = k
      BY <3>1, <1>1, <1>4, <1>7
    <3>2. CASE l # k
      <4>1. data'[l] = data[l] /\ data[l].val \in Values
        BY <1>1, <1>4, <2>1, <3>2 DEF Entries
      <4>2. released[data[l].val] = 0
        BY <2>1, <4>1 DEF CachedValuesAreLive
      <4>3. data[k] # None => data[k].val # data[l].val
        BY <2>1, <3>2, <4>1 DEF ValuesApart
      <4>4. QED
        BY <1>7, <4>1, <4>2, <4>3
    <3>3. QED
      BY <3>1, <3>2
  <2>2. QED
    BY <1>7, <2>1 DEF CachedValuesAreLive
<1>9. EntriesAwaitCleanup'
  <2>1. ASSUME NEW l \in Keys, Found(l)'
        PROVE  Contains(log', [ts |-> data'[l].ts, key |-> l])
    <3>1. CASE l = k
      BY <3>1, <1>4, <1>5
    <3>2. CASE l # k
      <4>1. data'[l] = data[l]
        BY <1>4, <3>2
      <4>2. Found(l)
        BY <2>1, <4>1 DEF Found
      <4>3. Contains(log, [ts |-> data[l].ts, key |-> l])
        BY <4>2 DEF EntriesAwaitCleanup
      <4>4. QED
        BY <1>5, <4>1, <4>3
    <3>3. QED
      BY <3>1, <3>2
  <2>2. QED
    BY <1>6, <2>1 DEF EntriesAwaitCleanup
<1>10. CleanerRuns'
  BY <1>6 DEF CleanerRuns
<1>11. QED
  BY <1>4, <1>5, <1>6, <1>7, <1>8, <1>9, <1>10

(* What every lemma about a step uses of the types. *)
LEMMA Types ==
    ASSUME TypeOK
    PROVE  /\ now \in Time /\ now \in Nat /\ 0 \in Time
           /\ data \in [Keys -> Entries \cup {None}]
           /\ \A k \in Keys : data[k] # None => data[k].ts \in Time /\ data[k].val \in Values
           /\ pending \in [Keys -> Callers \cup {None}]
           /\ log \in Seq([ts : Time, key : Keys])
           /\ call \in [Callers -> CallType]
           /\ retrieval \in [Callers -> RetrievalType]
           /\ released \in [Values -> Nat]
           /\ made \in Nat /\ made <= MaxValues
           /\ None \notin Callers /\ None \notin Keys /\ None \notin Values
BY CacheAssumption DEF TypeOK, Time, Values, Entries, CallType, RetrievalType

(* validate(): of the log it drops a prefix of records that are all due, and of
   the cache only entries that have expired. *)
LEMMA ValidateDrops ==
    ASSUME TypeOK, CleanupValidate
    PROVE  /\ \E n \in 0 .. Len(log) :
                 /\ log' = SubSeq(log, n + 1, Len(log))
                 /\ \A i \in 1 .. n : Due(log[i])
           /\ \E dropped \in SUBSET Keys :
                 /\ Release(dropped)
                 /\ data' = [k \in Keys |-> IF k \in dropped THEN None ELSE data[k]]
           /\ \/ log' = <<>> /\ cleaner' = NoCleaner /\ cleaning' = FALSE
              \/ /\ log' # <<>> /\ cleaning' = cleaning
                 /\ cleaner' = [state |-> "top", next |-> Head(log').ts + Duration, now |-> 0]
           /\ UNCHANGED <<now, lock, closed, pending, call, ctxDone, retrieval, made, crashed>>
<1> DEFINE later   == {i \in DOMAIN log : ~Due(log[i])}
           least   == CHOOSE i \in later : \A j \in later : i <= j
           passed  == IF later = {} THEN Len(log) ELSE least - 1
           dropped == {k \in Keys : Expired(k) /\ \E i \in 1 .. passed : log[i].key = k}
           rest    == SubSeq(log, passed + 1, Len(log))
<1>1. /\ Release(dropped)
      /\ data' = [k \in Keys |-> IF k \in dropped THEN None ELSE data[k]]
      /\ log' = rest
      /\ \/ /\ rest # <<>>
            /\ cleaner' = [state |-> "top", next |-> Head(rest).ts + Duration, now |-> 0]
            /\ UNCHANGED cleaning
         \/ /\ rest = <<>>
            /\ cleaner' = NoCleaner
            /\ cleaning' = StopsCleaning
      /\ UNCHANGED <<now, lock, closed, pending, call, ctxDone, retrieval, made, crashed>>
  BY DEF CleanupValidate
<1>2. Len(log) \in Nat /\ DOMAIN log = 1 .. Len(log)
  <2>1. log \in Seq([ts : Time, key : Keys])
    BY DEF TypeOK
  <2>2. QED
    BY <2>1
<1>3. passed \in 0 .. Len(log) /\ \A i \in 1 .. passed : Due(log[i])
  <2>1. CASE later = {}
    BY <2>1, <1>2
  <2>2. CASE later # {}
    <3>1. later \in SUBSET Nat
      BY <1>2
    <3> HIDE DEF later
    <3>2. \E i \in later : \A j \in later : i <= j
      BY <2>2, <3>1, SmallestMember
    <3>3. least \in later /\ \A j \in later : least <= j
      BY <3>2
    <3> HIDE DEF least
    <3>4. least \in 1 .. Len(log)
      BY <3>3, <1>2 DEF later
    <3>5. ASSUME NEW i \in 1 .. (least - 1) PROVE Due(log[i])
      <4>1. i \in DOMAIN log /\ ~(least <= i)
        BY <3>4, <1>2
      <4>2. i \notin later
        BY <4>1, <3>3
      <4>3. QED
        BY <4>1, <4>2 DEF later
    <3>6. QED
      BY <2>2, <3>4, <3>5, <1>2
  <2>3. QED
    BY <2>1, <2>2
<1>4. dropped \in SUBSET Keys
  OBVIOUS
<1> HIDE DEF later, least, passed, dropped
<1>5. QED
  BY <1>1, <1>3, <1>4 DEF StopsCleaning

-----------------------------------------------------------------------------
(* A step of one call outside of its wait, which starts no retrieve(). *)
LEMMA CallMoves ==
    ASSUME TypeOK, CallsMatch, NEW c \in Callers, NEW r \in CallType,
           call[c].op # "wait", r.op # "wait", r.entry = None,
           r.op \in {"first", "second", "set"} => r.key # None,
           call' = [call EXCEPT ![c] = r], retrieval' = retrieval,
           closed' \/ UNCHANGED <<closed, pending>>
    PROVE  CallsMatch' /\ call' \in [Callers -> CallType]
<1>1. /\ call \in [Callers -> CallType] /\ retrieval \in [Callers -> RetrievalType]
      /\ None \notin Callers
  BY Types
<1>2. /\ call'[c] = r /\ \A d \in Callers \ {c} : call'[d] = call[d]
      /\ call' \in [Callers -> CallType]
  BY <1>1
<1>3. retrieval[c].state = "none"
  <2>1. call[c].entry # c
    BY <1>1 DEF CallsMatch, WaitsForEntry
  <2>2. QED
    BY <2>1 DEF CallsMatch, WaitsForEntry
<1>4. KeysKnown'
  BY <1>2 DEF CallsMatch, KeysKnown
<1>5. WaitsForEntry'
  BY <1>2, <1>3 DEF CallsMatch, WaitsForEntry
<1>6. EntryPending'
  BY DEF CallsMatch, EntryPending
<1>7. SingleFlight'
  BY DEF CallsMatch, SingleFlight
<1>8. QED
  BY <1>2, <1>4, <1>5, <1>6, <1>7 DEF CallsMatch

(* A step of a retrieve() that goes on, or gives up. *)
LEMMA RetrievalMoves ==
    ASSUME TypeOK, CallsMatch, NEW c \in Callers, NEW r \in RetrievalType,
           retrieval[c].state \in {"start", "looking", "store"},
           r.state # "none", r.key = retrieval[c].key,
           retrieval' = [retrieval EXCEPT ![c] = r], UNCHANGED <<closed, pending, call>>
    PROVE  CallsMatch' /\ retrieval' \in [Callers -> RetrievalType]
<1>1. retrieval \in [Callers -> RetrievalType]
  BY Types
<1>2. /\ retrieval'[c] = r /\ \A d \in Callers \ {c} : retrieval'[d] = retrieval[d]
      /\ retrieval' \in [Callers -> RetrievalType]
  BY <1>1
<1>3. \A d \in Callers : /\ retrieval'[d].key = retrieval[d].key
                         /\ retrieval'[d].state # "none" <=> retrieval[d].state # "none"
                         /\ retrieval'[d].state \in {"start", "looking", "store"}
                               => retrieval[d].state \in {"start", "looking", "store"}
  BY <1>2
<1>4. KeysKnown'
  BY <1>3 DEF CallsMatch, KeysKnown
<1>5. WaitsForEntry'
  BY <1>3 DEF CallsMatch, WaitsForEntry
<1>6. EntryPending'
  BY <1>3 DEF CallsMatch, EntryPending
<1>7. SingleFlight'
  <2>1. ASSUME NEW d \in Callers, NEW e \in Callers,
               retrieval'[d].state \in {"start", "looking", "store"},
               retrieval'[e].state \in {"start", "looking", "store"},
               retrieval'[d].key = retrieval'[e].key
        PROVE  d = e
    BY <1>3, <2>1 DEF CallsMatch, SingleFlight
  <2>2. QED
    BY <2>1 DEF SingleFlight
<1>8. QED
  BY <1>2, <1>4, <1>5, <1>6, <1>7 DEF CallsMatch

(* A miss: the call joins the pending entry, or makes one of its own and starts
   a retrieve(), as there is none at work for the key. *)
LEMMA MissWaits ==
    ASSUME TypeOK, CallsMatch, ValuesApart, NEW c \in Callers, ~closed, call[c].op = "second",
           NEW e \in Callers, NEW k \in Keys, k = call[c].key,
           call' = [call EXCEPT ![c] = [@ EXCEPT !.op = "wait", !.entry = e]],
           \/ pending[k] = e /\ UNCHANGED <<closed, pending, retrieval>>
           \/ /\ e = c
              /\ pending[k] = None
              /\ pending' = [pending EXCEPT ![k] = c]
              /\ retrieval' = [retrieval EXCEPT ![c] =
                                  [NoRetrieval EXCEPT !.state = "start", !.key = k]]
              /\ closed' = closed
    PROVE  /\ CallsMatch'
           /\ call' \in [Callers -> CallType]
           /\ retrieval' \in [Callers -> RetrievalType]
           /\ pending' \in [Keys -> Callers \cup {None}]
           /\ \A d \in Callers : retrieval'[d].val = retrieval[d].val
           /\ \A d \in Callers : retrieval[d].state = "store" => retrieval'[d] = retrieval[d]
<1>1. /\ call \in [Callers -> CallType] /\ retrieval \in [Callers -> RetrievalType]
      /\ pending \in [Keys -> Callers \cup {None}] /\ None \notin Callers /\ 0 \in Time
  BY Types
<1>2. /\ call' \in [Callers -> CallType]
      /\ call'[c].op = "wait" /\ call'[c].entry = e
      /\ \A d \in Callers \ {c} : call'[d] = call[d]
  <2> DEFINE r == [call[c] EXCEPT !.op = "wait", !.entry = e]
  <2>1. r \in CallType /\ r.op = "wait" /\ r.entry = e
    <3>1. call[c] \in CallType /\ "wait" \in Ops
      BY <1>1 DEF Ops
    <3>2. QED
      BY <3>1 DEF CallType
  <2>2. call' = [call EXCEPT ![c] = r]
    BY <1>1
  <2> HIDE DEF r
  <2>3. QED
    BY <1>1, <2>1, <2>2
<1>3. retrieval[c].state = "none"
  <2>1. call[c].entry # c
    BY <1>1 DEF CallsMatch, WaitsForEntry
  <2>2. QED
    BY <2>1 DEF CallsMatch, WaitsForEntry
<1>4. CASE pending[k] = e /\ UNCHANGED <<closed, pending, retrieval>>
  <2>1. KeysKnown'
    BY <1>2, <1>4 DEF CallsMatch, KeysKnown
  <2>2. WaitsForEntry'
    BY <1>1, <1>2, <1>3, <1>4 DEF CallsMatch, WaitsForEntry
  <2>3. EntryPending' /\ SingleFlight'
    BY <1>4 DEF CallsMatch, EntryPending, SingleFlight
  <2>4. QED
    BY <1>1, <1>2, <1>4, <2>1, <2>2, <2>3 DEF CallsMatch
<1>5. CASE /\ e = c
           /\ pending[k] = None
           /\ pending' = [pending EXCEPT ![k] = c]
           /\ retrieval' = [retrieval EXCEPT ![c] =
                               [NoRetrieval EXCEPT !.state = "start", !.key = k]]
           /\ closed' = closed
  <2> DEFINE r == [NoRetrieval EXCEPT !.state = "start", !.key = k]
  <2>1. /\ r \in RetrievalType /\ r.state = "start" /\ r.key = k /\ r.val = None
    BY <1>1 DEF NoRetrieval, RetrievalType
  <2>2. retrieval' = [retrieval EXCEPT ![c] = r]
    BY <1>5
  <2> HIDE DEF r
  <2>3. /\ retrieval' \in [Callers -> RetrievalType]
        /\ retrieval'[c] = r /\ \A d \in Callers \ {c} : retrieval'[d] = retrieval[d]
    BY <1>1, <2>1, <2>2
  <2>4. /\ pending' \in [Keys -> Callers \cup {None}]
        /\ pending'[k] = c /\ \A l \in Keys \ {k} : pending'[l] = pending[l]
    BY <1>1, <1>5
  <2>5. \A d \in Callers : retrieval[d].state # "none" =>
           /\ d # c /\ retrieval[d].key # k /\ retrieval[d].key \in Keys
    BY <1>1, <1>3, <1>5 DEF CallsMatch, EntryPending, KeysKnown, RetrievalType
  <2>6. KeysKnown'
    BY <1>1, <1>2, <2>1, <2>3 DEF CallsMatch, KeysKnown
  <2>7. WaitsForEntry'
    BY <1>1, <1>2, <1>5, <2>3 DEF CallsMatch, WaitsForEntry
  <2>8. EntryPending'
    BY <1>5, <2>1, <2>3, <2>4, <2>5 DEF CallsMatch, EntryPending
  <2>9. SingleFlight'
    <3>1. ASSUME NEW d \in Callers, NEW f \in Callers,
                 retrieval'[d].state \in {"start", "looking", "store"},
                 retrieval'[f].state \in {"start", "looking", "store"},
                 retrieval'[d].key = retrieval'[f].key
          PROVE  d = f
      BY <2>1, <2>3, <2>5, <3>1 DEF CallsMatch, SingleFlight
    <3>2. QED
      BY <3>1 DEF SingleFlight
  <2>10. retrieval[c].val = None
    BY <1>3 DEF ValuesApart
  <2>11. QED
    BY <1>2, <2>1, <2>3, <2>4, <2>6, <2>7, <2>8, <2>9, <2>10, <1>3 DEF CallsMatch
<1>6. QED
  BY <1>4, <1>5

-----------------------------------------------------------------------------
(* A step that concerns neither the entries nor their values. *)
LEMMA EntriesUntouched ==
    ASSUME ValuesApart, CleanerRuns, CachedValuesAreLive, EntriesAwaitCleanup,
           UNCHANGED <<now, data, log, cleaning, cleaner, made, released>>,
           \A c \in Callers : retrieval'[c].val = retrieval[c].val,
           \A c \in Callers : retrieval[c].state = "store" => retrieval'[c] = retrieval[c]
    PROVE  ValuesApart' /\ CleanerRuns' /\ CachedValuesAreLive' /\ EntriesAwaitCleanup' /\ Leaving
<1>1. ValuesApart'
  BY DEF ValuesApart
<1>2. CleanerRuns' /\ CachedValuesAreLive' /\ Leaving
  BY DEF CleanerRuns, CachedValuesAreLive, Leaving
<1>3. \A k \in Keys : Found(k)' <=> Found(k)
  BY DEF Found
<1>4. EntriesAwaitCleanup'
  BY <1>3 DEF EntriesAwaitCleanup
<1>5. QED
  BY <1>1, <1>2, <1>4

(* Entries removed together with the release of their values. *)
LEMMA RemovalReleases ==
    ASSUME TypeOK, ValuesApart, CachedValuesAreLive, NEW ks \in SUBSET Keys, Release(ks),
           data' = [k \in Keys |-> IF k \in ks THEN None ELSE data[k]],
           UNCHANGED <<retrieval, made>>
    PROVE  /\ data' \in [Keys -> Entries \cup {None}]
           /\ released' \in [Values -> Nat]
           /\ ValuesApart' /\ CachedValuesAreLive' /\ Leaving
<1>1. /\ data \in [Keys -> Entries \cup {None}] /\ made \in Nat
      /\ \A k \in Keys : data[k] # None => data[k].val \in Values
      /\ retrieval \in [Callers -> RetrievalType]
  BY Types
<1>2. \A k \in Keys : data'[k] = IF k \in ks THEN None ELSE data[k]
  OBVIOUS
<1>3. /\ released' \in [Values -> Nat]
      /\ \A v \in Values : released'[v] <= 1
      /\ \A k \in ks : data[k] # None => released'[data[k].val] = 1
      /\ \A v \in Values :
            (\A k \in ks : data[k] # None => data[k].val # v) => released'[v] = released[v]
  BY ReleaseOnce
<1>4. data' \in [Keys -> Entries \cup {None}]
  BY <1>1
<1>5. CachedValuesAreLive'
  <2>1. ASSUME NEW k \in Keys, data'[k] # None PROVE released'[data'[k].val] = 0
    <3>1. k \notin ks /\ data'[k] = data[k]
      BY <1>2, <2>1
    <3>2. \A l \in ks : data[l] # None => data[l].val # data[k].val
      BY <2>1, <3>1 DEF ValuesApart
    <3>3. QED
      BY <1>1, <1>3, <2>1, <3>1, <3>2 DEF CachedValuesAreLive
  <2>2. QED
    BY <1>3, <2>1 DEF CachedValuesAreLive
<1>6. ValuesApart'
  <2>1. ASSUME NEW v \in Values, v > made PROVE released'[v] = 0
    <3>1. v \in Nat
      BY CacheAssumption DEF Values
    <3>2. \A k \in ks : data[k] # None => data[k].val \in Nat /\ data[k].val <= made
      BY <1>1, CacheAssumption DEF ValuesApart, Values
    <3>3. \A k \in ks : data[k] # None => data[k].val # v
      BY <1>1, <2>1, <3>1, <3>2
    <3>4. QED
      BY <1>3, <2>1, <3>3 DEF ValuesApart
  <2>2. ASSUME NEW c \in Callers, retrieval[c].val # None
        PROVE  /\ released'[retrieval[c].val] = 0
               /\ \A k \in Keys : data'[k] # None => data'[k].val # retrieval[c].val
    <3>1. /\ released[retrieval[c].val] = 0
          /\ \A k \in Keys : data[k] # None => data[k].val # retrieval[c].val
      BY <2>2 DEF ValuesApart
    <3>2. retrieval[c].val \in Values
      BY <1>1, <2>2 DEF RetrievalType
    <3>3. QED
      BY <1>2, <1>3, <3>1, <3>2
  <2>3. /\ \A k \in Keys : data'[k] # None => data'[k].val <= made
        /\ \A k, l \in Keys :
              data'[k] # None /\ data'[l] # None /\ data'[k].val = data'[l].val => k = l
    BY <1>2 DEF ValuesApart
  <2>4. QED
    BY <2>1, <2>2, <2>3 DEF ValuesApart
<1>7. Leaving
  BY <1>2, <1>3 DEF Leaving
<1>8. QED
  BY <1>3, <1>4, <1>5, <1>6, <1>7

-----------------------------------------------------------------------------
(* A call begins: Set takes its timestamp, Lookup its key. *)
LEMMA BeginKeeps ==
    ASSUME CoreInv, NEW c \in Callers, NEW op \in Ops \ {"idle", "wait"},
           NEW k \in Keys \cup {None}, op \in {"first", "second", "set"} => k # None,
           Begin(c, op, k)
    PROVE  CoreInv' /\ Leaving
<1> USE DEF CoreInv
<1>1. TypeOK
  OBVIOUS
<1>2. /\ now \in Time /\ 0 \in Time /\ call \in [Callers -> CallType]
  BY <1>1, Types
<1> DEFINE r == [op |-> op, key |-> k, entry |-> None, ts |-> IF op = "set" THEN now ELSE 0]
<1>3. r \in CallType /\ r.op = op /\ r.key = k /\ r.entry = None
  BY <1>2 DEF CallType
<1>4. call' = [call EXCEPT ![c] = r] /\ call[c].op = "idle"
  BY DEF Begin, Idle
<1> HIDE DEF r
<1>5. UNCHANGED <<now, lock, closed, data, pending, log, cleaning, cleaner,
                  ctxDone, retrieval, made, released, crashed>>
  BY DEF Begin
<1>6. CallsMatch' /\ call' \in [Callers -> CallType]
  BY <1>1, <1>3, <1>4, <1>5, CallMoves
<1>7. ValuesApart' /\ CleanerRuns' /\ CachedValuesAreLive' /\ EntriesAwaitCleanup' /\ Leaving
  BY <1>5, EntriesUntouched
<1>8. TypeOK'
  BY <1>5, <1>6 DEF TypeOK, CallType
<1>9. QED
  BY <1>6, <1>7, <1>8

(* A call returns, whatever it has done. *)
LEMMA ReturnKeeps ==
    ASSUME TypeOK, CallsMatch, NEW c \in Callers, call[c].op # "wait", Return(c),
           retrieval' = retrieval, closed' \/ UNCHANGED <<closed, pending>>
    PROVE  /\ CallsMatch'
           /\ call' \in [Callers -> CallType]
           /\ ctxDone' \in SUBSET Callers
<1>1. /\ Idle \in CallType /\ Idle.op = "idle" /\ Idle.entry = None
  BY Types DEF Idle, CallType, Ops
<1>2. call' = [call EXCEPT ![c] = Idle] /\ ctxDone' = ctxDone \ {c}
  BY DEF Return
<1>3. CallsMatch' /\ call' \in [Callers -> CallType]
  BY <1>1, <1>2, CallMoves
<1>4. QED
  BY <1>2, <1>3 DEF TypeOK

(* There are only so many Sets under way. *)
LEMMA SettersCounted ==
    /\ IsFiniteSet(Setters)
    /\ Cardinality(Setters) \in Nat
    /\ \A c \in Setters : Cardinality(Setters) # 0
<1>1. Setters \in SUBSET Callers
  BY DEF Setters
<1>2. IsFiniteSet(Setters)
  BY <1>1, CacheAssumption, FS_Subset
<1>3. QED
  BY <1>2, FS_CardinalityType, FS_EmptySet

(* An entry with the value made last: it is in no other place. *)
LEMMA NewValueApart ==
    ASSUME TypeOK, ValuesApart, NEW k \in Keys, made' = made + 1, made' \in Values,
           data'[k].val = made + 1, \A l \in Keys \ {k} : data'[l] = data[l],
           \A w \in Values : (\A l \in Keys : data[l] # None => data[l].val # w)
                                => released'[w] = released[w],
           retrieval' = retrieval
    PROVE  ValuesApart'
<1>1. /\ made \in Nat /\ data \in [Keys -> Entries \cup {None}]
      /\ \A l \in Keys : data[l] # None => data[l].val \in Values
      /\ retrieval \in [Callers -> RetrievalType] /\ None \notin Values
  BY Types
<1>2. Values \subseteq Nat
  BY CacheAssumption DEF Values
<1>3. \A l \in Keys : data[l] # None => data[l].val \in Nat /\ data[l].val <= made
  BY <1>1, <1>2 DEF ValuesApart
<1>4. ASSUME NEW v \in Values, v > made' PROVE released'[v] = 0
  <2>1. v \in Nat /\ v > made
    BY <1>1, <1>2, <1>4
  <2>2. \A l \in Keys : data[l] # None => data[l].val # v
    BY <1>1, <1>3, <2>1
  <2>3. QED
    BY <2>1, <2>2 DEF ValuesApart
<1>5. \A l \in Keys : data'[l] # None => data'[l].val \in Nat /\ data'[l].val <= made'
  BY <1>1, <1>3
<1>6. ASSUME NEW l \in Keys, NEW m \in Keys, data'[l] # None, data'[m] # None,
             data'[l].val = data'[m].val
      PROVE  l = m
  BY <1>1, <1>3, <1>6 DEF ValuesApart
<1>7. ASSUME NEW c \in Callers, retrieval[c].val # None
      PROVE  /\ retrieval[c].val <= made'
             /\ released'[retrieval[c].val] = 0
             /\ \A l \in Keys : data'[l] # None => data'[l].val # retrieval[c].val
  <2>1. retrieval[c].val \in Values /\ retrieval[c].val \in Nat /\ retrieval[c].val <= made
    BY <1>1, <1>2, <1>7 DEF RetrievalType, ValuesApart
  <2>2. /\ released[retrieval[c].val] = 0
        /\ \A l \in Keys : data[l] # None => data[l].val # retrieval[c].val
    BY <1>7 DEF ValuesApart
  <2>3. QED
    BY <1>1, <2>1, <2>2
<1>8. QED
  BY <1>4, <1>5, <1>6, <1>7 DEF ValuesApart

(* The read-locked calls: Value, and the first attempt of Lookup. *)
LEMMA ReadKeeps ==
    ASSUME CoreInv, NEW c \in Callers, Value(c) \/ FirstAttempt(c)
    PROVE  CoreInv' /\ Leaving
<1> USE DEF CoreInv
<1>1. /\ call \in [Callers -> CallType] /\ call[c].op # "wait"
      /\ lock' \in {lock, "leaked"}
      /\ UNCHANGED <<now, closed, data, pending, log, cleaning, cleaner,
                     retrieval, made, released, crashed>>
  BY Types DEF Value, FirstAttempt
<1>2. CallsMatch' /\ call' \in [Callers -> CallType] /\ ctxDone' \in SUBSET Callers
  <2>1. CASE Return(c)
    BY <1>1, <2>1, ReturnKeeps
  <2>2. CASE /\ FirstAttempt(c) /\ call' = [call EXCEPT ![c].op = "second"]
             /\ UNCHANGED ctxDone
    <3> DEFINE r == [call[c] EXCEPT !.op = "second"]
    <3>1. /\ r \in CallType /\ r.op = "second" /\ r.entry = call[c].entry /\ r.key = call[c].key
      <4>1. call[c] \in CallType /\ "second" \in Ops
        BY <1>1 DEF Ops
      <4>2. QED
        BY <4>1 DEF CallType
    <3>2. call[c].op = "first" /\ call[c].key # None /\ call[c].entry = None
      BY <2>2 DEF FirstAttempt, CallsMatch, KeysKnown, WaitsForEntry
    <3>3. call' = [call EXCEPT ![c] = r]
      BY <2>2
    <3> HIDE DEF r
    <3>4. CallsMatch' /\ call' \in [Callers -> CallType]
      BY <1>1, <3>1, <3>2, <3>3, CallMoves
    <3>5. QED
      BY <2>2, <3>4 DEF TypeOK
  <2>3. QED
    BY <2>1, <2>2 DEF Value, FirstAttempt
<1>3. ValuesApart' /\ CleanerRuns' /\ CachedValuesAreLive' /\ EntriesAwaitCleanup' /\ Leaving
  BY <1>1, EntriesUntouched
<1>4. TypeOK'
  BY <1>1, <1>2 DEF TypeOK, CallType
<1>5. QED
  BY <1>2, <1>3, <1>4

(* The second attempt of Lookup. *)
LEMMA SecondKeeps ==
    ASSUME CoreInv, NEW c \in Callers, SecondAttempt(c)
    PROVE  CoreInv' /\ Leaving
<1> USE DEF CoreInv
<1> DEFINE k == call[c].key
<1>1. /\ call \in [Callers -> CallType] /\ call[c].op = "second" /\ k \in Keys
      /\ pending \in [Keys -> Callers \cup {None}]
      /\ retrieval \in [Callers -> RetrievalType]
      /\ UNCHANGED <<now, closed, data, log, cleaning, cleaner, made, released, crashed>>
  BY Types DEF SecondAttempt, CallType, CallsMatch, KeysKnown
<1>2. /\ CallsMatch'
      /\ call' \in [Callers -> CallType]
      /\ retrieval' \in [Callers -> RetrievalType]
      /\ pending' \in [Keys -> Callers \cup {None}]
      /\ ctxDone' \in SUBSET Callers
      /\ lock' \in {lock, "stuck"}
      /\ \A d \in Callers : retrieval'[d].val = retrieval[d].val
      /\ \A d \in Callers : retrieval[d].state = "store" => retrieval'[d] = retrieval[d]
  <2>1. CASE Return(c) /\ lock' \in {lock, "stuck"} /\ UNCHANGED <<pending, retrieval>>
    <3>1. CallsMatch' /\ call' \in [Callers -> CallType] /\ ctxDone' \in SUBSET Callers
      BY <1>1, <2>1, ReturnKeeps
    <3>2. QED
      BY <1>1, <2>1, <3>1
  <2>2. CASE /\ ~closed
             /\ Joins(k)
             /\ call' = [call EXCEPT ![c] = [@ EXCEPT !.op = "wait", !.entry = pending[k]]]
             /\ UNCHANGED <<lock, ctxDone, pending, retrieval>>
    <3> DEFINE e == pending[k]
    <3>1. e \in Callers
      BY <1>1, <2>2 DEF Joins
    <3>2. /\ call' = [call EXCEPT ![c] = [@ EXCEPT !.op = "wait", !.entry = e]]
          /\ pending[k] = e
      BY <2>2
    <3> HIDE DEF e, k
    <3>3. CallsMatch' /\ call' \in [Callers -> CallType]
      BY <1>1, <2>2, <3>1, <3>2, MissWaits DEF k
    <3>4. QED
      BY <1>1, <2>2, <3>3 DEF TypeOK
  <2>3. CASE /\ ~closed
             /\ ~Joins(k)
             /\ pending' = [pending EXCEPT ![k] = c]
             /\ retrieval' = [retrieval EXCEPT ![c] =
                                 [NoRetrieval EXCEPT !.state = "start", !.key = k]]
             /\ call' = [call EXCEPT ![c] = [@ EXCEPT !.op = "wait", !.entry = c]]
             /\ UNCHANGED <<lock, ctxDone>>
    <3>1. pending[k] = None
      BY <2>3 DEF Joins
    <3> HIDE DEF k
    <3>2. /\ CallsMatch'
          /\ call' \in [Callers -> CallType]
          /\ retrieval' \in [Callers -> RetrievalType]
          /\ pending' \in [Keys -> Callers \cup {None}]
          /\ \A d \in Callers : retrieval'[d].val = retrieval[d].val
          /\ \A d \in Callers : retrieval[d].state = "store" => retrieval'[d] = retrieval[d]
      BY <1>1, <2>3, <3>1, MissWaits DEF k
    <3>3. QED
      BY <2>3, <3>2 DEF TypeOK
  <2>4. QED
    BY <2>1, <2>2, <2>3 DEF SecondAttempt
<1>3. ValuesApart' /\ CleanerRuns' /\ CachedValuesAreLive' /\ EntriesAwaitCleanup' /\ Leaving
  BY <1>1, <1>2, EntriesUntouched
<1>4. TypeOK'
  BY <1>1, <1>2 DEF TypeOK, CallType, RetrievalType
<1>5. QED
  BY <1>2, <1>3, <1>4

(* Set, whose value is new. *)
LEMMA SetKeeps ==
    ASSUME CoreInv, RoomKept, NEW c \in Callers, Set(c)
    PROVE  CoreInv' /\ Leaving
<1> USE DEF CoreInv
<1>1. /\ call \in [Callers -> CallType] /\ call[c].op = "set"
      /\ made \in Nat /\ retrieval \in [Callers -> RetrievalType]
      /\ released \in [Values -> Nat] /\ data \in [Keys -> Entries \cup {None}]
      /\ \A l \in Keys : data[l] # None => data[l].val \in Values
      /\ UNCHANGED <<now, lock, closed, pending, retrieval, crashed>>
      /\ Return(c)
  BY Types DEF Set
<1>2. call[c].key \in Keys /\ call[c].ts \in Time
  BY <1>1 DEF CallsMatch, KeysKnown, CallType
<1>3. CallsMatch' /\ call' \in [Callers -> CallType] /\ ctxDone' \in SUBSET Callers
  BY <1>1, ReturnKeeps
<1>4. CASE closed /\ UNCHANGED <<data, log, cleaning, cleaner, made, released>>
  <2>1. ValuesApart' /\ CleanerRuns' /\ CachedValuesAreLive' /\ EntriesAwaitCleanup' /\ Leaving
    BY <1>1, <1>4, EntriesUntouched
  <2>2. TypeOK'
    BY <1>1, <1>3, <1>4 DEF TypeOK, CallType
  <2>3. QED
    BY <1>3, <2>1, <2>2
<1>5. CASE ~closed /\ made' = made + 1 /\ SetEntry(call[c].ts, call[c].key, made + 1)
  <2> DEFINE ts == call[c].ts
             k == call[c].key
             v == made + 1
  <2>1. v \in Values /\ v <= MaxValues
    <3>1. c \in Setters
      BY <1>1 DEF Setters
    <3>2. Cardinality(Setters) \in Nat /\ Cardinality(Setters) # 0
      BY <3>1, SettersCounted
    <3>3. QED
      BY <1>1, <3>2, CacheAssumption DEF RoomKept, Values
  <2>2. released[v] = 0
    BY <1>1, <2>1 DEF ValuesApart
  <2>3. \A l \in Keys : data[l] # None => data[l].val # v
    BY <1>1, CacheAssumption DEF ValuesApart, Values
  <2>4. SetEntry(ts, k, v)
    BY <1>5
  <2>5. ts \in Time /\ k \in Keys
    BY <1>2
  <2>6. made' = v
    BY <1>5
  <2> HIDE DEF ts, k, v
  <2>7. /\ data' \in [Keys -> Entries \cup {None}]
        /\ data'[k] = [ts |-> ts, val |-> v]
        /\ \A l \in Keys \ {k} : data'[l] = data[l]
        /\ log' \in Seq([ts : Time, key : Keys])
        /\ cleaning' \in BOOLEAN
        /\ cleaner' \in [state : {"off", "top", "sleep", "lock"}, next : Nat, now : Time]
        /\ released' \in [Values -> Nat]
        /\ \A w \in Values : (\A l \in Keys : data[l] # None => data[l].val # w)
                                => released'[w] = released[w]
        /\ data[k] # None => released'[data[k].val] = 1
        /\ CachedValuesAreLive'
        /\ CleanerRuns'
        /\ EntriesAwaitCleanup'
    BY <1>1, <2>1, <2>2, <2>3, <2>4, <2>5, SetEntryKeeps
  <2>8. Leaving
    BY <2>7 DEF Leaving
  <2>9. ValuesApart'
    <3>1. /\ made' = made + 1 /\ made' \in Values /\ data'[k].val = made + 1
          /\ retrieval' = retrieval
      BY <1>1, <2>1, <2>6, <2>7 DEF v
    <3>2. QED
      BY <2>5, <2>7, <3>1, NewValueApart
  <2>10. TypeOK'
    <3>1. made' \in 0 .. MaxValues
      BY <2>1, <2>6, CacheAssumption DEF Values
    <3>2. QED
      BY <1>1, <1>3, <2>7, <3>1 DEF TypeOK, CallType
  <2>11. QED
    BY <1>3, <2>7, <2>8, <2>9, <2>10
<1>6. QED
  BY <1>4, <1>5 DEF Set

(* Evict and Close empty the cache. *)
LEMMA EmptyingKeeps ==
    ASSUME CoreInv, NEW c \in Callers, Evict(c) \/ Close(c)
    PROVE  CoreInv' /\ Leaving
<1> USE DEF CoreInv
<1>1. /\ call \in [Callers -> CallType] /\ call[c].op # "wait" /\ Return(c)
      /\ pending \in [Keys -> Callers \cup {None}]
      /\ UNCHANGED <<now, lock, cleaning, cleaner, retrieval, made, crashed>>
  BY Types DEF Evict, Close
<1>2. \/ UNCHANGED <<closed, data, pending, log, released>>
      \/ /\ Release(Keys) /\ data' = NoData /\ log' = <<>>
         /\ \/ UNCHANGED <<closed, pending>>
            \/ closed' = TRUE /\ pending' = NoData
  BY DEF Evict, Close, EmptiedData
<1>3. closed' \/ UNCHANGED <<closed, pending>>
  BY <1>2
<1>4. CallsMatch' /\ call' \in [Callers -> CallType] /\ ctxDone' \in SUBSET Callers
  BY <1>1, <1>3, ReturnKeeps
<1>5. CASE UNCHANGED <<closed, data, pending, log, released>>
  <2>1. ValuesApart' /\ CleanerRuns' /\ CachedValuesAreLive' /\ EntriesAwaitCleanup' /\ Leaving
    BY <1>1, <1>5, EntriesUntouched
  <2>2. TypeOK'
    BY <1>1, <1>4, <1>5 DEF TypeOK, CallType
  <2>3. QED
    BY <1>4, <2>1, <2>2
<1>6. CASE /\ Release(Keys) /\ data' = NoData /\ log' = <<>>
           /\ \/ UNCHANGED <<closed, pending>>
              \/ closed' = TRUE /\ pending' = NoData
  <2> DEFINE ks == Keys
  <2>1. /\ ks \in SUBSET Keys /\ Release(ks)
        /\ data' = [k \in Keys |-> IF k \in ks THEN None ELSE data[k]]
    BY <1>6 DEF NoData
  <2> HIDE DEF ks
  <2>2. /\ data' \in [Keys -> Entries \cup {None}] /\ released' \in [Values -> Nat]
        /\ ValuesApart' /\ CachedValuesAreLive' /\ Leaving
    BY <1>1, <2>1, RemovalReleases
  <2>3. CleanerRuns'
    BY <1>1 DEF CleanerRuns
  <2>4. EntriesAwaitCleanup'
    BY <1>6 DEF EntriesAwaitCleanup, Found, NoData
  <2>5. log' \in Seq([ts : Time, key : Keys])
    BY <1>6
  <2>6. closed' \in BOOLEAN /\ pending' \in [Keys -> Callers \cup {None}]
    <3>1. closed \in BOOLEAN
      BY DEF TypeOK
    <3>2. CASE UNCHANGED <<closed, pending>>
      BY <1>1, <3>1, <3>2
    <3>3. CASE closed' = TRUE /\ pending' = NoData
      BY <3>3 DEF NoData
    <3>4. QED
      BY <1>6, <3>2, <3>3
  <2>7. TypeOK'
    BY <1>1, <1>4, <2>2, <2>5, <2>6 DEF TypeOK, CallType
  <2>8. QED
    BY <1>4, <2>2, <2>3, <2>4, <2>7
<1>7. QED
  BY <1>2, <1>5, <1>6

(* The context is cancelled, a writer blocks: no more than that. *)
LEMMA SidesKeep ==
    ASSUME CoreInv, WriterBlocks \/ \E c \in Callers : CancelContext(c)
    PROVE  CoreInv' /\ Leaving
<1> USE DEF CoreInv
<1>1. /\ UNCHANGED <<now, closed, data, pending, log, cleaning, cleaner, call,
                     retrieval, made, released, crashed>>
      /\ lock' \in {lock, "stuck"}
      /\ ctxDone' \in SUBSET Callers
  BY DEF WriterBlocks, CancelContext, TypeOK
<1>2. CallsMatch'
  BY <1>1 DEF CallsMatch, KeysKnown, WaitsForEntry, EntryPending, SingleFlight
<1>3. ValuesApart' /\ CleanerRuns' /\ CachedValuesAreLive' /\ EntriesAwaitCleanup' /\ Leaving
  BY <1>1, EntriesUntouched
<1>4. TypeOK'
  BY <1>1 DEF TypeOK
<1>5. QED
  BY <1>2, <1>3, <1>4

(* Time passes: entries expire, none comes back. *)
LEMMA TickKeeps ==
    ASSUME CoreInv, Tick
    PROVE  CoreInv' /\ Leaving
<1> USE DEF CoreInv
<1>1. /\ now \in Nat /\ now' = now + 1 /\ now' <= MaxTime /\ MaxTime \in Nat
      /\ UNCHANGED <<lock, closed, data, pending, log, cleaning, cleaner, call,
                     ctxDone, retrieval, made, released, crashed>>
  BY Types, CacheAssumption DEF Tick
<1>2. CallsMatch'
  BY <1>1 DEF CallsMatch, KeysKnown, WaitsForEntry, EntryPending, SingleFlight
<1>3. ValuesApart' /\ CachedValuesAreLive' /\ Leaving
  BY <1>1 DEF ValuesApart, CachedValuesAreLive, Leaving
<1>4. CleanerRuns'
  <2>1. cleaner.now \in Nat
    BY CacheAssumption DEF TypeOK, Time
  <2>2. QED
    BY <1>1, <2>1 DEF CleanerRuns
<1>5. EntriesAwaitCleanup'
  <2>1. ASSUME NEW k \in Keys, Found(k)' PROVE Found(k)
    <3>1. data[k] # None /\ data[k].ts + Duration > now + 1
      BY <1>1, <2>1 DEF Found
    <3>2. data[k].ts \in Nat
      BY <3>1, Types, CacheAssumption DEF Time
    <3>3. QED
      BY <1>1, <3>1, <3>2, CacheAssumption DEF Found
  <2>2. QED
    BY <1>1, <2>1 DEF EntriesAwaitCleanup
<1>6. TypeOK'
  <2>1. now' \in Time
    BY <1>1 DEF Time
  <2>2. QED
    BY <1>1, <2>1 DEF TypeOK
<1>7. QED
  BY <1>2, <1>3, <1>4, <1>5, <1>6

-----------------------------------------------------------------------------
(* retrieve() starts its lookup, unless its context is done or the cache is
   closed. *)
LEMMA StartKeeps ==
    ASSUME CoreInv, NEW c \in Callers, RetrieveStart(c)
    PROVE  CoreInv' /\ Leaving
<1> USE DEF CoreInv
<1>1. /\ retrieval \in [Callers -> RetrievalType] /\ retrieval[c].state = "start"
      /\ UNCHANGED <<now, lock, closed, data, pending, log, cleaning, cleaner,
                     call, ctxDone, made, released>>
      /\ crashed' \in BOOLEAN
  BY Types DEF RetrieveStart, TypeOK
<1>2. /\ CallsMatch' /\ retrieval' \in [Callers -> RetrievalType]
      /\ \A d \in Callers : retrieval'[d].val = retrieval[d].val
      /\ \A d \in Callers : retrieval[d].state = "store" => retrieval'[d] = retrieval[d]
  <2>1. ASSUME NEW state \in {"abandoned", "looking"},
               retrieval' = [retrieval EXCEPT ![c].state = state]
        PROVE  /\ CallsMatch' /\ retrieval' \in [Callers -> RetrievalType]
               /\ \A d \in Callers : retrieval'[d].val = retrieval[d].val
               /\ \A d \in Callers : retrieval[d].state = "store" => retrieval'[d] = retrieval[d]
    <3> DEFINE r == [retrieval[c] EXCEPT !.state = state]
    <3>1. /\ r \in RetrievalType /\ r.state = state
          /\ r.key = retrieval[c].key /\ r.val = retrieval[c].val
      BY <1>1 DEF RetrievalType
    <3>2. retrieval' = [retrieval EXCEPT ![c] = r]
      BY <2>1
    <3> HIDE DEF r
    <3>3. CallsMatch' /\ retrieval' \in [Callers -> RetrievalType]
      BY <1>1, <3>1, <3>2, RetrievalMoves
    <3>4. QED
      BY <1>1, <3>1, <3>2, <3>3
  <2>2. CASE UNCHANGED retrieval
    BY <1>1, <2>2 DEF CallsMatch, KeysKnown, WaitsForEntry, EntryPending, SingleFlight
  <2>3. QED
    BY <2>1, <2>2 DEF RetrieveStart
<1>3. ValuesApart' /\ CleanerRuns' /\ CachedValuesAreLive' /\ EntriesAwaitCleanup' /\ Leaving
  BY <1>1, <1>2, EntriesUntouched
<1>4. TypeOK'
  BY <1>1, <1>2 DEF TypeOK, RetrievalType
<1>5. QED
  BY <1>2, <1>3, <1>4

(* The lookup function returns a value that is in no other place. *)
LEMMA LookupKeeps ==
    ASSUME CoreInv, RoomKept, NEW c \in Callers, LookupReturns(c)
    PROVE  CoreInv' /\ Leaving
<1> USE DEF CoreInv
<1>1. /\ retrieval \in [Callers -> RetrievalType] /\ retrieval[c].state = "looking"
      /\ now \in Time /\ made \in Nat /\ made <= MaxValues
      /\ released \in [Values -> Nat] /\ data \in [Keys -> Entries \cup {None}]
      /\ None \notin Values
      /\ UNCHANGED <<now, lock, closed, data, pending, log, cleaning, cleaner,
                     call, ctxDone, released, crashed>>
  BY Types DEF LookupReturns
<1>2. PICK val \in Values \cup {None} :
         /\ Brings(c, val)
         /\ \/ val = made + 1 /\ made' = made + 1 /\ val \in Values
            \/ val = None /\ made' = made
  <2>1. CASE Room /\ made' = made + 1 /\ Brings(c, made + 1)
    <3>1. made + Cardinality(Setters) < MaxValues
      BY <2>1 DEF Room, Setters
    <3>2. made + 1 \in Values
      BY <3>1, <1>1, SettersCounted, CacheAssumption DEF Values
    <3>3. QED
      BY <2>1, <3>2
  <2>2. CASE Brings(c, None) /\ UNCHANGED made
    BY <2>2
  <2>3. QED
    BY <2>1, <2>2 DEF LookupReturns
<1> DEFINE r == [state |-> "store", key |-> retrieval[c].key, ts |-> now, val |-> val]
<1>3. /\ r \in RetrievalType /\ r.state = "store" /\ r.key = retrieval[c].key /\ r.val = val
  BY <1>1 DEF RetrievalType
<1>4. retrieval' = [retrieval EXCEPT ![c] = r]
  BY <1>2 DEF Brings
<1> HIDE DEF r
<1>5. CallsMatch' /\ retrieval' \in [Callers -> RetrievalType]
  BY <1>1, <1>3, <1>4, RetrievalMoves
<1>6. CleanerRuns' /\ CachedValuesAreLive' /\ EntriesAwaitCleanup' /\ Leaving
  <2>1. \A k \in Keys : Found(k)' <=> Found(k)
    BY <1>1 DEF Found
  <2>2. CleanerRuns' /\ CachedValuesAreLive' /\ Leaving
    BY <1>1 DEF CleanerRuns, CachedValuesAreLive, Leaving
  <2>3. EntriesAwaitCleanup
    OBVIOUS
  <2>4. UNCHANGED <<data, log, cleaning, cleaner>>
    BY <1>1
  <2> HIDE DEF CoreInv
  <2>5. EntriesAwaitCleanup'
    BY <2>1, <2>3, <2>4 DEF EntriesAwaitCleanup
  <2>6. QED
    BY <2>2, <2>5
<1>7. made' \in Nat /\ made' <= MaxValues /\ made <= made'
  BY <1>1, <1>2, CacheAssumption DEF Values
<1>8. ValuesApart'
  <2>1. Values \subseteq Nat /\ \A k \in Keys : data[k] # None => data[k].val \in Values
    BY Types, CacheAssumption DEF Values
  <2>2. \A d \in Callers : retrieval[d].val # None => retrieval[d].val \in Values
    BY <1>1 DEF RetrievalType
  <2>3. /\ retrieval'[c] = r
        /\ \A d \in Callers \ {c} : retrieval'[d] = retrieval[d]
    BY <1>1, <1>4
  <2>4. ASSUME NEW d \in Callers, retrieval'[d].val # None
        PROVE  /\ retrieval'[d].state = "store"
               /\ retrieval'[d].val <= made'
               /\ released'[retrieval'[d].val] = 0
               /\ \A k \in Keys : data'[k] # None => data'[k].val # retrieval'[d].val
               /\ \A e \in Callers : retrieval'[e].val = retrieval'[d].val => e = d
    <3>1. CASE d = c
      <4>1. val = made + 1 /\ made' = made + 1 /\ val \in Values
        BY <1>2, <1>3, <2>3, <2>4, <3>1
      <4>2. released[val] = 0
        BY <4>1, <1>1 DEF ValuesApart
      <4>3. \A k \in Keys : data[k] # None => data[k].val # val
        BY <1>1, <2>1, <4>1 DEF ValuesApart
      <4>4. \A e \in Callers \ {c} : retrieval[e].val # val
        BY <1>1, <2>1, <2>2, <4>1 DEF ValuesApart
      <4>5. QED
        BY <1>1, <1>3, <2>1, <2>3, <3>1, <4>1, <4>2, <4>3, <4>4
    <3>2. CASE d # c
      <4>1. /\ retrieval'[d] = retrieval[d] /\ retrieval[d].val # None
            /\ retrieval[d].val \in Nat /\ retrieval[d].val <= made
        BY <2>1, <2>2, <2>3, <2>4, <3>2 DEF ValuesApart
      <4>2. val # retrieval[d].val
        BY <1>1, <1>2, <4>1
      <4>3. retrieval[d].val <= made'
        BY <1>1, <1>7, <4>1
      <4>4. \A e \in Callers : retrieval'[e].val = retrieval[d].val => e = d
        BY <1>3, <2>3, <4>1, <4>2 DEF ValuesApart
      <4>5. /\ retrieval[d].state = "store"
            /\ released[retrieval[d].val] = 0
            /\ \A k \in Keys : data[k] # None => data[k].val # retrieval[d].val
        BY <4>1 DEF ValuesApart
      <4>6. QED
        BY <1>1, <4>1, <4>3, <4>4, <4>5
    <3>3. QED
      BY <3>1, <3>2
  <2>5. ASSUME NEW v \in Values, v > made' PROVE released'[v] = 0
    <3>1. v \in Nat /\ v > made
      BY <1>1, <1>7, <2>1, <2>5
    <3>2. released[v] = 0
      BY <3>1 DEF ValuesApart
    <3>3. QED
      BY <1>1, <3>2
  <2>6. ASSUME NEW k \in Keys, data[k] # None PROVE data[k].val <= made'
    <3>1. data[k].val \in Nat /\ data[k].val <= made
      BY <2>1, <2>6 DEF ValuesApart
    <3>2. QED
      BY <1>1, <1>7, <3>1
  <2>7. \A k, l \in Keys :
           data'[k] # None /\ data'[l] # None /\ data'[k].val = data'[l].val => k = l
    BY <1>1 DEF ValuesApart
  <2>8. QED
    BY <1>1, <2>4, <2>5, <2>6, <2>7 DEF ValuesApart
<1>9. TypeOK'
  <2>1. made' \in 0 .. MaxValues
    BY <1>7, CacheAssumption
  <2>2. QED
    BY <1>1, <1>5, <2>1 DEF TypeOK, RetrievalType
<1>10. QED
  BY <1>5, <1>6, <1>8, <1>9

(* The end of retrieve(): its callers return, and its pending entry goes. *)
LEMMA CallersWoken ==
    ASSUME TypeOK, CallsMatch, NEW c \in Callers, retrieval[c].state = "store",
           closed' = closed,
           pending' = IF closed THEN pending ELSE [pending EXCEPT ![retrieval[c].key] = None],
           retrieval' = [retrieval EXCEPT ![c] = NoRetrieval],
           call' = [d \in Callers |-> IF d \in Woken(c) THEN Idle ELSE call[d]]
    PROVE  /\ CallsMatch'
           /\ call' \in [Callers -> CallType]
           /\ retrieval' \in [Callers -> RetrievalType]
           /\ pending' \in [Keys -> Callers \cup {None}]
           /\ retrieval'[c] = NoRetrieval
           /\ \A d \in Callers \ {c} : retrieval'[d] = retrieval[d]
<1>1. /\ call \in [Callers -> CallType] /\ retrieval \in [Callers -> RetrievalType]
      /\ pending \in [Keys -> Callers \cup {None}] /\ None \notin Callers /\ 0 \in Time
      /\ None \notin Values
  BY Types
<1>2. NoRetrieval \in RetrievalType /\ NoRetrieval.state = "none" /\ NoRetrieval.val = None
  BY <1>1 DEF NoRetrieval, RetrievalType
<1>3. Idle \in CallType /\ Idle.op = "idle" /\ Idle.entry = None
  BY <1>1 DEF Idle, CallType, Ops
<1>4. /\ retrieval' \in [Callers -> RetrievalType] /\ retrieval'[c] = NoRetrieval
      /\ \A d \in Callers \ {c} : retrieval'[d] = retrieval[d]
  BY <1>1, <1>2
<1>5. /\ call' \in [Callers -> CallType]
      /\ \A d \in Callers : call'[d] = IF call[d].entry = c THEN Idle ELSE call[d]
  BY <1>1, <1>3 DEF Woken
<1>6. pending' \in [Keys -> Callers \cup {None}]
  BY <1>1
<1>7. \A d \in Callers : retrieval'[d].state # "none" =>
         d # c /\ retrieval'[d] = retrieval[d] /\ call'[d] = call[d]
  BY <1>2, <1>4, <1>5 DEF CallsMatch, WaitsForEntry
<1>8. KeysKnown'
  BY <1>3, <1>5, <1>7 DEF CallsMatch, KeysKnown
<1>9. WaitsForEntry'
  BY <1>3, <1>5, <1>7 DEF CallsMatch, WaitsForEntry
<1>10. EntryPending'
  <2>1. ASSUME ~closed, NEW d \in Callers, retrieval'[d].state # "none"
        PROVE  pending'[retrieval'[d].key] = d
    <3>1. /\ d # c /\ retrieval'[d] = retrieval[d] /\ retrieval[d].state # "none"
      BY <1>7, <2>1
    <3>2. pending[retrieval[d].key] = d /\ pending[retrieval[c].key] = c
      BY <2>1, <3>1 DEF CallsMatch, EntryPending
    <3>3. retrieval[d].key \in Keys /\ retrieval[c].key \in Keys
      BY <1>1, <3>1 DEF CallsMatch, KeysKnown, RetrievalType
    <3>4. QED
      BY <1>1, <2>1, <3>1, <3>2, <3>3
  <2>2. QED
    BY <2>1 DEF EntryPending
<1>11. SingleFlight'
  <2>1. ASSUME NEW d \in Callers, NEW e \in Callers,
               retrieval'[d].state \in {"start", "looking", "store"},
               retrieval'[e].state \in {"start", "looking", "store"},
               retrieval'[d].key = retrieval'[e].key
        PROVE  d = e
    BY <1>7, <2>1 DEF CallsMatch, SingleFlight
  <2>2. QED
    BY <2>1 DEF SingleFlight
<1>12. QED
  BY <1>4, <1>5, <1>6, <1>8, <1>9, <1>10, <1>11 DEF CallsMatch

(* What a retrieve() brought is an entry now, or is given up. *)
LEMMA StoredValueApart ==
    ASSUME TypeOK, ValuesApart, NEW c \in Callers, NEW k \in Keys,
           retrieval[c].val # None,
           data'[k].val = retrieval[c].val, \A l \in Keys \ {k} : data'[l] = data[l],
           \A w \in Values : (\A l \in Keys : data[l] # None => data[l].val # w)
                                => released'[w] = released[w],
           made' = made,
           retrieval'[c] = NoRetrieval, \A d \in Callers \ {c} : retrieval'[d] = retrieval[d]
    PROVE  ValuesApart'
<1> DEFINE u == retrieval[c].val
<1>1. /\ made \in Nat /\ data \in [Keys -> Entries \cup {None}]
      /\ \A l \in Keys : data[l] # None => data[l].val \in Values
      /\ retrieval \in [Callers -> RetrievalType] /\ None \notin Values
  BY Types
<1>2. /\ u \in Values /\ u <= made /\ released[u] = 0
      /\ \A l \in Keys : data[l] # None => data[l].val # u
      /\ \A d \in Callers : retrieval[d].val = u => d = c
  BY <1>1 DEF RetrievalType, ValuesApart
<1>3. Values \subseteq Nat
  BY CacheAssumption DEF Values
<1>4. data'[k].val = u
  OBVIOUS
<1>5. NoRetrieval.val = None
  BY DEF NoRetrieval
<1> HIDE DEF u
<1>6. ASSUME NEW v \in Values, v > made PROVE released'[v] = 0
  <2>1. \A l \in Keys : data[l] # None => data[l].val # v
    BY <1>1, <1>3, <1>6 DEF ValuesApart
  <2>2. QED
    BY <1>6, <2>1 DEF ValuesApart
<1>7. \A l \in Keys : data'[l] # None => data'[l].val <= made
  BY <1>2, <1>4 DEF ValuesApart
<1>8. ASSUME NEW l \in Keys, NEW m \in Keys, data'[l] # None, data'[m] # None,
             data'[l].val = data'[m].val
      PROVE  l = m
  BY <1>2, <1>4, <1>8 DEF ValuesApart
<1>9. ASSUME NEW d \in Callers, retrieval'[d].val # None
      PROVE  /\ retrieval'[d].state = "store"
             /\ retrieval'[d].val <= made
             /\ released'[retrieval'[d].val] = 0
             /\ \A l \in Keys : data'[l] # None => data'[l].val # retrieval'[d].val
             /\ \A e \in Callers : retrieval'[e].val = retrieval'[d].val => e = d
  <2>1. d # c /\ retrieval'[d] = retrieval[d] /\ retrieval[d].val # u
    BY <1>2, <1>5, <1>9
  <2>2. /\ retrieval[d].val \in Values
        /\ retrieval[d].state = "store"
        /\ retrieval[d].val <= made
        /\ released[retrieval[d].val] = 0
        /\ \A l \in Keys : data[l] # None => data[l].val # retrieval[d].val
        /\ \A e \in Callers : retrieval[e].val = retrieval[d].val => e = d
    BY <1>1, <1>9, <2>1 DEF RetrievalType, ValuesApart
  <2>3. released'[retrieval[d].val] = 0
    BY <2>2
  <2>4. \A l \in Keys : data'[l] # None => data'[l].val # retrieval[d].val
    BY <1>4, <2>1, <2>2
  <2>5. \A e \in Callers : retrieval'[e].val = retrieval[d].val => e = d
    BY <1>1, <1>5, <2>2
  <2>6. QED
    BY <2>1, <2>2, <2>3, <2>4, <2>5
<1>10. QED
  BY <1>6, <1>7, <1>8, <1>9 DEF ValuesApart

(* The rest of retrieve(). *)
LEMMA StoreKeeps ==
    ASSUME CoreInv, NEW c \in Callers, RetrieveStore(c)
    PROVE  CoreInv' /\ Leaving
<1> USE DEF CoreInv
<1> DEFINE ts == retrieval[c].ts
           k  == retrieval[c].key
           v  == retrieval[c].val
<1>1. /\ retrieval \in [Callers -> RetrievalType] /\ retrieval[c].state = "store"
      /\ k \in Keys /\ ts \in Time /\ v \in Values \cup {None}
      /\ UNCHANGED <<now, lock, closed, made, crashed>>
      /\ ctxDone' = ctxDone \ Woken(c)
  BY Types DEF RetrieveStore, CallsMatch, KeysKnown, RetrievalType
<1>2. /\ CallsMatch'
      /\ call' \in [Callers -> CallType]
      /\ retrieval' \in [Callers -> RetrievalType]
      /\ pending' \in [Keys -> Callers \cup {None}]
      /\ retrieval'[c] = NoRetrieval
      /\ \A d \in Callers \ {c} : retrieval'[d] = retrieval[d]
  BY <1>1, CallersWoken DEF RetrieveStore
<1>3. CASE Cacheable(retrieval[c]) /\ SetEntry(ts, k, v)
  <2>1. v \in Values /\ v # None
    BY <1>1, <1>3 DEF Cacheable
  <2>2. released[v] = 0 /\ \A l \in Keys : data[l] # None => data[l].val # v
    BY <2>1 DEF ValuesApart
  <2>3. SetEntry(ts, k, v) /\ ts \in Time /\ k \in Keys /\ now' = now
    BY <1>1, <1>3
  <2>4. v = retrieval[c].val
    OBVIOUS
  <2> HIDE DEF ts, k, v
  <2>5. /\ data' \in [Keys -> Entries \cup {None}]
        /\ data'[k] = [ts |-> ts, val |-> v]
        /\ \A l \in Keys \ {k} : data'[l] = data[l]
        /\ log' \in Seq([ts : Time, key : Keys])
        /\ cleaning' \in BOOLEAN
        /\ cleaner' \in [state : {"off", "top", "sleep", "lock"}, next : Nat, now : Time]
        /\ released' \in [Values -> Nat]
        /\ \A w \in Values : (\A l \in Keys : data[l] # None => data[l].val # w)
                                => released'[w] = released[w]
        /\ data[k] # None => released'[data[k].val] = 1
        /\ CachedValuesAreLive'
        /\ CleanerRuns'
        /\ EntriesAwaitCleanup'
    BY <2>1, <2>2, <2>3, SetEntryKeeps
  <2>6. Leaving
    BY <2>5 DEF Leaving
  <2>7. ValuesApart'
    <3>1. data'[k].val = retrieval[c].val /\ retrieval[c].val # None /\ made' = made
      BY <1>1, <2>1, <2>4, <2>5
    <3>2. QED
      BY <1>2, <2>3, <2>5, <3>1, StoredValueApart
  <2>8. TypeOK'
    BY <1>1, <1>2, <2>5 DEF TypeOK, CallType, RetrievalType
  <2>9. QED
    BY <1>2, <2>5, <2>6, <2>7, <2>8
<1>4. CASE UNCHANGED <<data, log, cleaning, cleaner, released>>
  <2>1. CleanerRuns' /\ CachedValuesAreLive' /\ Leaving
    BY <1>1, <1>4 DEF CleanerRuns, CachedValuesAreLive, Leaving
  <2>2. \A l \in Keys : Found(l)' <=> Found(l)
    BY <1>1, <1>4 DEF Found
  <2>3. EntriesAwaitCleanup'
    BY <1>4, <2>2 DEF EntriesAwaitCleanup
  <2>4. \A d \in Callers : retrieval'[d].val # None =>
           d # c /\ retrieval'[d] = retrieval[d]
    BY <1>2 DEF NoRetrieval
  <2>5. ValuesApart'
    <3>1. made' = made
      BY <1>1
    <3>2. QED
      BY <1>4, <2>4, <3>1 DEF ValuesApart
  <2>6. TypeOK'
    BY <1>1, <1>2, <1>4 DEF TypeOK, CallType, RetrievalType
  <2>7. QED
    BY <1>2, <2>1, <2>3, <2>5, <2>6
<1>5. QED
  BY <1>3, <1>4 DEF RetrieveStore

-----------------------------------------------------------------------------
(* cleanup() sleeps, and wakes. *)
LEMMA SleepKeeps ==
    ASSUME CoreInv, CleanupTop \/ CleanupWake
    PROVE  CoreInv' /\ Leaving
<1> USE DEF CoreInv
<1>1. /\ now \in Time /\ now \in Nat /\ 0 \in Time
      /\ cleaner \in [state : {"off", "top", "sleep", "lock"}, next : Nat, now : Time]
      /\ cleaner.state # "off"
      /\ UNCHANGED <<now, lock, closed, data, pending, log, cleaning, call,
                     ctxDone, retrieval, made, released, crashed>>
  BY Types DEF CleanupTop, CleanupWake, TypeOK
<1>2. /\ cleaner' \in [state : {"off", "top", "sleep", "lock"}, next : Nat, now : Time]
      /\ cleaner'.state # "off"
      /\ cleaner'.now <= now
  <2>1. CASE cleaner' = [cleaner EXCEPT !.state = "sleep"]
    BY <1>1, <2>1 DEF CleanerRuns
  <2>2. CASE cleaner' = [state |-> "lock", next |-> 0, now |-> now]
    BY <1>1, <2>2
  <2>3. QED
    BY <2>1, <2>2 DEF CleanupTop, CleanupWake
<1>3. CallsMatch'
  BY <1>1 DEF CallsMatch, KeysKnown, WaitsForEntry, EntryPending, SingleFlight
<1>4. ValuesApart' /\ CachedValuesAreLive' /\ Leaving
  BY <1>1 DEF ValuesApart, CachedValuesAreLive, Leaving
<1>5. CleanerRuns'
  BY <1>1, <1>2 DEF CleanerRuns
<1>6. EntriesAwaitCleanup'
  <2>1. \A l \in Keys : Found(l)' <=> Found(l)
    BY <1>1 DEF Found
  <2>2. QED
    BY <1>1, <1>2, <2>1 DEF EntriesAwaitCleanup
<1>7. TypeOK'
  BY <1>1, <1>2 DEF TypeOK
<1>8. QED
  BY <1>3, <1>4, <1>5, <1>6, <1>7

(* A record that is not among the first n of a log is in the rest of it. *)
LEMMA RestContains ==
    ASSUME NEW S, NEW s \in Seq(S), NEW n \in 0 .. Len(s), NEW i \in (n + 1) .. Len(s)
    PROVE  Contains(SubSeq(s, n + 1, Len(s)), s[i])
<1>1. Len(s) \in Nat /\ n \in Nat /\ i \in Nat
  BY LenProperties
<1> DEFINE m == n + 1
           l == Len(s)
           rest == SubSeq(s, m, l)
<1>2. m \in Int /\ l \in Int /\ \A j \in m .. l : s[j] \in S
  BY <1>1, ElementOfSeq
<1> HIDE DEF m, l
<1>3. /\ Len(rest) = IF m <= l THEN l - m + 1 ELSE 0
      /\ \A j \in 1 .. (l - m + 1) : rest[j] = s[m + j - 1]
  BY <1>2, SubSeqProperties
<1> HIDE DEF rest
<1>4. /\ i - n \in 1 .. Len(rest) /\ rest[i - n] = s[i]
  <2>1. m = n + 1 /\ l = Len(s)
    BY DEF m, l
  <2>2. m <= l /\ i - n \in 1 .. (l - m + 1) /\ m + (i - n) - 1 = i
    BY <1>1, <2>1
  <2>3. QED
    BY <1>3, <2>2
<1>5. QED
  BY <1>4 DEF Contains, rest, m, l

(* cleanup() goes by the time of the record at the head. *)
LEMMA HeadTimed ==
    ASSUME NEW s \in Seq([ts : Time, key : Keys]), s # <<>>
    PROVE  Head(s).ts \in Time
<1> DEFINE R == [ts : Time, key : Keys]
           h == Head(s)
<1>1. s \in Seq(R)
  OBVIOUS
<1> HIDE DEF R
<1>2. h \in R
  BY <1>1, HeadTailProperties
<1> HIDE DEF h
<1>3. h.ts \in Time
  BY <1>2 DEF R
<1>4. QED
  BY <1>3 DEF h

(* validate(), after which cleanup() goes on unless the log is empty. *)
LEMMA ValidateKeeps ==
    ASSUME CoreInv, CleanupValidate
    PROVE  CoreInv' /\ Leaving
<1> USE DEF CoreInv
<1>1. /\ now \in Nat /\ log \in Seq([ts : Time, key : Keys]) /\ 0 \in Time
      /\ \A k \in Keys : data[k] # None => data[k].ts \in Time
      /\ Time \subseteq Nat /\ Duration \in Nat
      /\ cleaner \in [state : {"off", "top", "sleep", "lock"}, next : Nat, now : Time]
  BY Types, CacheAssumption DEF TypeOK, Time
<1>2. PICK n \in 0 .. Len(log) :
         log' = SubSeq(log, n + 1, Len(log)) /\ \A i \in 1 .. n : Due(log[i])
  BY ValidateDrops
<1>3. PICK dropped \in SUBSET Keys :
         Release(dropped) /\ data' = [k \in Keys |-> IF k \in dropped THEN None ELSE data[k]]
  BY ValidateDrops
<1>4. /\ \/ log' = <<>> /\ cleaner' = NoCleaner /\ cleaning' = FALSE
         \/ /\ log' # <<>> /\ cleaning' = cleaning
            /\ cleaner' = [state |-> "top", next |-> Head(log').ts + Duration, now |-> 0]
      /\ UNCHANGED <<now, lock, closed, pending, call, ctxDone, retrieval, made, crashed>>
  BY ValidateDrops
<1>5. cleaner.state = "lock"
  BY DEF CleanupValidate
<1>6. /\ data' \in [Keys -> Entries \cup {None}] /\ released' \in [Values -> Nat]
      /\ ValuesApart' /\ CachedValuesAreLive' /\ Leaving
  BY <1>3, <1>4, RemovalReleases
<1>7. log' \in Seq([ts : Time, key : Keys])
  <2> DEFINE R == [ts : Time, key : Keys]
  <2>1. log \in Seq(R)
    BY <1>1
  <2> HIDE DEF R
  <2>2. Len(log) \in Nat /\ n + 1 \in Int /\ \A i \in (n + 1) .. Len(log) : log[i] \in R
    BY <2>1, LenProperties, ElementOfSeq
  <2>3. SubSeq(log, n + 1, Len(log)) \in Seq(R)
    BY <2>2, SubSeqProperties
  <2>4. QED
    BY <1>2, <2>3 DEF R
<1>8. /\ cleaner' \in [state : {"off", "top", "sleep", "lock"}, next : Nat, now : Time]
      /\ cleaner'.now = 0
      /\ cleaning' \in BOOLEAN
      /\ cleaning' <=> cleaner'.state # "off"
      /\ log' # <<>> => cleaning' /\ cleaner'.state # "off"
  <2>1. CASE log' = <<>> /\ cleaner' = NoCleaner /\ cleaning' = FALSE
    BY <1>1, <2>1 DEF NoCleaner
  <2>2. CASE /\ log' # <<>> /\ cleaning' = cleaning
             /\ cleaner' = [state |-> "top", next |-> Head(log').ts + Duration, now |-> 0]
    <3>1. cleaning = TRUE
      BY <1>5 DEF CleanerRuns, TypeOK
    <3>2. Head(log').ts \in Time
      BY <1>7, <2>2, HeadTimed
    <3>3. Head(log').ts + Duration \in Nat
      <4>1. Head(log').ts \in Nat /\ Duration \in Nat
        BY <1>1, <3>2
      <4>2. QED
        BY <4>1
    <3>4. QED
      BY <1>1, <2>2, <3>1, <3>3
  <2>3. QED
    BY <1>4, <2>1, <2>2
<1>9. CleanerRuns'
  BY <1>1, <1>4, <1>8 DEF CleanerRuns
<1>10. EntriesAwaitCleanup'
  <2>1. ASSUME NEW k \in Keys, Found(k)'
        PROVE  Contains(log', [ts |-> data'[k].ts, key |-> k])
    <3>1. data'[k] = data[k] /\ data[k] # None /\ data[k].ts + Duration > now
      BY <1>3, <1>4, <2>1 DEF Found
    <3>2. Contains(log, [ts |-> data[k].ts, key |-> k])
      BY <3>1 DEF EntriesAwaitCleanup, Found
    <3>3. PICK i \in 1 .. Len(log) : log[i] = [ts |-> data[k].ts, key |-> k]
      BY <3>2 DEF Contains
    <3>4. ~Due(log[i])
      <4>1. log[i].ts = data[k].ts
        BY <3>3
      <4>2. data[k].ts + Duration \in Nat
        <5>1. data[k].ts \in Time
          BY <1>1, <3>1
        <5>2. data[k].ts \in Nat /\ Duration \in Nat
          BY <1>1, <5>1
        <5>3. QED
          BY <5>2
      <4>3. cleaner.now \in Nat /\ cleaner.now <= now
        <5>1. cleaner.now \in Time
          BY <1>1
        <5>2. QED
          BY <1>1, <5>1 DEF CleanerRuns
      <4>4. QED
        BY <1>1, <3>1, <4>1, <4>2, <4>3 DEF Due
    <3>5. i \in (n + 1) .. Len(log)
      <4>1. Len(log) \in Nat
        BY <1>1, LenProperties
      <4>2. QED
        BY <1>2, <3>4, <4>1
    <3>6. Contains(SubSeq(log, n + 1, Len(log)), log[i])
      <4> DEFINE R == [ts : Time, key : Keys]
      <4>1. log \in Seq(R)
        BY <1>1
      <4> HIDE DEF R
      <4>2. QED
        BY <3>5, <4>1, RestContains
    <3>7. QED
      BY <1>2, <3>1, <3>3, <3>6
  <2>2. QED
    BY <1>8, <2>1 DEF EntriesAwaitCleanup
<1>11. CallsMatch'
  BY <1>4 DEF CallsMatch, KeysKnown, WaitsForEntry, EntryPending, SingleFlight
<1>12. TypeOK'
  BY <1>4, <1>6, <1>7, <1>8 DEF TypeOK
<1>13. QED
  BY <1>6, <1>9, <1>10, <1>11, <1>12

-----------------------------------------------------------------------------
(* Fewer Sets under way take less room. *)
LEMMA RoomShrinks ==
    ASSUME RoomKept, TypeOK, made' = made, Setters' \subseteq Setters
    PROVE  RoomKept'
<1> DEFINE before == Setters
           after  == Setters'
<1>1. IsFiniteSet(before) /\ Cardinality(before) \in Nat
  BY SettersCounted
<1>2. after \in SUBSET before
  OBVIOUS
<1>3. made \in Nat /\ MaxValues \in Nat /\ made + Cardinality(before) <= MaxValues
  BY Types, CacheAssumption DEF RoomKept
<1> HIDE DEF before, after
<1>4. IsFiniteSet(after) /\ Cardinality(after) <= Cardinality(before)
  BY <1>1, <1>2, FS_Subset
<1>5. Cardinality(after) \in Nat
  BY <1>4, FS_CardinalityType
<1>6. made + Cardinality(after) <= MaxValues
  BY <1>1, <1>3, <1>4, <1>5
<1>7. QED
  BY <1>6 DEF RoomKept, after

(* A Set begins only where there is room for its value, and leaves room for the
   next by the time it has made it. *)
LEMMA NextKeepsRoom ==
    ASSUME TypeOK, RoomKept, CallsMatch, [Next]_vars
    PROVE  RoomKept'
<1>1. /\ call \in [Callers -> CallType] /\ made \in Nat /\ MaxValues \in Nat
      /\ None \notin Callers
  BY Types, CacheAssumption
<1>2. IsFiniteSet(Setters) /\ Cardinality(Setters) \in Nat
  BY SettersCounted
<1>3. made + Cardinality(Setters) <= MaxValues
  BY DEF RoomKept
<1>4. ASSUME NEW c \in Callers, NEW op \in Ops, op # "set", NEW k, Begin(c, op, k)
      PROVE  RoomKept'
  <2>1. made' = made /\ Setters' \subseteq Setters
    BY <1>1, <1>4 DEF Begin, Setters
  <2>2. QED
    BY <2>1, RoomShrinks
<1>5. ASSUME NEW c \in Callers, BeginSet(c) PROVE RoomKept'
  <2>1. made + Cardinality(Setters) < MaxValues
    BY <1>5 DEF BeginSet, Room, Setters
  <2>2. made' = made /\ Setters' = Setters \cup {c}
    BY <1>1, <1>5 DEF BeginSet, Begin, Setters
  <2>3. Cardinality(Setters \cup {c}) <= Cardinality(Setters) + 1
    BY <1>2, FS_AddElement
  <2>4. Cardinality(Setters \cup {c}) \in Nat
    BY <1>2, FS_AddElement, FS_CardinalityType
  <2>5. made + Cardinality(Setters \cup {c}) <= MaxValues
    BY <1>1, <1>2, <2>1, <2>3, <2>4
  <2>6. QED
    BY <2>2, <2>5 DEF RoomKept
<1>6. ASSUME NEW c \in Callers, Set(c) PROVE RoomKept'
  <2>1. c \in Setters /\ Setters' = Setters \ {c}
    BY <1>1, <1>6 DEF Set, Return, Setters, Idle
  <2>2. CASE made' = made
    BY <2>1, <2>2, RoomShrinks
  <2>3. CASE made' = made + 1
    <3>1. Cardinality(Setters \ {c}) = Cardinality(Setters) - 1
      BY <1>2, <2>1, FS_RemoveElement
    <3>2. made + 1 + Cardinality(Setters \ {c}) <= MaxValues
      BY <1>1, <1>2, <1>3, <3>1
    <3>3. QED
      BY <2>1, <2>3, <3>2 DEF RoomKept
  <2>4. QED
    BY <1>6, <2>2, <2>3 DEF Set
<1>7. ASSUME NEW c \in Callers, LookupReturns(c) PROVE RoomKept'
  <2>1. Setters' = Setters
    BY <1>7 DEF LookupReturns, Setters
  <2>2. CASE Room /\ made' = made + 1
    <3>1. made + Cardinality(Setters) < MaxValues
      BY <2>2 DEF Room, Setters
    <3>2. made + 1 + Cardinality(Setters) <= MaxValues
      BY <1>1, <1>2, <3>1
    <3>3. QED
      BY <2>1, <2>2, <3>2 DEF RoomKept
  <2>3. CASE made' = made
    BY <2>1, <2>3, RoomShrinks
  <2>4. QED
    BY <1>7, <2>2, <2>3 DEF LookupReturns
<1>8. ASSUME NEW c \in Callers,
             Value(c) \/ FirstAttempt(c) \/ SecondAttempt(c) \/ Evict(c) \/ Close(c)
      PROVE  RoomKept'
  <2>1. made' = made
    BY <1>8 DEF Value, FirstAttempt, SecondAttempt, Evict, Close
  <2>2. \A d \in Callers \ {c} : call'[d] = call[d]
    BY <1>1, <1>8 DEF Value, FirstAttempt, SecondAttempt, Evict, Close, Return
  <2>3. call'[c].op # "set"
    <3>1. call[c] \in CallType
      BY <1>1
    <3>2. CASE call' = [call EXCEPT ![c] = Idle]
      BY <1>1, <3>2 DEF Idle
    <3>3. CASE call' = [call EXCEPT ![c].op = "second"]
      BY <1>1, <3>1, <3>3 DEF CallType
    <3>4. CASE \E e : call' = [call EXCEPT ![c] = [@ EXCEPT !.op = "wait", !.entry = e]]
      BY <1>1, <3>1, <3>4 DEF CallType
    <3>5. QED
      BY <1>8, <3>2, <3>3, <3>4
         DEF Value, FirstAttempt, SecondAttempt, Evict, Close, Return
  <2>4. Setters' \subseteq Setters
    BY <2>2, <2>3 DEF Setters
  <2>5. QED
    BY <2>1, <2>4, RoomShrinks
<1>9. ASSUME NEW c \in Callers, RetrieveStore(c) PROVE RoomKept'
  <2>1. made' = made /\ \A d \in Callers : call'[d] = Idle \/ call'[d] = call[d]
    BY <1>9 DEF RetrieveStore
  <2>2. Setters' \subseteq Setters
    BY <2>1 DEF Setters, Idle
  <2>3. QED
    BY <2>1, <2>2, RoomShrinks
<1>10. ASSUME UNCHANGED <<made, call>> PROVE RoomKept'
  BY <1>10 DEF RoomKept, Setters
<1>11. ASSUME NEW c \in Callers,
              BeginLookup(c) \/ BeginValue(c) \/ BeginEvict(c) \/ BeginClose(c)
       PROVE  RoomKept'
  BY <1>4, <1>11 DEF BeginLookup, BeginValue, BeginEvict, BeginClose, Ops
<1>12. ASSUME NEW c \in Callers, CancelContext(c) \/ RetrieveStart(c) PROVE RoomKept'
  BY <1>10, <1>12 DEF CancelContext, RetrieveStart
<1>13. CASE CleanupStep \/ WriterBlocks \/ Tick
  BY <1>10, <1>13
     DEF CleanupStep, CleanupTop, CleanupWake, CleanupValidate, WriterBlocks, Tick
<1>14. CASE UNCHANGED vars
  BY <1>10, <1>14 DEF vars
<1>15. QED
  BY <1>5, <1>6, <1>7, <1>8, <1>9, <1>11, <1>12, <1>13, <1>14 DEF Next, Proceed

(* NewCache makes an empty cache without a cleanup() goroutine. *)
LEMMA InitIndInv == Init => IndInv
<1> SUFFICES ASSUME Init PROVE IndInv
  OBVIOUS
<1>1. 0 \in Time /\ 0 \in 0 .. MaxValues /\ None \notin Callers
  BY CacheAssumption DEF Time
<1>2. TypeOK
  <2>1. Idle \in CallType /\ NoRetrieval \in RetrievalType
    BY <1>1 DEF Idle, NoRetrieval, CallType, RetrievalType, Ops
  <2>2. call \in [Callers -> CallType] /\ retrieval \in [Callers -> RetrievalType]
    BY <2>1 DEF Init
  <2>3. /\ data \in [Keys -> Entries \cup {None}]
        /\ pending \in [Keys -> Callers \cup {None}]
        /\ released \in [Values -> Nat]
        /\ log \in Seq([ts : Time, key : Keys])
    BY DEF Init, NoData
  <2>4. cleaner \in [state : {"off", "top", "sleep", "lock"}, next : Nat, now : Time]
    BY <1>1 DEF Init, NoCleaner
  <2>5. QED
    BY <1>1, <2>2, <2>3, <2>4 DEF Init, TypeOK, CallType, RetrievalType
<1>3. RoomKept
  <2>1. Setters = {}
    BY DEF Init, Setters, Idle
  <2>2. Cardinality(Setters) = 0
    BY <2>1, FS_EmptySet
  <2>3. QED
    BY <2>2, CacheAssumption DEF Init, RoomKept
<1>4. CallsMatch
  BY DEF Init, CallsMatch, KeysKnown, WaitsForEntry, EntryPending, SingleFlight,
         Idle, NoRetrieval
<1>5. ValuesApart /\ CachedValuesAreLive
  BY DEF Init, ValuesApart, CachedValuesAreLive, NoData, NoRetrieval
<1>6. CleanerRuns
  BY DEF Init, CleanerRuns, NoCleaner
<1>7. EntriesAwaitCleanup
  BY DEF Init, EntriesAwaitCleanup, Found, NoData
<1>8. QED
  BY <1>2, <1>3, <1>4, <1>5, <1>6, <1>7 DEF IndInv

(* Every step keeps the invariant, and releases what leaves the cache. *)
LEMMA NextKeeps ==
    ASSUME IndInv, [Next]_vars
    PROVE  IndInv' /\ Leaving
<1>1. CoreInv /\ RoomKept
  BY DEF IndInv, CoreInv
<1>2. RoomKept'
  BY NextKeepsRoom DEF IndInv
<1>3. CoreInv' /\ Leaving
  <2>1. ASSUME NEW c \in Callers,
               \/ BeginLookup(c) \/ BeginSet(c) \/ BeginValue(c)
               \/ BeginEvict(c) \/ BeginClose(c)
        PROVE  CoreInv' /\ Leaving
    <3>1. \A k \in Keys : k # None
      BY CacheAssumption
    <3>2. PICK op \in Ops \ {"idle", "wait"}, k \in Keys \cup {None} :
             (op \in {"first", "second", "set"} => k # None) /\ Begin(c, op, k)
      BY <2>1, <3>1 DEF BeginLookup, BeginSet, BeginValue, BeginEvict, BeginClose, Ops
    <3>3. QED
      BY <1>1, <3>2, BeginKeeps
  <2>2. ASSUME NEW c \in Callers, Proceed(c) PROVE CoreInv' /\ Leaving
    BY <1>1, <2>2, ReadKeeps, SecondKeeps, SetKeeps, EmptyingKeeps, StartKeeps,
       LookupKeeps, StoreKeeps DEF Proceed
  <2>3. CASE CleanupStep
    BY <1>1, <2>3, SleepKeeps, ValidateKeeps DEF CleanupStep
  <2>4. CASE WriterBlocks \/ \E c \in Callers : CancelContext(c)
    BY <1>1, <2>4, SidesKeep
  <2>5. CASE Tick
    BY <1>1, <2>5, TickKeeps
  <2>6. CASE UNCHANGED vars
    <3>1. TypeOK'
      BY <1>1, <2>6 DEF CoreInv, TypeOK, vars
    <3>2. CallsMatch'
      BY <1>1, <2>6
         DEF CoreInv, CallsMatch, KeysKnown, WaitsForEntry, EntryPending, SingleFlight, vars
    <3>3. ValuesApart' /\ CleanerRuns' /\ CachedValuesAreLive' /\ EntriesAwaitCleanup' /\ Leaving
      BY <1>1, <2>6, EntriesUntouched DEF CoreInv, vars
    <3>4. QED
      BY <3>1, <3>2, <3>3 DEF CoreInv
  <2>7. QED
    BY <2>1, <2>2, <2>3, <2>4, <2>5, <2>6 DEF Next
<1>4. QED
  BY <1>2, <1>3 DEF IndInv, CoreInv

-----------------------------------------------------------------------------
(* The inductive invariant holds in every state of the cache. *)
THEOREM Invariance == Spec => []IndInv
<1>1. IndInv /\ [Next]_vars => IndInv'
  BY NextKeeps
<1>2. QED
  BY InitIndInv, <1>1, PTL DEF Spec

(* Whatever the calls, lookups and cleanups in flight, no value is released
   twice, and none while the cache still hands it out. *)
THEOREM ReleasedOnce == Spec => []CachedValuesAreLive
<1>1. IndInv => CachedValuesAreLive
  BY DEF IndInv
<1>2. QED
  BY <1>1, Invariance, PTL

(* Misses share one lookup for each key, also over Evict and Close. *)
THEOREM OneLookupAtATime == Spec => []SingleFlight
<1>1. IndInv => SingleFlight
  BY DEF IndInv, CallsMatch
<1>2. QED
  BY <1>1, Invariance, PTL

(* No entry is left that cleanup() would never come to, in whatever order the
   Sets got the lock. *)
THEOREM NoEntryForgotten == Spec => []EntriesAwaitCleanup
<1>1. IndInv => EntriesAwaitCleanup
  BY DEF IndInv
<1>2. QED
  BY <1>1, Invariance, PTL

(* The variables keep their types. *)
THEOREM CacheTypes == Spec => []TypeOK
<1>1. IndInv => TypeOK
  BY DEF IndInv
<1>2. QED
  BY <1>1, Invariance, PTL

(* No value leaves the cache without having been released. *)
THEOREM WhatLeavesIsReleased == Spec => LeavingIsReleasing
<1>1. ASSUME IndInv, [Next]_vars
      PROVE  [\A k \in Keys :
                 data[k] # None /\ data'[k] # data[k] => released'[data[k].val] = 1]_vars
  BY <1>1, NextKeeps DEF Leaving
<1>2. QED
  BY <1>1, Invariance, PTL DEF Spec, LeavingIsReleasing
=============================================================================
