------------------------------- MODULE Update -------------------------------
(***************************************************************************)
(* monitor/update.go: one Update of the monitor, the fan-out of the        *)
(* backlogs a poll retrieves to the channels that Listen has returned.     *)
(*                                                                         *)
(* The processes are the compute() goroutines of the worker, one for each  *)
(* backlog, the callers of Listen, and the goroutines that send and cancel *)
(* spawn for each listener.  u.listeners is a Go slice: send's snapshot    *)
(* and the slice share a backing array until an append outgrows it and     *)
(* copies the updateListeners into a new one, so a listener has a cell in  *)
(* each array.  The copies share their channel and their mutex.            *)
(***************************************************************************)
EXTENDS Integers, FiniteSets

CONSTANTS
    Backlogs,      \* the backlogs that an update may be asked to carry
    Listeners,     \* the callers of Listen
    Cancellation,  \* what updateListener.cancel delivers instead of a backlog
    AllowCancel    \* whether Update.cancel, which has no caller yet, is called

ASSUME UpdateAssumption ==
    /\ IsFiniteSet(Backlogs)
    /\ IsFiniteSet(Listeners)
    /\ Cancellation \notin Backlogs
    /\ AllowCancel \in BOOLEAN

VARIABLES
    size,        \* u.size
    todo,        \* backlogs whose compute() is still running
    values,      \* u.values
    remaining,   \* u.remaining
    received,    \* the counter of the WaitGroup u.received
    canceled,    \* u.canceled
    slice,       \* u.listeners: its backing array, its elements, its capacity
    cells,       \* the updateListeners in each backing array
    chans,       \* the channel made for each listener
    deliveries,  \* goroutines running updateListener.send or .cancel
    panicked,    \* a goroutine has panicked
    moved        \* history: listeners copied with a value on its way to them

updateVars == <<size, todo, values, remaining, received, canceled, slice, cells,
                chans, deliveries, panicked, moved>>

(* newUpdate makes the first array; every Listen makes at most one more. *)
Arrays == 0 .. Cardinality(Listeners)
InitialCapacity == 2

Cells == [open : BOOLEAN, remaining : Nat]
(* How often each value is in the channel, and len(ch). *)
Chans == [state : {"none", "open", "closed"}, buffer : [Backlogs -> Nat], len : Nat]
Deliveries == [array : Arrays, to : Listeners, value : Backlogs \cup {Cancellation}]

UpdateTypeOK ==
    /\ size \in Nat
    /\ todo \in SUBSET Backlogs
    /\ values \in SUBSET Backlogs
    /\ remaining \in 0 .. size
    /\ received \in 0 .. size
    /\ canceled \in BOOLEAN
    /\ slice \in [array : Arrays, elems : SUBSET Listeners, cap : Nat]
    /\ cells \in [Arrays -> [Listeners -> Cells]]
    /\ chans \in [Listeners -> Chans]
    /\ deliveries \in SUBSET Deliveries
    /\ panicked \in BOOLEAN
    /\ moved \in SUBSET Listeners

NoCell == [open |-> FALSE, remaining |-> 0]
NoChan == [state |-> "none", buffer |-> [b \in Backlogs |-> 0], len |-> 0]

(* newUpdate(domain, size), for any part of the backlogs. *)
UpdateInit ==
    /\ todo \in SUBSET Backlogs
    /\ size = Cardinality(todo)
    /\ values = {}
    /\ remaining = size
    /\ received = size
    /\ canceled = FALSE
    /\ slice = [array |-> 0, elems |-> {}, cap |-> InitialCapacity]
    /\ cells = [a \in Arrays |-> [l \in Listeners |-> NoCell]]
    /\ chans = [l \in Listeners |-> NoChan]
    /\ deliveries = {}
    /\ panicked = FALSE
    /\ moved = {}

-----------------------------------------------------------------------------
(* Listen *)

(* append(u.listeners, ...) within the capacity of the backing array. *)
AppendInPlace(l, cell) ==
    /\ Cardinality(slice.elems) < slice.cap
    /\ slice' = [slice EXCEPT !.elems = @ \cup {l}]
    /\ cells' = [cells EXCEPT ![slice.array][l] = cell]
    /\ UNCHANGED moved

(* The same beyond it: a larger array, into which the elements are copied.
   Goroutines on their way to an element still have its place in the old one. *)
AppendToCopy(l, cell) ==
    /\ Cardinality(slice.elems) = slice.cap
    /\ LET fresh == slice.array + 1
       IN  /\ slice' = [array |-> fresh, elems |-> slice.elems \cup {l},
                        cap   |-> IF slice.cap = 0 THEN 1 ELSE 2 * slice.cap]
           /\ cells' = [cells EXCEPT ![fresh] =
                           [k \in Listeners |->
                               IF k = l THEN cell
                               ELSE IF k \in slice.elems THEN cells[slice.array][k]
                               ELSE NoCell]]
    /\ moved' = moved \cup {d.to : d \in {e \in deliveries : e.to \in slice.elems}}

CatchUpWithNothing == {}
(* for _, v := range u.values { ch <- v } *)
CatchUp == values

(* The channel that Listen returns, with what has been sent to it. *)
NewChan(state) == [state  |-> state,
                   buffer |-> [b \in Backlogs |-> IF b \in CatchUp THEN 1 ELSE 0],
                   len    |-> Cardinality(CatchUp)]

OneTooFew == [open |-> TRUE, remaining |-> remaining - 1]
OneTooMany == [open |-> TRUE, remaining |-> remaining + 1]
(* updateListener.init *)
NewCell == [open |-> TRUE, remaining |-> remaining]

(* Listen.  An update of size 0 and a canceled one return a closed channel. *)
Listen(l) ==
    /\ chans[l].state = "none"
    /\ \/ /\ size = 0 \/ canceled
          /\ chans' = [chans EXCEPT ![l] = NewChan("closed")]
          /\ UNCHANGED <<slice, cells, moved>>
       \/ /\ size > 0 /\ ~canceled
          /\ chans' = [chans EXCEPT ![l] = NewChan("open")]
          /\ AppendInPlace(l, NewCell) \/ AppendToCopy(l, NewCell)
    /\ UNCHANGED <<size, todo, values, remaining, received, canceled,
                   deliveries, panicked>>

-----------------------------------------------------------------------------
(* compute(): the worker's goroutine for one backlog *)

SpawnDeliveries(what) ==
    deliveries' = deliveries \cup
        {[array |-> slice.array, to |-> l, value |-> what] : l \in slice.elems}

(* u.listeners = nil *)
NilSlice == [array |-> slice.array, elems |-> {}, cap |-> 0]

(* send's early return. *)
Accepts == ~canceled

(* u.send(b), with the goroutines it spawns for the listeners. *)
Send(b) ==
    /\ b \in todo
    /\ todo' = todo \ {b}
    /\ \/ /\ ~Accepts
          /\ UNCHANGED <<values, remaining, received, slice, deliveries, panicked>>
       \/ /\ Accepts
          /\ remaining = 0
          /\ panicked' = TRUE
          /\ UNCHANGED <<values, remaining, received, slice, deliveries>>
       \/ /\ Accepts
          /\ remaining > 0
          /\ values' = values \cup {b}
          /\ received' = received - 1
          /\ remaining' = remaining - 1
          /\ slice' = IF remaining = 1 THEN NilSlice ELSE slice
          /\ SpawnDeliveries(b)
          /\ UNCHANGED panicked
    /\ UNCHANGED <<size, canceled, cells, chans, moved>>

(* compute() returns without sending when the poll has been cancelled. *)
Skip(b) ==
    /\ b \in todo
    /\ todo' = todo \ {b}
    /\ UNCHANGED <<size, values, remaining, received, canceled, slice, cells,
                   chans, deliveries, panicked, moved>>

(* cancel's early return. *)
Cancellable == ~canceled /\ remaining > 0

(* u.cancel() *)
Cancel ==
    /\ AllowCancel
    /\ Cancellable
    /\ canceled' = TRUE
    /\ received' = received - remaining
    /\ slice' = NilSlice
    /\ SpawnDeliveries(Cancellation)
    /\ UNCHANGED <<size, todo, values, remaining, cells, chans, panicked, moved>>

-----------------------------------------------------------------------------
(* The goroutines for the listeners.  ul.mutex makes each one step. *)

(* ul.ch = nil *)
WithoutChannel(cell) == [cell EXCEPT !.open = FALSE]

(* ul.ch <- backlog, and close(ul.ch) if it was the last. *)
Sent(ch, b, last) == [state  |-> IF last THEN "closed" ELSE "open",
                      buffer |-> [ch.buffer EXCEPT ![b] = @ + 1],
                      len    |-> ch.len + 1]

(* updateListener.send, which panics if the channel is closed and blocks
   while it is full.  The consumers do not receive: the channel alone must
   have room for everything. *)
DeliverBacklog(d) ==
    LET cell == cells[d.array][d.to]
        sent == [cell EXCEPT !.remaining = @ - 1]
    IN
    /\ d.value # Cancellation
    /\ \/ /\ ~cell.open
          /\ UNCHANGED <<cells, chans, panicked>>
       \/ /\ cell.open
          /\ chans[d.to].state = "closed"
          /\ panicked' = TRUE
          /\ UNCHANGED <<cells, chans>>
       \/ /\ cell.open
          /\ chans[d.to].state = "open"
          /\ chans[d.to].len < size
          /\ cells' = [cells EXCEPT ![d.array][d.to] =
                          IF sent.remaining = 0 THEN WithoutChannel(sent) ELSE sent]
          /\ chans' = [chans EXCEPT ![d.to] = Sent(@, d.value, sent.remaining = 0)]
          /\ UNCHANGED panicked

(* updateListener.cancel *)
DeliverCancellation(d) ==
    LET cell == cells[d.array][d.to] IN
    /\ d.value = Cancellation
    /\ \/ /\ ~cell.open
          /\ UNCHANGED <<cells, chans, panicked>>
       \/ /\ cell.open
          /\ panicked' = (panicked \/ chans[d.to].state = "closed")
          /\ chans' = [chans EXCEPT ![d.to].state = "closed"]
          /\ cells' = [cells EXCEPT ![d.array][d.to] = WithoutChannel(cell)]

Deliver(d) ==
    /\ d \in deliveries
    /\ DeliverBacklog(d) \/ DeliverCancellation(d)
    /\ deliveries' = deliveries \ {d}
    /\ UNCHANGED <<size, todo, values, remaining, received, canceled, slice, moved>>

-----------------------------------------------------------------------------
(* A panic ends the process. *)
UpdateNext ==
    /\ ~panicked
    /\ \/ \E l \in Listeners : Listen(l)
       \/ \E b \in Backlogs : Send(b) \/ Skip(b)
       \/ Cancel
       \/ \E d \in deliveries : Deliver(d)

UpdateSpec == UpdateInit /\ [][UpdateNext]_updateVars

(* A goroutine that has been spawned runs.  Nobody has to listen, to cancel or
   to complete the update. *)
FairUpdateSpec ==
    UpdateSpec /\ WF_updateVars(~panicked /\ \E d \in deliveries : Deliver(d))

-----------------------------------------------------------------------------
(* Properties *)

Listening(l) == chans[l].state # "none" /\ size > 0
InFlight(l, b) == {d \in deliveries : d.to = l /\ d.value = b}

(* Whenever a listener came, it is sent each value once: the value is in its
   channel or with a goroutine on its way there, never in both, neither when
   Listen caught up with it while send was delivering it, nor lost.  A cancel
   may only drop values on their way. *)
EachValueOnce ==
    \A l \in Listeners, b \in Backlogs :
        LET copies == chans[l].buffer[b] + Cardinality(InFlight(l, b)) IN
        /\ copies <= 1
        /\ b \notin values => copies = 0
        /\ b \in values /\ Listening(l) /\ ~canceled => copies = 1

(* A channel is closed once, nothing is sent to it afterwards (either would
   panic), and unless the update is cancelled it holds all u.size values by
   then: a range over it yields the whole update.  The one way to panic is a
   cancel after a listener's record has moved: its channel is closed through
   the new record and sent to through the old. *)
ClosedIsComplete ==
    /\ panicked => canceled /\ moved # {}
    /\ \A l \in Listeners :
          chans[l].state = "closed" /\ ~canceled => chans[l].len = size

(* Values have been sent, or given up by cancel. *)
Finished == remaining = 0 \/ canceled

(* Listen promises that a channel is closed once all values have been sent.
   The code keeps this for a listener that came while values were outstanding,
   unless a later Listen outgrew the array and moved its record away from a
   value on its way: that one's channel stays open, unless cancel closes it. *)
EarlyListenersClose ==
    \A l \in Listeners :
        /\ (/\ Finished
            /\ l \notin moved
            /\ \E a \in Arrays : cells[a][l].open /\ cells[a][l].remaining > 0)
               ~> (chans[l].state = "closed" \/ panicked)
        /\ [](l \in moved /\ ~canceled => chans[l].state = "open")
=============================================================================
