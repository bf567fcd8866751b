------------------------ MODULE UpdatePoller_proofs -------------------------
(***************************************************************************)
(* Proofs about two parts of a monitor's poll that share no state.         *)
(*                                                                         *)
(* Update, for any finite sets of backlogs and listeners: each value is    *)
(* sent once to each listener, and a closed channel holds them all.  The   *)
(* invariant relates what a listener's record in a backing array expects   *)
(* to what is on its way to it; it is strict for listeners that were moved *)
(* with a value on its way to the record they had.                         *)
(*                                                                         *)
(* Poller, for any sets of callers and invocations: OneInvocation and      *)
(* ClosingCancels are preserved by every step together with the typing.    *)
(* That nothing is sent on the closed p.pulse, and that the source is      *)
(* closed once and idle, also needs who holds p.mutex over a blocking step *)
(* and that only one call gets past Close's early return.                  *)
(***************************************************************************)
EXTENDS Update, Poller, FiniteSetTheorems, TLAPS

(* Listen has returned the channel of l. *)
Made(l) == chans[l].state # "none"

(* What is still to come: a value that has been sent is not outstanding, and
   every array but the first was made for a channel. *)
Totals ==
    /\ remaining + Cardinality(values) = size
    /\ values \cap todo = {}
    /\ Cardinality(todo) <= remaining
    /\ ~canceled => received = remaining
    /\ slice.array <= Cardinality({l \in Listeners : Made(l)})

(* While values are outstanding, u.listeners holds whoever has a channel. *)
Membership ==
    /\ size = 0 \/ canceled => slice.elems = {}
    /\ \A l \in slice.elems : Made(l)
    /\ ~canceled /\ remaining > 0 => \A l \in Listeners : Made(l) => l \in slice.elems

(* The goroutines on their way to a listener.  After the last value none of
   them is for a member of u.listeners. *)
Flights ==
    /\ IsFiniteSet(deliveries)
    /\ \A d \in deliveries :
          /\ d.array <= slice.array
          /\ Made(d.to)
          /\ remaining = 0 => d.to \notin slice.elems
          /\ d.value = Cancellation => canceled
          /\ d.value # Cancellation => d.value \in values

To(a, l) == {d \in deliveries : d.array = a /\ d.to = l}
Flying(a, l) == {d \in To(a, l) : d.value # Cancellation}

(* The record of l in array a may be used: by the next send, or by a goroutine
   that has been spawned.  Due is how many values it has yet to meet. *)
Current(a, l) == a = slice.array /\ l \in slice.elems
Active(a, l) == Current(a, l) \/ To(a, l) # {}
Due(a, l) == Cardinality(Flying(a, l)) + (IF Current(a, l) THEN remaining ELSE 0)

(* A record expects at least what it has yet to meet; more, if it is a record
   of a listener that was moved, so that no record of it closes the channel.
   One of a listener that was not moved is its only one in use, and expects
   exactly what is missing in the channel. *)
Record(a, l) ==
    /\ Due(a, l) <= cells[a][l].remaining
    /\ ~canceled =>
          /\ cells[a][l].remaining > 0 => cells[a][l].open
          /\ Active(a, l) => chans[l].state = "open"
          /\ l \in moved /\ Active(a, l) => Due(a, l) < cells[a][l].remaining
    /\ l \notin moved /\ Active(a, l) =>
          /\ cells[a][l].open => chans[l].state = "open"
          /\ ~canceled => cells[a][l].remaining + chans[l].len = size
          /\ \A c \in Arrays : Active(c, l) => c = a
Records == \A a \in Arrays, l \in Listeners : Record(a, l)

(* The channel of a listener that was moved is closed by a cancel only. *)
MovedStayOpen == ~canceled => \A l \in moved : chans[l].state = "open"

UpdateInv ==
    /\ UpdateTypeOK
    /\ Totals
    /\ Membership
    /\ Flights
    /\ Records
    /\ MovedStayOpen
    /\ EachValueOnce
    /\ ClosedIsComplete

-----------------------------------------------------------------------------
(* Part of a finite set. *)
LEMMA PartCard ==
    ASSUME NEW S, IsFiniteSet(S), NEW T \in SUBSET S
    PROVE  /\ IsFiniteSet(T)
           /\ Cardinality(T) \in Nat
           /\ Cardinality(S) \in Nat
           /\ Cardinality(T) <= Cardinality(S)
           /\ Cardinality(T) = 0 <=> T = {}
  BY FS_Subset, FS_CardinalityType, FS_EmptySet

(* The numbers of goroutines on their way. *)
LEMMA Counts ==
    ASSUME IsFiniteSet(deliveries)
    PROVE  /\ \A a, l : /\ IsFiniteSet(Flying(a, l))
                        /\ Cardinality(Flying(a, l)) \in Nat
                        /\ Cardinality(Flying(a, l)) = 0 <=> Flying(a, l) = {}
           /\ \A l, b : /\ IsFiniteSet(InFlight(l, b))
                        /\ Cardinality(InFlight(l, b)) \in Nat
                        /\ Cardinality(InFlight(l, b)) = 0 <=> InFlight(l, b) = {}
  <1>1. \A a, l : Flying(a, l) \in SUBSET deliveries
    BY DEF Flying, To
  <1>2. \A l, b : InFlight(l, b) \in SUBSET deliveries
    BY DEF InFlight
  <1> QED
    BY <1>1, <1>2, PartCard

(* spawning for the elements of u.listeners. *)
LEMMA SpawnEffects ==
    ASSUME UpdateTypeOK, IsFiniteSet(deliveries), NEW what, SpawnDeliveries(what)
    PROVE  /\ IsFiniteSet(deliveries')
           /\ deliveries \subseteq deliveries'
           /\ \A l \in slice.elems :
                 [array |-> slice.array, to |-> l, value |-> what] \in deliveries'
           /\ \A d \in deliveries' :
                 \/ d \in deliveries
                 \/ /\ d.array = slice.array
                    /\ d.to \in slice.elems
                    /\ d = [array |-> slice.array, to |-> d.to, value |-> what]
  <1> DEFINE rec(l) == [array |-> slice.array, to |-> l, value |-> what]
             new == {rec(l) : l \in slice.elems}
             f == [l \in slice.elems |-> rec(l)]
  <1>1. IsFiniteSet(slice.elems)
    BY UpdateAssumption, PartCard DEF UpdateTypeOK
  <1>2. f \in Surjection(slice.elems, new)
    BY DEF Surjection
  <1>3. IsFiniteSet(new)
    BY <1>1, <1>2, FS_Surjection
  <1>4. IsFiniteSet(deliveries')
    BY <1>3, FS_Union DEF SpawnDeliveries
  <1> QED
    BY <1>4 DEF SpawnDeliveries

(* One goroutine has done its work. *)
LEMMA DeliverEffects ==
    ASSUME IsFiniteSet(deliveries), NEW d \in deliveries, deliveries' = deliveries \ {d}
    PROVE  /\ IsFiniteSet(deliveries')
           /\ \A a, l : To(a, l)' \subseteq To(a, l) /\ Flying(a, l)' \subseteq Flying(a, l)
           /\ \A a, l : Cardinality(Flying(a, l)') =
                 Cardinality(Flying(a, l))
                   - (IF d.array = a /\ d.to = l /\ d.value # Cancellation THEN 1 ELSE 0)
           /\ \A l, b : Cardinality(InFlight(l, b)') =
                 Cardinality(InFlight(l, b)) - (IF d.to = l /\ d.value = b THEN 1 ELSE 0)
  <1>1. \A a, l : /\ Flying(a, l)' = Flying(a, l) \ {d}
                  /\ d \in Flying(a, l) <=> d.array = a /\ d.to = l /\ d.value # Cancellation
    BY DEF Flying, To
  <1>2. \A l, b : /\ InFlight(l, b)' = InFlight(l, b) \ {d}
                  /\ d \in InFlight(l, b) <=> d.to = l /\ d.value = b
    BY DEF InFlight
  <1>3. \A a, l : Cardinality(Flying(a, l)') =
                 Cardinality(Flying(a, l)) - (IF d \in Flying(a, l) THEN 1 ELSE 0)
    BY <1>1, Counts, FS_RemoveElement
  <1>4. \A l, b : Cardinality(InFlight(l, b)') =
                 Cardinality(InFlight(l, b)) - (IF d \in InFlight(l, b) THEN 1 ELSE 0)
    BY <1>2, Counts, FS_RemoveElement
  <1>5. IsFiniteSet(deliveries')
    BY FS_RemoveElement
  <1>6. \A a, l : To(a, l)' \subseteq To(a, l)
    BY DEF To
  <1> QED
    BY <1>1, <1>2, <1>3, <1>4, <1>5, <1>6

-----------------------------------------------------------------------------
(* newUpdate establishes the invariant. *)
LEMMA UpdateInitInv == UpdateInit => UpdateInv
  <1> SUFFICES ASSUME UpdateInit PROVE UpdateInv
    OBVIOUS
  <1> USE DEF UpdateInit
  <1>1. IsFiniteSet(todo) /\ Cardinality(todo) \in Nat
    BY UpdateAssumption, PartCard
  <1>2. Cardinality(Listeners) \in Nat
    BY UpdateAssumption, FS_CardinalityType
  <1>3. UpdateTypeOK
    <2>1. 0 \in Arrays
      BY <1>2 DEF Arrays
    <2>2. slice \in [array : Arrays, elems : SUBSET Listeners, cap : Nat]
      BY <2>1 DEF InitialCapacity
    <2>3. cells \in [Arrays -> [Listeners -> Cells]]
      BY DEF Cells, NoCell
    <2>4. chans \in [Listeners -> Chans]
      BY DEF Chans, NoChan
    <2>5. remaining \in 0 .. size /\ received \in 0 .. size
      BY <1>1
    <2> QED
      BY <1>1, <2>2, <2>3, <2>4, <2>5 DEF UpdateTypeOK
  <1>4. Totals
    <2>1. {l \in Listeners : Made(l)} = {}
      BY DEF Made, NoChan
    <2>2. slice.array = 0 /\ Cardinality({l \in Listeners : Made(l)}) = 0
      BY <2>1, FS_EmptySet
    <2>3. Cardinality(values) = 0
      BY FS_EmptySet
    <2> QED
      BY <1>1, <2>2, <2>3 DEF Totals
  <1>5. Membership /\ Flights
    BY FS_EmptySet DEF Membership, Flights, Made, NoChan
  <1>6. \A l, b : InFlight(l, b) = {}
    BY DEF InFlight
  <1>7. EachValueOnce
    <2>1. \A l, b : Cardinality(InFlight(l, b)) = 0
      BY <1>6, FS_EmptySet
    <2>2. \A l \in Listeners, b \in Backlogs : chans[l].buffer[b] = 0
      BY DEF NoChan
    <2> QED
      BY <2>1, <2>2 DEF EachValueOnce
  <1>8. Records
    <2>1. \A a, l : To(a, l) = {} /\ Flying(a, l) = {}
      BY DEF To, Flying
    <2>2. \A a, l : Cardinality(Flying(a, l)) = 0
      BY <2>1, FS_EmptySet
    <2>3. \A a, l : ~Current(a, l)
      BY DEF Current
    <2>4. \A a \in Arrays, l \in Listeners : cells[a][l].remaining = 0
      BY DEF NoCell
    <2> QED
      BY <2>1, <2>2, <2>3, <2>4 DEF Records, Record, Due, Active
  <1>9. MovedStayOpen /\ ClosedIsComplete
    BY DEF MovedStayOpen, ClosedIsComplete, NoChan
  <1> QED
    BY <1>3, <1>4, <1>5, <1>7, <1>8, <1>9 DEF UpdateInv

(* compute() sends a backlog: its value is sent, and each current record has
   one value fewer outstanding and one more on its way. *)
LEMMA SendStep ==
    ASSUME UpdateInv, NEW b \in Backlogs, Send(b) PROVE UpdateInv'
  <1> USE DEF UpdateInv
  <1>1. /\ IsFiniteSet(todo) /\ Cardinality(todo) \in Nat
        /\ IsFiniteSet(todo') /\ Cardinality(todo') = Cardinality(todo) - 1
    BY UpdateAssumption, PartCard, FS_RemoveElement DEF UpdateTypeOK, Send
  <1>2. IsFiniteSet(values) /\ Cardinality(values) \in Nat
    BY UpdateAssumption, PartCard DEF UpdateTypeOK
  <1>3. remaining \in Nat /\ size \in Nat /\ received \in Nat
    BY DEF UpdateTypeOK
  <1>4. b \in todo /\ b \notin values
    BY DEF Send, Totals
  <1>5. remaining > 0
    BY <1>1, <1>3, <1>4, FS_EmptySet DEF Totals
  <1>6. CASE canceled
    <2>1. /\ todo' = todo \ {b}
          /\ UNCHANGED <<size, values, remaining, received, canceled, slice, cells,
                         chans, deliveries, panicked, moved>>
      BY <1>6 DEF Send, Accepts
    <2>2. UpdateTypeOK'
      BY <2>1 DEF UpdateTypeOK
    <2>3. Totals'
      BY <1>1, <1>3, <2>1 DEF Totals, Made
    <2>4. Membership' /\ Flights' /\ MovedStayOpen' /\ ClosedIsComplete'
      BY <2>1 DEF Membership, Flights, Made, MovedStayOpen, ClosedIsComplete
    <2>5. /\ \A l, v : InFlight(l, v)' = InFlight(l, v)
          /\ \A a, l : To(a, l)' = To(a, l) /\ Flying(a, l)' = Flying(a, l)
          /\ \A a, l : Current(a, l)' = Current(a, l)
      BY <2>1 DEF InFlight, To, Flying, Current
    <2>6. Records'
      BY <2>1, <2>5 DEF Records, Record, Due, Active
    <2>7. EachValueOnce'
      BY <2>1, <2>5 DEF EachValueOnce, Listening
    <2> QED
      BY <2>2, <2>3, <2>4, <2>6, <2>7
  <1>7. CASE ~canceled
    <2>1. /\ todo' = todo \ {b}
          /\ values' = values \cup {b}
          /\ received' = received - 1
          /\ remaining' = remaining - 1
          /\ slice' = IF remaining = 1 THEN NilSlice ELSE slice
          /\ SpawnDeliveries(b)
          /\ UNCHANGED <<size, canceled, cells, chans, panicked, moved>>
      BY <1>5, <1>7 DEF Send, Accepts
    <2>2. /\ slice'.array = slice.array
          /\ slice'.elems = IF remaining = 1 THEN {} ELSE slice.elems
          /\ slice' \in [array : Arrays, elems : SUBSET Listeners, cap : Nat]
          /\ slice.elems \subseteq Listeners
      BY <2>1 DEF NilSlice, UpdateTypeOK
    <2>3. b # Cancellation
      BY UpdateAssumption
    <2> DEFINE new(l) == [array |-> slice.array, to |-> l, value |-> b]
    <2>4. /\ IsFiniteSet(deliveries')
          /\ deliveries \subseteq deliveries'
          /\ \A l \in slice.elems : new(l) \in deliveries'
          /\ \A d \in deliveries' :
                 \/ d \in deliveries
                 \/ /\ d.array = slice.array
                    /\ d.to \in slice.elems
                    /\ d = new(d.to)
      BY <2>1, SpawnEffects DEF Flights
    <2>5. UpdateTypeOK'
      <3>1. deliveries' \in SUBSET Deliveries
        BY <2>2, <2>4 DEF UpdateTypeOK, Deliveries
      <3>2. received = remaining /\ remaining \in 0 .. size
        BY <1>7 DEF Totals, UpdateTypeOK
      <3> QED
        BY <1>5, <2>1, <2>2, <3>1, <3>2 DEF UpdateTypeOK
    <2>6. Totals'
      <3>1. Cardinality(values') = Cardinality(values) + 1
        BY <1>2, <1>4, <2>1, FS_AddElement
      <3>2. {l \in Listeners : Made(l)}' = {l \in Listeners : Made(l)}
        BY <2>1 DEF Made
      <3>3. values' \cap todo' = {}
        BY <2>1 DEF Totals
      <3>4. received' = remaining'
        BY <1>7, <2>1 DEF Totals
      <3>5. Cardinality(todo') <= remaining'
        BY <1>1, <1>3, <2>1 DEF Totals
      <3>6. remaining' + Cardinality(values') = size'
        BY <1>2, <1>3, <2>1, <3>1 DEF Totals
      <3>7. slice'.array <= Cardinality({l \in Listeners : Made(l)}')
        BY <2>2, <3>2 DEF Totals
      <3> QED
        BY <3>3, <3>4, <3>5, <3>6, <3>7 DEF Totals
    <2>7. Membership'
      BY <1>3, <1>5, <2>1, <2>2 DEF Membership, Made
    <2>8. Flights'
      <3>1. ASSUME NEW d \in deliveries'
            PROVE  /\ d.array <= slice.array
                   /\ Made(d.to)
                   /\ d.value = Cancellation => canceled
                   /\ d.value # Cancellation => d.value \in values'
        BY <1>7, <2>1, <2>3, <2>4 DEF Flights, Membership, UpdateTypeOK, Arrays
      <3> QED
        BY <1>3, <1>5, <2>1, <2>2, <2>4, <3>1 DEF Flights, Made
    <2>9. ASSUME NEW a \in Arrays, NEW l \in Listeners
          PROVE  /\ Flying(a, l)' = IF Current(a, l) THEN Flying(a, l) \cup {new(l)}
                                                    ELSE Flying(a, l)
                 /\ Active(a, l)' => Active(a, l)
      BY <2>2, <2>3, <2>4 DEF Flying, To, Current, Active
    <2>10. ASSUME NEW a \in Arrays, NEW l \in Listeners
           PROVE  Due(a, l)' = Due(a, l) /\ Due(a, l) \in Nat
      <3>1. new(l) \notin Flying(a, l)
        BY <1>4, <2>3 DEF Flying, To, Flights
      <3>2. /\ Cardinality(Flying(a, l)) \in Nat
            /\ Cardinality(Flying(a, l)') =
                  Cardinality(Flying(a, l)) + (IF Current(a, l) THEN 1 ELSE 0)
        BY <2>9, <3>1, Counts, FS_AddElement DEF Flights
      <3>3. Current(a, l)' <=> Current(a, l) /\ remaining # 1
        BY <2>2 DEF Current
      <3> QED
        BY <1>3, <2>1, <3>2, <3>3 DEF Due
    <2>11. Records'
      BY <2>1, <2>9, <2>10 DEF Records, Record
    <2>12. MovedStayOpen' /\ ClosedIsComplete'
      BY <2>1 DEF MovedStayOpen, ClosedIsComplete
    <2>13. EachValueOnce'
      <3> SUFFICES ASSUME NEW l \in Listeners, NEW v \in Backlogs
                   PROVE  LET copies == chans[l].buffer[v] + Cardinality(InFlight(l, v)') IN
                          /\ copies <= 1
                          /\ v \notin values' => copies = 0
                          /\ v \in values' /\ Listening(l) => copies = 1
        BY <1>7, <2>1 DEF EachValueOnce, Listening
      <3>1. CASE v # b
        <4>1. InFlight(l, v)' = InFlight(l, v)
          BY <2>4, <3>1 DEF InFlight
        <4> QED
          BY <1>7, <2>1, <3>1, <4>1 DEF EachValueOnce
      <3>2. CASE v = b
        <4>1. chans[l].buffer[v] = 0 /\ InFlight(l, v) = {}
          <5>1. chans[l].buffer[v] + Cardinality(InFlight(l, v)) = 0
            BY <1>4, <3>2 DEF EachValueOnce
          <5> QED
            BY <5>1, Counts DEF UpdateTypeOK, Chans, Flights
        <4>2. InFlight(l, v)' = IF l \in slice.elems THEN {new(l)} ELSE {}
          BY <2>4, <3>2, <4>1 DEF InFlight
        <4>3. Listening(l) => l \in slice.elems
          BY <1>5, <1>7 DEF Membership, Made, Listening
        <4>4. Cardinality(InFlight(l, v)') = IF l \in slice.elems THEN 1 ELSE 0
          BY <4>2, FS_EmptySet, FS_Singleton
        <4>5. v \in values'
          BY <2>1, <3>2
        <4> QED
          BY <4>1, <4>3, <4>4, <4>5
      <3> QED
        BY <3>1, <3>2
    <2> QED
      BY <2>5, <2>6, <2>7, <2>8, <2>11, <2>12, <2>13
  <1> QED
    BY <1>6, <1>7

(* A step that changes neither the update, apart from compute() goroutines that
   end, nor its listeners. *)
LEMMA QuietStep ==
    ASSUME UpdateInv, todo' \in SUBSET todo,
           UNCHANGED <<size, values, remaining, received, canceled, slice, cells,
                       chans, deliveries, panicked, moved>>
    PROVE  UpdateInv'
  <1> USE DEF UpdateInv
  <1>1. /\ Cardinality(todo) \in Nat
        /\ Cardinality(todo') \in Nat
        /\ Cardinality(todo') <= Cardinality(todo)
    BY UpdateAssumption, PartCard DEF UpdateTypeOK
  <1>2. UpdateTypeOK'
    BY DEF UpdateTypeOK
  <1>3. Totals'
    <2>1. Cardinality(todo') <= remaining
      BY <1>1 DEF Totals, UpdateTypeOK
    <2> QED
      BY <2>1 DEF Totals, Made
  <1>4. Membership' /\ Flights' /\ MovedStayOpen' /\ ClosedIsComplete'
    BY DEF Membership, Flights, Made, MovedStayOpen, ClosedIsComplete
  <1>5. /\ \A l, v : InFlight(l, v)' = InFlight(l, v)
        /\ \A a, l : To(a, l)' = To(a, l) /\ Flying(a, l)' = Flying(a, l)
        /\ \A a, l : Current(a, l)' = Current(a, l)
    BY DEF InFlight, To, Flying, Current
  <1>6. Records'
    BY <1>5 DEF Records, Record, Due, Active
  <1>7. EachValueOnce'
    BY <1>5 DEF EachValueOnce, Listening
  <1> QED
    BY <1>2, <1>3, <1>4, <1>6, <1>7

(* cancel gives up the values that are outstanding: nothing is due any more
   but what is on its way. *)
LEMMA CancelStep == UpdateInv /\ Cancel => UpdateInv'
  <1> SUFFICES ASSUME UpdateInv, Cancel PROVE UpdateInv'
    OBVIOUS
  <1> USE DEF UpdateInv
  <1>1. /\ ~canceled /\ canceled' /\ remaining > 0
        /\ received' = received - remaining
        /\ slice' = NilSlice
        /\ SpawnDeliveries(Cancellation)
        /\ UNCHANGED <<size, todo, values, remaining, cells, chans, panicked, moved>>
    BY DEF Cancel, Cancellable
  <1>2. slice'.array = slice.array /\ slice'.elems = {}
    BY <1>1 DEF NilSlice
  <1> DEFINE new(l) == [array |-> slice.array, to |-> l, value |-> Cancellation]
  <1>3. /\ IsFiniteSet(deliveries')
        /\ deliveries \subseteq deliveries'
        /\ \A d \in deliveries' :
               \/ d \in deliveries
               \/ /\ d.array = slice.array
                  /\ d.to \in slice.elems
                  /\ d = new(d.to)
    BY <1>1, SpawnEffects DEF Flights
  <1>4. UpdateTypeOK'
    <2>1. deliveries' \in SUBSET Deliveries
      BY <1>3 DEF UpdateTypeOK, Deliveries
    <2>2. received = remaining /\ remaining \in 0 .. size
      BY <1>1 DEF Totals, UpdateTypeOK
    <2>3. slice' \in [array : Arrays, elems : SUBSET Listeners, cap : Nat]
      BY <1>1 DEF UpdateTypeOK, NilSlice
    <2> QED
      BY <1>1, <2>1, <2>2, <2>3 DEF UpdateTypeOK
  <1>5. Totals'
    BY <1>1, <1>2 DEF Totals, Made
  <1>6. Membership' /\ MovedStayOpen' /\ ClosedIsComplete'
    BY <1>1, <1>2 DEF Membership, MovedStayOpen, ClosedIsComplete
  <1>7. Flights'
    <2>1. ASSUME NEW d \in deliveries'
          PROVE  /\ d.array <= slice.array
                 /\ Made(d.to)
                 /\ d.value # Cancellation => d.value \in values
      BY <1>3 DEF Flights, Membership, UpdateTypeOK, Arrays
    <2> QED
      BY <1>1, <1>2, <1>3, <2>1 DEF Flights, Made
  <1>8. /\ \A a, l : Flying(a, l)' = Flying(a, l) /\ (Active(a, l)' => Active(a, l))
        /\ \A a, l : ~Current(a, l)'
        /\ \A l, v : v # Cancellation => InFlight(l, v)' = InFlight(l, v)
    BY <1>2, <1>3 DEF Flying, To, Current, Active, InFlight
  <1>9. Records'
    <2> SUFFICES ASSUME NEW a \in Arrays, NEW l \in Listeners PROVE Record(a, l)'
      BY DEF Records
    <2>1. Record(a, l)
      BY DEF Records
    <2>2. Due(a, l)' <= Due(a, l) /\ Due(a, l)' \in Nat /\ Due(a, l) \in Nat
      BY <1>1, <1>8, Counts DEF Due, Flights, UpdateTypeOK
    <2>3. cells[a][l].remaining \in Nat
      BY DEF UpdateTypeOK, Cells
    <2>4. Due(a, l)' <= cells[a][l].remaining
      BY <2>1, <2>2, <2>3 DEF Record
    <2> QED
      BY <1>1, <1>8, <2>1, <2>4 DEF Record
  <1>10. EachValueOnce'
    BY <1>1, <1>8, UpdateAssumption DEF EachValueOnce, Listening
  <1> QED
    BY <1>4, <1>5, <1>6, <1>7, <1>9, <1>10

(* What Listen does in any case: the channel it returns holds all values that
   have been sent, and nobody is on the way to it. *)
LEMMA ListenEffects ==
    ASSUME UpdateInv, NEW l \in Listeners, Listen(l)
    PROVE  /\ ~Made(l) /\ Made(l)'
           /\ \A k \in Listeners \ {l} : chans'[k] = chans[k]
           /\ chans'[l].len = Cardinality(values)
           /\ chans' \in [Listeners -> Chans]
           /\ \A a : To(a, l) = {}
           /\ slice.array + 1 \in Arrays
           /\ slice.array + 1 <= Cardinality({k \in Listeners : Made(k)}')
           /\ EachValueOnce'
  <1> USE DEF UpdateInv
  <1>1. IsFiniteSet(values) /\ Cardinality(values) \in Nat
    BY UpdateAssumption, PartCard DEF UpdateTypeOK
  <1>2. PICK state \in {"open", "closed"} : chans' = [chans EXCEPT ![l] = NewChan(state)]
    BY DEF Listen
  <1>3. NewChan(state) \in Chans
    BY <1>1 DEF NewChan, Chans, CatchUp
  <1>4. chans' \in [Listeners -> Chans]
    BY <1>2, <1>3 DEF UpdateTypeOK
  <1>5. /\ ~Made(l) /\ Made(l)'
        /\ \A k \in Listeners \ {l} : chans'[k] = chans[k]
        /\ chans'[l] = NewChan(state)
    BY <1>2 DEF UpdateTypeOK, Made, Listen, NewChan
  <1>6. /\ \A a : To(a, l) = {}
        /\ \A v : InFlight(l, v) = {}
    BY <1>5 DEF Flights, To, InFlight
  <1>7. slice.array + 1 \in Arrays /\ slice.array + 1 <= Cardinality({k \in Listeners : Made(k)}')
    <2> DEFINE made == {k \in Listeners : Made(k)}
    <2>1. {k \in Listeners : Made(k)}' = made \cup {l}
      BY <1>5 DEF Made
    <2>2. /\ IsFiniteSet(made) /\ Cardinality(made) \in Nat
          /\ Cardinality(made \cup {l}) = Cardinality(made) + 1
          /\ Cardinality(made \cup {l}) <= Cardinality(Listeners)
          /\ Cardinality(Listeners) \in Nat
      <3>1. IsFiniteSet(made) /\ Cardinality(made) \in Nat
        BY UpdateAssumption, PartCard
      <3>2. l \notin made
        BY <1>5
      <3> HIDE DEF made
      <3>3. Cardinality(made \cup {l}) = Cardinality(made) + 1
        BY <3>1, <3>2, FS_AddElement
      <3>4. made \cup {l} \in SUBSET Listeners
        BY DEF made
      <3> QED
        BY <3>1, <3>3, <3>4, UpdateAssumption, PartCard
    <2>3. slice.array \in Nat /\ slice.array <= Cardinality(made)
      BY DEF Totals, UpdateTypeOK, Arrays
    <2> HIDE DEF made
    <2> QED
      BY <2>1, <2>2, <2>3 DEF Arrays
  <1>8. chans'[l].len = Cardinality(values)
    BY <1>5 DEF NewChan, CatchUp
  <1>9. EachValueOnce'
    <2> SUFFICES ASSUME NEW k \in Listeners, NEW b \in Backlogs
                 PROVE  LET copies == chans'[k].buffer[b] + Cardinality(InFlight(k, b)) IN
                        /\ copies <= 1
                        /\ b \notin values => copies = 0
                        /\ b \in values /\ Listening(k)' /\ ~canceled => copies = 1
      <3>1. \A k, b : InFlight(k, b)' = InFlight(k, b)
        BY DEF Listen, InFlight
      <3> QED
        BY <3>1 DEF Listen, EachValueOnce
    <2>1. CASE k # l
      <3>1. Listening(k)' <=> Listening(k)
        BY <1>5, <2>1 DEF Listening, Listen
      <3> QED
        BY <1>5, <2>1, <3>1 DEF EachValueOnce
    <2>2. CASE k = l
      <3>1. Cardinality(InFlight(k, b)) = 0
        BY <1>6, <2>2, FS_EmptySet
      <3>2. chans'[k].buffer[b] = IF b \in values THEN 1 ELSE 0
        BY <1>5, <2>2 DEF NewChan, CatchUp
      <3> QED
        BY <3>1, <3>2
    <2> QED
      BY <2>1, <2>2
  <1> QED
    BY <1>4, <1>5, <1>6, <1>7, <1>8, <1>9

(* Listen on an update of size 0 or on a canceled one: the channel is closed
   and its caller is not listed. *)
LEMMA ListenClosedStep ==
    ASSUME UpdateInv, NEW l \in Listeners, Listen(l), size = 0 \/ canceled PROVE UpdateInv'
  <1> USE DEF UpdateInv
  <1>1. /\ chans' = [chans EXCEPT ![l] = NewChan("closed")]
        /\ UNCHANGED <<size, todo, values, remaining, received, canceled, slice, cells,
                       deliveries, panicked, moved>>
    BY DEF Listen, UpdateTypeOK
  <1>2. /\ ~Made(l) /\ Made(l)'
        /\ \A k \in Listeners \ {l} : chans'[k] = chans[k]
        /\ chans'[l].len = Cardinality(values)
        /\ chans' \in [Listeners -> Chans]
        /\ \A a : To(a, l) = {}
        /\ slice.array + 1 <= Cardinality({k \in Listeners : Made(k)}')
        /\ EachValueOnce'
    BY ListenEffects
  <1>3. UpdateTypeOK'
    BY <1>1, <1>2 DEF UpdateTypeOK
  <1>4. Totals'
    <2>1. slice.array <= Cardinality({k \in Listeners : Made(k)}')
      <3>1. IsFiniteSet({k \in Listeners : Made(k)}')
        BY UpdateAssumption, FS_Subset
      <3> QED
        BY <1>2, <3>1, FS_CardinalityType DEF UpdateTypeOK, Arrays
    <2> QED
      BY <1>1, <2>1 DEF Totals
  <1>5. \A k \in Listeners : Made(k) => Made(k)'
    BY <1>2 DEF Made
  <1>6. size = 0 => remaining = 0
    BY DEF UpdateTypeOK
  <1>7. Membership'
    BY <1>1, <1>2, <1>5, <1>6 DEF Membership, UpdateTypeOK
  <1>8. Flights'
    <2>1. \A d \in deliveries : d.to \in Listeners
      BY DEF UpdateTypeOK, Deliveries
    <2> QED
      BY <1>1, <1>5, <2>1 DEF Flights
  <1>9. /\ \A a, k : To(a, k)' = To(a, k) /\ Flying(a, k)' = Flying(a, k)
        /\ \A a, k : Current(a, k)' = Current(a, k)
        /\ \A a : ~Active(a, l)
    BY <1>1, <1>2 DEF To, Flying, Current, Active, Membership
  <1>10. Records'
    BY <1>1, <1>2, <1>9 DEF Records, Record, Due, Active
  <1>11. MovedStayOpen'
    BY <1>1, <1>2 DEF MovedStayOpen, Made, UpdateTypeOK
  <1>12. ClosedIsComplete'
    <2>1. ~canceled => chans'[l].len = size
      <3>1. IsFiniteSet(values) /\ Cardinality(values) \in Nat
        BY UpdateAssumption, PartCard DEF UpdateTypeOK
      <3> QED
        BY <1>2, <1>6, <3>1 DEF Totals
    <2> QED
      BY <1>1, <1>2, <2>1 DEF ClosedIsComplete
  <1> QED
    BY <1>2, <1>3, <1>4, <1>7, <1>8, <1>10, <1>11, <1>12

(* Listen while the update goes on: in either case of append the new record is
   current, its caller is listed, and nobody is on the way to it. *)
LEMMA ListenOpenEffects ==
    ASSUME UpdateInv, NEW l \in Listeners, Listen(l), size > 0, ~canceled,
           slice'.elems = slice.elems \cup {l},
           slice'.array \in {slice.array, slice.array + 1}
    PROVE  /\ chans'[l].state = "open"
           /\ UNCHANGED <<size, todo, values, remaining, received, canceled,
                          deliveries, panicked>>
           /\ Totals' /\ Membership' /\ Flights' /\ ClosedIsComplete' /\ EachValueOnce'
           /\ \A a, k : To(a, k)' = To(a, k) /\ Flying(a, k)' = Flying(a, k)
           /\ l \notin slice.elems
  <1> USE DEF UpdateInv
  <1>1. /\ chans' = [chans EXCEPT ![l] = NewChan("open")]
        /\ UNCHANGED <<size, todo, values, remaining, received, canceled,
                       deliveries, panicked>>
    BY DEF Listen, UpdateTypeOK
  <1>2. /\ ~Made(l) /\ Made(l)'
        /\ \A k \in Listeners \ {l} : chans'[k] = chans[k]
        /\ chans' \in [Listeners -> Chans]
        /\ \A a : To(a, l) = {}
        /\ slice.array + 1 <= Cardinality({k \in Listeners : Made(k)}')
        /\ EachValueOnce'
    BY ListenEffects
  <1>3. chans'[l].state = "open"
    BY <1>1 DEF UpdateTypeOK, NewChan
  <1>4. Totals'
    <2>1. slice'.array <= Cardinality({k \in Listeners : Made(k)}')
      <3>1. IsFiniteSet({k \in Listeners : Made(k)}')
        BY UpdateAssumption, FS_Subset
      <3> QED
        BY <1>2, <3>1, FS_CardinalityType DEF UpdateTypeOK, Arrays
    <2> QED
      BY <1>1, <2>1 DEF Totals
  <1>5. \A k \in Listeners : Made(k) => Made(k)'
    BY <1>2 DEF Made
  <1>6. Membership'
    <2>1. \A k \in slice.elems : k \in Listeners
      BY DEF UpdateTypeOK
    <2>2. \A k \in Listeners : Made(k)' => Made(k) \/ k = l
      BY <1>2 DEF Made
    <2> QED
      BY <1>1, <1>2, <1>5, <2>1, <2>2 DEF Membership, UpdateTypeOK
  <1>7. Flights'
    <2>1. \A d \in deliveries : d.to \in Listeners /\ d.to # l
      BY <1>2 DEF UpdateTypeOK, Deliveries, Flights
    <2>2. \A d \in deliveries : d.array <= slice'.array
      BY DEF Flights, UpdateTypeOK, Deliveries, Arrays
    <2> QED
      BY <1>1, <1>5, <2>1, <2>2 DEF Flights
  <1>8. ClosedIsComplete'
    <2>1. \A k \in Listeners : chans'[k].state = "closed" => k # l
      BY <1>3
    <2>2. ~panicked
      BY DEF ClosedIsComplete
    <2> QED
      BY <1>1, <1>2, <2>1, <2>2 DEF ClosedIsComplete
  <1>9. \A a, k : To(a, k)' = To(a, k) /\ Flying(a, k)' = Flying(a, k)
    BY <1>1 DEF To, Flying
  <1>10. l \notin slice.elems
    BY <1>2 DEF Membership
  <1> QED
    BY <1>1, <1>2, <1>3, <1>4, <1>6, <1>7, <1>8, <1>9, <1>10

(* Listen, appending within the capacity of the backing array. *)
LEMMA ListenInPlaceStep ==
    ASSUME UpdateInv, NEW l \in Listeners, Listen(l), size > 0, ~canceled,
           AppendInPlace(l, NewCell)
    PROVE  UpdateInv'
  <1> USE DEF UpdateInv
  <1>1. /\ slice'.array = slice.array
        /\ slice'.elems = slice.elems \cup {l}
        /\ slice' \in [array : Arrays, elems : SUBSET Listeners, cap : Nat]
        /\ cells' = [cells EXCEPT ![slice.array][l] = NewCell]
        /\ slice.array \in Arrays
        /\ UNCHANGED moved
    BY DEF AppendInPlace, UpdateTypeOK
  <1>2. /\ ~Made(l)
        /\ \A k \in Listeners \ {l} : chans'[k] = chans[k]
        /\ chans'[l].len = Cardinality(values)
        /\ chans' \in [Listeners -> Chans]
        /\ \A a : To(a, l) = {}
    BY ListenEffects
  <1>3. /\ chans'[l].state = "open"
        /\ UNCHANGED <<size, todo, values, remaining, received, canceled,
                       deliveries, panicked>>
        /\ Totals' /\ Membership' /\ Flights' /\ ClosedIsComplete' /\ EachValueOnce'
        /\ \A a, k : To(a, k)' = To(a, k) /\ Flying(a, k)' = Flying(a, k)
        /\ l \notin slice.elems
    BY <1>1, ListenOpenEffects
  <1>4. UpdateTypeOK'
    <2>1. NewCell \in Cells
      BY DEF UpdateTypeOK, NewCell, Cells
    <2>2. cells' \in [Arrays -> [Listeners -> Cells]]
      BY <1>1, <2>1 DEF UpdateTypeOK
    <2> QED
      BY <1>1, <1>2, <1>3, <2>2 DEF UpdateTypeOK
  <1>5. ASSUME NEW a \in Arrays, NEW k \in Listeners
        PROVE  /\ Current(a, k)' <=> Current(a, k) \/ (a = slice.array /\ k = l)
               /\ Active(a, k)' <=> Active(a, k) \/ (a = slice.array /\ k = l)
               /\ cells'[a][k] = IF a = slice.array /\ k = l THEN NewCell ELSE cells[a][k]
    <2>1. Current(a, k)' <=> Current(a, k) \/ (a = slice.array /\ k = l)
      BY <1>1 DEF Current
    <2>2. cells'[a][k] = IF a = slice.array /\ k = l THEN NewCell ELSE cells[a][k]
      BY <1>1 DEF UpdateTypeOK
    <2> QED
      BY <1>3, <2>1, <2>2 DEF Active
  <1>6. ASSUME NEW a \in Arrays
        PROVE  ~Active(a, l) /\ Cardinality(Flying(a, l)) = 0
    BY <1>2, <1>3, FS_EmptySet DEF Active, Current, Flying
  <1>7. MovedStayOpen'
    BY <1>1, <1>2, <1>3 DEF MovedStayOpen, Made, UpdateTypeOK
  <1>8. ASSUME NEW a \in Arrays, NEW k \in Listeners PROVE Record(a, k)'
    <2>1. CASE k # l
      <3>1. /\ Due(a, k)' = Due(a, k)
            /\ Active(a, k)' <=> Active(a, k)
            /\ cells'[a][k] = cells[a][k] /\ chans'[k] = chans[k]
            /\ \A c \in Arrays : Active(c, k)' <=> Active(c, k)
        <4>1. Current(a, k)' <=> Current(a, k)
          BY <1>5, <2>1
        <4>2. Flying(a, k)' = Flying(a, k) /\ remaining' = remaining
          BY <1>3
        <4>3. Due(a, k)' = Due(a, k)
          BY <4>1, <4>2 DEF Due
        <4> QED
          BY <1>2, <1>5, <2>1, <4>3
      <3> QED
        BY <1>1, <1>3, <3>1 DEF Records, Record
    <2>2. CASE k = l /\ a # slice.array
      <3>1. /\ Due(a, k)' = 0
            /\ ~Active(a, k)'
            /\ cells'[a][k] = cells[a][k]
            /\ cells[a][k].remaining >= 0
        <4>1. ~Current(a, k)' /\ ~Active(a, k)'
          BY <1>5, <1>6, <2>2 DEF Active
        <4>2. Due(a, k)' = 0
          BY <1>3, <1>6, <2>2, <4>1 DEF Due
        <4> QED
          BY <1>5, <2>2, <4>1, <4>2 DEF UpdateTypeOK, Cells
      <3> QED
        BY <1>3, <3>1 DEF Records, Record
    <2>3. CASE k = l /\ a = slice.array
      <3>1. /\ Due(a, k)' = remaining
            /\ cells'[a][k] = NewCell
            /\ \A c \in Arrays : Active(c, k)' => c = a
        BY <1>3, <1>5, <1>6, <2>3 DEF Due, UpdateTypeOK
      <3>2. l \notin moved
        BY <1>2 DEF MovedStayOpen, Made
      <3>3. remaining + Cardinality(values) = size
        BY DEF Totals
      <3> QED
        BY <1>1, <1>2, <1>3, <2>3, <3>1, <3>2, <3>3 DEF Record, NewCell, UpdateTypeOK
    <2> QED
      BY <2>1, <2>2, <2>3
  <1>9. Records'
    BY <1>8 DEF Records
  <1> QED
    BY <1>3, <1>4, <1>7, <1>9

(* Listen, outgrowing the backing array: the records of the listeners are
   copied.  Whoever has a value on its way to the old record is moved, and the
   new record will wait for that value too. *)
LEMMA ListenCopyStep ==
    ASSUME UpdateInv, NEW l \in Listeners, Listen(l), size > 0, ~canceled,
           AppendToCopy(l, NewCell)
    PROVE  UpdateInv'
  <1> USE DEF UpdateInv
  <1> DEFINE old == slice.array
             fresh == slice.array + 1
  <1>1. /\ slice'.array = fresh
        /\ slice'.elems = slice.elems \cup {l}
        /\ cells' = [cells EXCEPT ![fresh] =
                        [k \in Listeners |->
                            IF k = l THEN NewCell
                            ELSE IF k \in slice.elems THEN cells[slice.array][k]
                            ELSE NoCell]]
        /\ moved' = moved \cup {d.to : d \in {e \in deliveries : e.to \in slice.elems}}
    BY DEF AppendToCopy
  <1>2. /\ ~Made(l)
        /\ \A k \in Listeners \ {l} : chans'[k] = chans[k]
        /\ chans'[l].len = Cardinality(values)
        /\ chans' \in [Listeners -> Chans]
        /\ \A a : To(a, l) = {}
        /\ fresh \in Arrays /\ old \in Arrays /\ old # fresh
    <2>1. old \in Arrays /\ old # fresh
      BY DEF UpdateTypeOK, Arrays
    <2> QED
      BY <2>1, ListenEffects
  <1>3. /\ chans'[l].state = "open"
        /\ UNCHANGED <<size, todo, values, remaining, received, canceled,
                       deliveries, panicked>>
        /\ Totals' /\ Membership' /\ Flights' /\ ClosedIsComplete' /\ EachValueOnce'
        /\ \A a, k : To(a, k)' = To(a, k) /\ Flying(a, k)' = Flying(a, k)
        /\ l \notin slice.elems
    BY <1>1, ListenOpenEffects
  <1>4. /\ remaining \in Nat
        /\ slice.elems \subseteq Listeners
        /\ \A a \in Arrays, k \in Listeners : cells[a][k].remaining \in Nat
        /\ \A a, k : Cardinality(Flying(a, k)) \in Nat
        /\ \A a, k : Cardinality(Flying(a, k)) = 0 <=> Flying(a, k) = {}
    <2>1. remaining \in Nat
      BY DEF UpdateTypeOK
    <2>2. \A a \in Arrays, k \in Listeners : cells[a][k].remaining \in Nat
      BY DEF UpdateTypeOK, Cells
    <2>3. slice.elems \subseteq Listeners
      BY DEF UpdateTypeOK
    <2> QED
      BY <2>1, <2>2, <2>3, Counts DEF Flights
  <1>5. UpdateTypeOK'
    <2>1. NewCell \in Cells /\ NoCell \in Cells
      BY <1>4 DEF NewCell, NoCell, Cells
    <2>2. cells' \in [Arrays -> [Listeners -> Cells]]
      <3>1. [k \in Listeners |->
                            IF k = l THEN NewCell
                            ELSE IF k \in slice.elems THEN cells[slice.array][k]
                            ELSE NoCell] \in [Listeners -> Cells]
        BY <1>2, <2>1 DEF UpdateTypeOK
      <3> QED
        BY <1>1, <3>1 DEF UpdateTypeOK
    <2>3. slice' \in [array : Arrays, elems : SUBSET Listeners, cap : Nat]
      BY <1>2 DEF AppendToCopy, UpdateTypeOK
    <2>4. moved' \in SUBSET Listeners
      BY <1>1, <1>4 DEF UpdateTypeOK
    <2> QED
      BY <1>2, <1>3, <2>2, <2>3, <2>4 DEF UpdateTypeOK
  <1>6. \A k \in Listeners :
           /\ cells'[fresh][k] = IF k = l THEN NewCell
                                 ELSE IF k \in slice.elems THEN cells[old][k] ELSE NoCell
           /\ \A a \in Arrays \ {fresh} : cells'[a][k] = cells[a][k]
    BY <1>1, <1>2 DEF UpdateTypeOK
  <1>7. \A k : To(fresh, k) = {} /\ Flying(fresh, k) = {} /\ Cardinality(Flying(fresh, k)) = 0
    <2>1. \A k : To(fresh, k) = {}
      BY DEF To, Flights, UpdateTypeOK, Deliveries, Arrays
    <2> QED
      BY <2>1, FS_EmptySet DEF Flying
  <1>8. \A a, k : Current(a, k)' <=> a = fresh /\ (k \in slice.elems \/ k = l)
    BY <1>1 DEF Current
  <1>9. \A a, k : /\ Due(a, k)' = IF Current(a, k)' THEN Cardinality(Flying(a, k)) + remaining
                                                    ELSE Cardinality(Flying(a, k))
                  /\ Due(a, k) = IF Current(a, k) THEN Cardinality(Flying(a, k)) + remaining
                                                  ELSE Cardinality(Flying(a, k))
    BY <1>3, <1>4 DEF Due
  <1>10. \A a, k : Active(a, k)' <=> Current(a, k)' \/ To(a, k) # {}
    BY <1>3 DEF Active
  <1>11. \A k \in Listeners : k \in moved' => k \in moved \/ k \in slice.elems
    BY <1>1
  <1>12. ASSUME NEW k \in slice.elems
         PROVE  /\ Record(old, k)
                /\ Active(old, k)
                /\ Due(old, k) = Cardinality(Flying(old, k)) + remaining
                /\ Due(old, k) <= cells[old][k].remaining
                /\ k \in moved => Due(old, k) < cells[old][k].remaining
                /\ chans[k].state = "open"
                /\ chans'[k] = chans[k]
                /\ Cardinality(Flying(old, k)) \in Nat
                /\ cells[old][k].remaining \in Nat
    <2>1. Record(old, k) /\ Active(old, k) /\ Current(old, k)
      BY <1>2, <1>4 DEF Records, Active, Current
    <2> QED
      BY <1>2, <1>3, <1>4, <1>9, <2>1 DEF Record
  (* Its values on their way, if it is moved for them, are on their way to its
     record in the old array, and more is to come. *)
  <1>13. ASSUME NEW k \in slice.elems, k \notin moved
         PROVE  /\ \A a \in Arrays : To(a, k) # {} => a = old
                /\ \A a \in Arrays : k \notin moved' => To(a, k) = {}
                /\ k \in moved' => Cardinality(Flying(old, k)) > 0 /\ remaining > 0
    <2>1. \A a \in Arrays : To(a, k) # {} => a = old
      BY <1>2, <1>12, <1>13 DEF Record, Active
    <2>2. \A a \in Arrays : k \notin moved' => To(a, k) = {}
      BY <1>1 DEF To
    <2>3. ASSUME k \in moved' PROVE Cardinality(Flying(old, k)) > 0 /\ remaining > 0
      <3>1. PICK d \in deliveries : d.to = k
        BY <1>1, <1>13, <2>3
      <3>2. d \in To(d.array, k) /\ d.array \in Arrays
        BY <3>1 DEF To, UpdateTypeOK, Deliveries
      <3>3. d \in Flying(old, k)
        BY <2>1, <3>1, <3>2 DEF Flying, Flights
      <3> QED
        BY <1>4, <3>1, <3>3 DEF Flights
    <2> QED
      BY <2>1, <2>2, <2>3
  <1>14. MovedStayOpen'
    <2>1. l \notin moved
      BY <1>2 DEF MovedStayOpen, Made
    <2> QED
      BY <1>2, <1>3, <1>5, <1>11, <1>12, <2>1 DEF MovedStayOpen, UpdateTypeOK
  <1>15. ASSUME NEW a \in Arrays, NEW k \in Listeners PROVE Record(a, k)'
    <2>1. CASE k = l /\ a = fresh
      <3>1. /\ Due(a, k)' = remaining
            /\ cells'[a][k] = NewCell
            /\ \A c \in Arrays : Active(c, k)' => c = a
        BY <1>2, <1>4, <1>6, <1>7, <1>8, <1>9, <1>10, <2>1
      <3>2. l \notin moved'
        BY <1>1, <1>2, <1>3 DEF MovedStayOpen, Made
      <3>3. remaining + Cardinality(values) = size
        BY DEF Totals
      <3> QED
        BY <1>2, <1>3, <1>4, <2>1, <3>1, <3>2, <3>3 DEF Record, NewCell
    <2>2. CASE k = l /\ a # fresh
      <3>1. /\ ~Active(a, k)'
            /\ Due(a, k)' = Due(a, k)
            /\ cells'[a][k] = cells[a][k]
        BY <1>2, <1>3, <1>6, <1>8, <1>9, <1>10, <2>2 DEF Current
      <3> QED
        BY <1>3, <3>1 DEF Records, Record
    <2>3. CASE k # l /\ k \notin slice.elems /\ a = fresh
      <3>1. ~Active(a, k)' /\ Due(a, k)' = 0 /\ cells'[a][k] = NoCell
        BY <1>6, <1>7, <1>8, <1>9, <1>10, <2>3
      <3> QED
        BY <3>1 DEF Record, NoCell
    <2>4. CASE k # l /\ k \notin slice.elems /\ a # fresh
      <3>1. /\ \A c \in Arrays : Active(c, k)' <=> Active(c, k)
            /\ Due(a, k)' = Due(a, k)
            /\ cells'[a][k] = cells[a][k]
            /\ chans'[k] = chans[k]
            /\ k \in moved' <=> k \in moved
        BY <1>1, <1>2, <1>6, <1>8, <1>9, <1>10, <1>11, <2>4 DEF Active, Current
      <3> QED
        BY <1>3, <3>1 DEF Records, Record
    <2>5. CASE k \in slice.elems /\ a = fresh
      <3>1. /\ Due(a, k)' = remaining
            /\ cells'[a][k] = cells[old][k]
            /\ Due(old, k) = Cardinality(Flying(old, k)) + remaining
        BY <1>3, <1>4, <1>6, <1>7, <1>8, <1>9, <1>12, <2>5
      <3>2. k \notin moved' => k \notin moved /\ \A c \in Arrays : Active(c, k)' => c = fresh
        BY <1>1, <1>8, <1>10, <1>13, <2>5
      <3>3. k \in moved' => Due(a, k)' < cells[old][k].remaining
        <4>1. CASE k \in moved
          <5>1. Due(old, k) < cells[old][k].remaining
            BY <1>12, <2>5, <4>1
          <5> QED
            BY <1>4, <1>12, <2>5, <3>1, <5>1
        <4>2. CASE k \notin moved
          <5>1. Due(old, k) <= cells[old][k].remaining
            BY <1>12, <2>5
          <5>2. k \in moved' => Cardinality(Flying(old, k)) > 0
            BY <1>13, <2>5, <4>2
          <5> QED
            BY <1>4, <1>12, <2>5, <3>1, <5>1, <5>2
        <4> QED
          BY <4>1, <4>2
      <3>4. Due(a, k)' <= cells[old][k].remaining
        BY <1>2, <1>4, <1>12, <2>5, <3>1
      <3> QED
        BY <1>2, <1>3, <1>12, <2>5, <3>1, <3>2, <3>3, <3>4 DEF Record
    <2>6. CASE k \in slice.elems /\ a # fresh
      <3>1. /\ Due(a, k)' = Cardinality(Flying(a, k))
            /\ Due(a, k) = Cardinality(Flying(a, k)) + (IF a = old THEN remaining ELSE 0)
            /\ cells'[a][k] = cells[a][k]
            /\ Active(a, k)' => To(a, k) # {} /\ Active(a, k)
            /\ chans'[k] = chans[k]
            /\ Record(a, k)
        <4>1. ~Current(a, k)' /\ (Current(a, k) <=> a = old)
          BY <1>8, <2>6 DEF Current
        <4>2. /\ Due(a, k)' = Cardinality(Flying(a, k))
              /\ Due(a, k) = Cardinality(Flying(a, k)) + (IF a = old THEN remaining ELSE 0)
          BY <1>4, <1>9, <4>1
        <4>3. Active(a, k)' => To(a, k) # {} /\ Active(a, k)
          BY <1>10, <4>1 DEF Active
        <4> QED
          BY <1>6, <1>12, <2>6, <4>2, <4>3 DEF Records
      <3>2. Due(a, k)' <= cells[a][k].remaining
        BY <1>4, <3>1 DEF Record
      <3>3. k \notin moved' => ~Active(a, k)'
        BY <1>1, <1>8, <1>10, <1>13, <2>6, <3>1
      <3>4. k \in moved' /\ Active(a, k)' => Due(a, k)' < cells[a][k].remaining
        <4>1. CASE k \in moved
          BY <1>3, <1>4, <3>1, <4>1 DEF Record
        <4>2. CASE k \notin moved
          BY <1>3, <1>4, <1>13, <2>6, <3>1, <4>2 DEF Record
        <4> QED
          BY <4>1, <4>2
      <3> QED
        BY <1>3, <3>1, <3>2, <3>3, <3>4 DEF Record
    <2> QED
      BY <1>3, <2>1, <2>2, <2>3, <2>4, <2>5, <2>6
  <1>16. Records'
    BY <1>15 DEF Records
  <1> QED
    BY <1>3, <1>5, <1>14, <1>16

(* A goroutine on its way to a listener, when it ends, leaves the update and
   the list of its listeners alone. *)
LEMMA DeliverKeeps ==
    ASSUME UpdateInv, NEW d \in deliveries, Deliver(d),
           \A k \in Listeners : Made(k)' <=> Made(k)
    PROVE  /\ Totals' /\ Membership' /\ Flights'
           /\ deliveries' \in SUBSET Deliveries
           /\ d.array \in Arrays /\ d.to \in Listeners
           /\ d.value # Cancellation => d.value \in Backlogs
           /\ Active(d.array, d.to) /\ Record(d.array, d.to)
           /\ d.value # Cancellation => Cardinality(Flying(d.array, d.to)) > 0
           /\ \A a, k : /\ Cardinality(Flying(a, k)) \in Nat
                        /\ Current(a, k)' <=> Current(a, k)
                        /\ Active(a, k)' => Active(a, k)
           /\ \A a \in Arrays, k \in Listeners :
                 /\ Due(a, k) \in Nat
                 /\ Due(a, k)' = Due(a, k)
                       - (IF d.array = a /\ d.to = k /\ d.value # Cancellation THEN 1 ELSE 0)
                 /\ cells[a][k].remaining \in Nat
  <1> USE DEF UpdateInv
  <1>1. /\ deliveries' = deliveries \ {d}
        /\ UNCHANGED <<size, todo, values, remaining, received, canceled, slice, moved>>
    BY DEF Deliver
  <1>2. Totals'
    <2>1. {k \in Listeners : Made(k)}' = {k \in Listeners : Made(k)}
      OBVIOUS
    <2> QED
      BY <1>1, <2>1 DEF Totals
  <1>3. Membership'
    BY <1>1 DEF Membership, UpdateTypeOK
  <1>4. IsFiniteSet(deliveries')
    BY <1>1, DeliverEffects DEF Flights
  <1>5. Flights'
    <2>1. \A e \in deliveries' : e \in deliveries /\ e.to \in Listeners
      BY <1>1 DEF UpdateTypeOK, Deliveries
    <2> QED
      BY <1>1, <1>4, <2>1 DEF Flights
  <1>6. /\ deliveries' \in SUBSET Deliveries
        /\ d.array \in Arrays /\ d.to \in Listeners
        /\ d.value # Cancellation => d.value \in Backlogs
    BY <1>1 DEF UpdateTypeOK, Deliveries
  <1>7. d \in To(d.array, d.to)
    BY DEF To
  <1>8. Active(d.array, d.to) /\ Record(d.array, d.to)
    BY <1>6, <1>7 DEF Active, Records
  <1>9. \A a, k : /\ Cardinality(Flying(a, k)) \in Nat
                  /\ Cardinality(Flying(a, k)) = 0 <=> Flying(a, k) = {}
    BY Counts DEF Flights
  <1>10. d.value # Cancellation => Cardinality(Flying(d.array, d.to)) > 0
    BY <1>7, <1>9 DEF Flying
  <1>11. \A a, k : Current(a, k)' <=> Current(a, k)
    BY <1>1 DEF Current
  <1>12. \A a, k : Active(a, k)' => Active(a, k)
    BY <1>1, <1>11 DEF Active, To
  <1>13. ASSUME NEW a \in Arrays, NEW k \in Listeners
         PROVE  /\ Due(a, k) \in Nat
                /\ Due(a, k)' = Due(a, k)
                      - (IF d.array = a /\ d.to = k /\ d.value # Cancellation THEN 1 ELSE 0)
                /\ cells[a][k].remaining \in Nat
    <2>1. Cardinality(Flying(a, k)') = Cardinality(Flying(a, k))
             - (IF d.array = a /\ d.to = k /\ d.value # Cancellation THEN 1 ELSE 0)
      BY <1>1, DeliverEffects DEF Flights
    <2>2. remaining \in Nat /\ cells[a][k].remaining \in Nat
      BY DEF UpdateTypeOK, Cells
    <2>3. Cardinality(Flying(a, k)) \in Nat
      BY <1>9
    <2> QED
      BY <1>1, <1>11, <2>1, <2>2, <2>3 DEF Due
  <1> QED
    BY <1>2, <1>3, <1>5, <1>6, <1>8, <1>9, <1>10, <1>11, <1>12, <1>13

(* A goroutine that finds its record without a channel, or the channel closed,
   which makes it panic: the update is canceled. *)
LEMMA DeliverNothingStep ==
    ASSUME UpdateInv, NEW d \in deliveries, Deliver(d), UNCHANGED <<cells, chans>>
    PROVE  UpdateInv'
  <1> USE DEF UpdateInv
  <1> DEFINE cell == cells[d.array][d.to]
  <1>1. /\ deliveries' = deliveries \ {d}
        /\ UNCHANGED <<size, todo, values, remaining, received, canceled, slice, moved>>
        /\ DeliverBacklog(d) \/ DeliverCancellation(d)
    BY DEF Deliver
  <1>2. /\ Totals' /\ Membership' /\ Flights'
        /\ deliveries' \in SUBSET Deliveries
        /\ d.array \in Arrays /\ d.to \in Listeners
        /\ Active(d.array, d.to) /\ Record(d.array, d.to)
        /\ d.value # Cancellation => Cardinality(Flying(d.array, d.to)) > 0
        /\ \A a, k : /\ Cardinality(Flying(a, k)) \in Nat
                     /\ Active(a, k)' => Active(a, k)
        /\ \A a \in Arrays, k \in Listeners :
              /\ Due(a, k) \in Nat
              /\ Due(a, k)' = Due(a, k)
                    - (IF d.array = a /\ d.to = k /\ d.value # Cancellation THEN 1 ELSE 0)
              /\ cells[a][k].remaining \in Nat
    <2>1. \A k \in Listeners : Made(k)' <=> Made(k)
      BY DEF Made
    <2> HIDE DEF UpdateInv
    <2> QED
      BY <2>1, DeliverKeeps
  <1>3. cell \in Cells /\ chans[d.to] \in Chans
    BY <1>2 DEF UpdateTypeOK
  <1>4. /\ panicked' \in BOOLEAN
        /\ panicked' => panicked \/ (cell.open /\ chans[d.to].state = "closed")
    <2>1. CASE DeliverBacklog(d)
      <3>1. \/ panicked' = panicked
            \/ cell.open /\ chans[d.to].state = "closed" /\ panicked' = TRUE
        BY <2>1 DEF DeliverBacklog
      <3>2. panicked \in BOOLEAN
        BY DEF UpdateTypeOK
      <3> HIDE DEF UpdateInv, cell
      <3>3. panicked' \in BOOLEAN
        BY <3>1, <3>2
      <3> QED
        BY <3>1, <3>3
    <2>2. CASE DeliverCancellation(d)
      <3>1. \/ panicked' = panicked
            \/ cell.open /\ panicked' = (panicked \/ chans[d.to].state = "closed")
        BY <2>2 DEF DeliverCancellation
      <3>2. panicked \in BOOLEAN
        BY DEF UpdateTypeOK
      <3> HIDE DEF UpdateInv, cell
      <3>3. panicked' \in BOOLEAN
        BY <3>1, <3>2
      <3> QED
        BY <3>1, <3>3
    <2> QED
      BY <1>1, <2>1, <2>2
  <1>5. canceled
    <2>1. CASE d.value = Cancellation
      BY <2>1 DEF Flights
    <2>2. CASE d.value # Cancellation
      <3>1. ~cell.open \/ chans[d.to].state # "open"
        <4> SUFFICES ASSUME cell.open, chans[d.to].state = "open" PROVE FALSE
          OBVIOUS
        <4>1. chans'[d.to].len = chans[d.to].len + 1
          BY <1>1, <1>2, <2>2 DEF DeliverBacklog, DeliverCancellation, Sent, UpdateTypeOK
        <4> QED
          BY <1>3, <4>1 DEF Chans
      <3>2. Due(d.array, d.to) > 0
        <4>1. Cardinality(Flying(d.array, d.to)) > 0 /\ Cardinality(Flying(d.array, d.to)) \in Nat
          BY <1>2, <2>2
        <4>2. remaining \in Nat
          BY DEF UpdateTypeOK
        <4> QED
          BY <4>1, <4>2 DEF Due
      <3> QED
        BY <1>2, <3>1, <3>2 DEF Record
    <2> QED
      BY <2>1, <2>2
  <1>6. UpdateTypeOK'
    BY <1>1, <1>2, <1>4 DEF UpdateTypeOK
  <1>7. Records'
    <2> SUFFICES ASSUME NEW a \in Arrays, NEW k \in Listeners PROVE Record(a, k)'
      BY DEF Records
    <2>1. Due(a, k)' <= cells[a][k].remaining
      <3>1. Due(a, k) <= cells[a][k].remaining
        BY DEF Records, Record
      <3> QED
        BY <1>2, <3>1
    <2>2. Record(a, k)
      BY DEF Records
    <2> QED
      BY <1>1, <1>2, <1>5, <2>1, <2>2 DEF Record
  <1>8. MovedStayOpen'
    BY <1>1, <1>5 DEF MovedStayOpen
  <1>9. EachValueOnce'
    <2> SUFFICES ASSUME NEW l \in Listeners, NEW b \in Backlogs
                 PROVE  LET copies == chans[l].buffer[b] + Cardinality(InFlight(l, b)') IN
                        /\ copies <= 1
                        /\ b \notin values => copies = 0
      BY <1>1, <1>5 DEF EachValueOnce
    <2>1. chans[l].buffer[b] \in Nat
      BY DEF UpdateTypeOK, Chans
    <2>2. Cardinality(InFlight(l, b)) \in Nat /\ Cardinality(InFlight(l, b)') \in Nat
      <3>1. InFlight(l, b) \in SUBSET deliveries /\ InFlight(l, b)' \in SUBSET deliveries
        BY <1>1 DEF InFlight
      <3> QED
        BY <3>1, PartCard DEF Flights
    <2>3. Cardinality(InFlight(l, b)') <= Cardinality(InFlight(l, b))
      BY <1>1, <2>2, DeliverEffects DEF Flights
    <2> QED
      BY <2>1, <2>2, <2>3 DEF EachValueOnce
  <1>10. ClosedIsComplete'
    <2>1. cell.open /\ chans[d.to].state = "closed" => d.to \in moved
      BY <1>2 DEF Record
    <2> QED
      BY <1>1, <1>4, <1>5, <2>1 DEF ClosedIsComplete
  <1> QED
    BY <1>2, <1>6, <1>7, <1>8, <1>9, <1>10

(* updateListener.send reaches an open channel. *)
LEMMA DeliverSendStep ==
    ASSUME UpdateInv, NEW d \in deliveries, Deliver(d), d.value # Cancellation,
           cells[d.array][d.to].open, chans[d.to].state = "open"
    PROVE  UpdateInv'
  <1> USE DEF UpdateInv
  <1> DEFINE a0 == d.array
             l0 == d.to
             cell == cells[a0][l0]
             last == cell.remaining - 1 = 0
  <1>1. /\ deliveries' = deliveries \ {d}
        /\ UNCHANGED <<size, todo, values, remaining, received, canceled, slice, moved,
                       panicked>>
        /\ LET sent == [cell EXCEPT !.remaining = @ - 1] IN
           cells' = [cells EXCEPT ![a0][l0] =
                        IF sent.remaining = 0 THEN WithoutChannel(sent) ELSE sent]
        /\ LET sent == [cell EXCEPT !.remaining = @ - 1] IN
           chans' = [chans EXCEPT ![l0] = Sent(@, d.value, sent.remaining = 0)]
    BY DEF Deliver, DeliverBacklog, DeliverCancellation
  <1>2. a0 \in Arrays /\ l0 \in Listeners /\ d.value \in Backlogs
    BY DEF UpdateTypeOK, Deliveries
  <1>3. cell \in Cells /\ chans[l0] \in Chans
    BY <1>2 DEF UpdateTypeOK
  <1>4. /\ cells'[a0][l0] = [open |-> ~last, remaining |-> cell.remaining - 1]
        /\ \A a \in Arrays, k \in Listeners :
              (a # a0 \/ k # l0) => cells'[a][k] = cells[a][k]
    <2> DEFINE sent == [cell EXCEPT !.remaining = @ - 1]
               now == IF sent.remaining = 0 THEN WithoutChannel(sent) ELSE sent
    <2>1. sent = [open |-> TRUE, remaining |-> cell.remaining - 1]
      <3>1. \A c \in Cells : [c EXCEPT !.remaining = @ - 1] =
                                [open |-> c.open, remaining |-> c.remaining - 1]
        BY DEF Cells
      <3>2. cell.open = TRUE
        BY <1>3 DEF Cells
      <3> QED
        BY <1>3, <3>1, <3>2
    <2>2. now = [open |-> ~last, remaining |-> cell.remaining - 1]
      BY <2>1 DEF WithoutChannel
    <2>3. cells' = [cells EXCEPT ![a0][l0] = now]
      BY <1>1
    <2> HIDE DEF now, sent
    <2> QED
      BY <1>2, <2>2, <2>3 DEF UpdateTypeOK
  <1>5. /\ chans'[l0] = Sent(chans[l0], d.value, last)
        /\ \A k \in Listeners : k # l0 => chans'[k] = chans[k]
        /\ chans' = [chans EXCEPT ![l0] = Sent(chans[l0], d.value, last)]
    <2>1. [cell EXCEPT !.remaining = @ - 1].remaining = cell.remaining - 1
      BY <1>3 DEF Cells
    <2> QED
      BY <1>1, <1>2, <2>1 DEF UpdateTypeOK
  <1>6. /\ chans'[l0].state = IF last THEN "closed" ELSE "open"
        /\ chans'[l0].len = chans[l0].len + 1
        /\ chans'[l0].buffer = [chans[l0].buffer EXCEPT ![d.value] = @ + 1]
    BY <1>5 DEF Sent
  <1>7. /\ Totals' /\ Membership' /\ Flights'
        /\ deliveries' \in SUBSET Deliveries
        /\ Active(a0, l0) /\ Record(a0, l0)
        /\ Cardinality(Flying(a0, l0)) > 0
        /\ \A a, k : /\ Cardinality(Flying(a, k)) \in Nat
                     /\ Current(a, k)' <=> Current(a, k)
                     /\ Active(a, k)' => Active(a, k)
        /\ \A a \in Arrays, k \in Listeners :
              /\ Due(a, k) \in Nat
              /\ Due(a, k)' = Due(a, k) - (IF a0 = a /\ l0 = k THEN 1 ELSE 0)
              /\ cells[a][k].remaining \in Nat
    <2>1. \A k \in Listeners : Made(k)' <=> Made(k)
      BY <1>5, <1>6 DEF Made
    <2> HIDE DEF UpdateInv, cell, last
    <2> QED
      BY <2>1, DeliverKeeps
  <1>8. /\ cell.remaining \in Nat /\ cell.remaining > 0
        /\ Due(a0, l0) \in Nat /\ Due(a0, l0) > 0 /\ Due(a0, l0) <= cell.remaining
        /\ Due(a0, l0) = Cardinality(Flying(a0, l0)) + (IF Current(a0, l0) THEN remaining ELSE 0)
        /\ remaining \in Nat
    <2>1. remaining \in Nat
      BY DEF UpdateTypeOK
    <2>2. Cardinality(Flying(a0, l0)) \in Nat /\ Cardinality(Flying(a0, l0)) > 0
      BY <1>7
    <2>3. Due(a0, l0) \in Nat /\ Due(a0, l0) > 0
      BY <2>1, <2>2 DEF Due
    <2>4. cell.remaining \in Nat /\ Due(a0, l0) <= cell.remaining
      BY <1>2, <1>7 DEF Record
    <2> QED
      BY <2>1, <2>3, <2>4 DEF Due
  <1>9. UpdateTypeOK'
    <2>1. Sent(chans[l0], d.value, last) \in Chans
      BY <1>2, <1>3 DEF Sent, Chans
    <2>2. chans' \in [Listeners -> Chans]
      BY <1>5, <2>1 DEF UpdateTypeOK
    <2>3. [open |-> ~last, remaining |-> cell.remaining - 1] \in Cells
      BY <1>8 DEF Cells
    <2>4. cells' \in [Arrays -> [Listeners -> Cells]]
      <3>1. cells'[a0][l0] \in Cells
        BY <1>4, <2>3
      <3>2. PICK now : cells' = [cells EXCEPT ![a0][l0] = now]
        BY <1>1
      <3>3. now \in Cells
        BY <1>2, <3>1, <3>2 DEF UpdateTypeOK
      <3> QED
        BY <3>2, <3>3 DEF UpdateTypeOK
    <2> QED
      BY <1>1, <1>7, <2>2, <2>4 DEF UpdateTypeOK
  (* If this closes the channel, nothing else is due and the listener is not
     one that was moved. *)
  <1>10. ASSUME last, ~canceled PROVE ~Active(a0, l0)' /\ l0 \notin moved
    <2>1. cell.remaining = 1
      BY <1>8, <1>10
    <2>2. l0 \notin moved
      BY <1>7, <1>8, <1>10, <2>1 DEF Record
    <2>3. ~Current(a0, l0)
      <3> SUFFICES ASSUME Current(a0, l0) PROVE FALSE
        OBVIOUS
      <3>1. remaining = 0
        BY <1>7, <1>8, <2>1
      <3> QED
        BY <3>1 DEF Flights, Current
    <2>4. To(a0, l0)' = {}
      <3>1. Cardinality(Flying(a0, l0)) = 1
        BY <1>7, <1>8, <2>1, <2>3
      <3>2. PICK e : Flying(a0, l0) = {e}
        BY <3>1, Counts, FS_Singleton DEF Flights
      <3>3. d \in Flying(a0, l0)
        BY DEF Flying, To
      <3>4. To(a0, l0) = Flying(a0, l0)
        BY <1>10 DEF Flying, To, Flights
      <3> QED
        BY <1>1, <3>2, <3>3, <3>4 DEF To
    <2> QED
      BY <1>7, <2>2, <2>3, <2>4 DEF Active
  <1> HIDE DEF last
  <1>11. ASSUME NEW a \in Arrays, NEW k \in Listeners PROVE Record(a, k)'
    <2>1. Record(a, k)
      BY DEF Records
    <2>2. CASE k # l0
      <3>1. cells'[a][k] = cells[a][k] /\ chans'[k] = chans[k] /\ Due(a, k)' = Due(a, k)
        BY <1>4, <1>5, <1>7, <2>2
      <3> QED
        BY <1>1, <1>7, <2>1, <3>1 DEF Record
    <2>3. CASE k = l0 /\ a # a0
      <3>1. cells'[a][k] = cells[a][k] /\ Due(a, k)' = Due(a, k)
        BY <1>4, <1>7, <2>3
      <3>2. k \notin moved => ~Active(a, k)'
        BY <1>2, <1>7, <2>3 DEF Record
      <3>3. k \in moved /\ ~canceled => chans'[k].state = "open"
        BY <1>6, <1>10, <2>3
      <3> QED
        BY <1>1, <1>7, <2>1, <3>1, <3>2, <3>3 DEF Record
    <2>4. CASE k = l0 /\ a = a0
      <3>1. /\ Due(a, k)' = Due(a, k) - 1
            /\ cells'[a][k].remaining = cell.remaining - 1
            /\ cells'[a][k].open <=> ~last
        <4>1. cells'[a][k] = [open |-> ~last, remaining |-> cell.remaining - 1]
          BY <1>4, <2>4
        <4>2. Due(a, k)' = Due(a, k) - 1
          BY <1>7, <2>4
        <4>3. cells'[a][k].open <=> ~last
          <5>1. ASSUME NEW c, NEW m, NEW n, c = [open |-> ~(m - 1 = 0), remaining |-> n]
                PROVE  c.open <=> ~(m - 1 = 0)
            BY <5>1
          <5> HIDE DEF cell
          <5> QED
            BY <4>1, <5>1 DEF last
        <4>4. cells'[a][k].remaining = cell.remaining - 1
          BY <4>1
        <4> QED
          BY <4>2, <4>3, <4>4
      <3>2. last => cell.remaining - 1 = 0
        BY DEF last
      <3>3. ~canceled =>
              /\ cells'[a][k].remaining > 0 => cells'[a][k].open
              /\ Active(a, k)' => chans'[k].state = "open"
              /\ k \in moved /\ Active(a, k)' => Due(a, k)' < cells'[a][k].remaining
        <4>1. ~canceled => (Active(a, k)' => chans'[k].state = "open")
          BY <1>6, <1>10, <2>4
        <4>2. ~canceled /\ k \in moved /\ Active(a, k)' => Due(a, k)' < cells'[a][k].remaining
          BY <1>7, <1>8, <2>4, <3>1 DEF Record
        <4> QED
          BY <3>1, <3>2, <4>1, <4>2
      <3>4. ~canceled /\ k \notin moved => cells'[a][k].remaining + chans'[k].len = size
        <4>1. ~canceled /\ k \notin moved => cell.remaining + chans[k].len = size
          BY <1>7, <2>4 DEF Record
        <4>2. chans[k].len \in Nat
          BY <1>3, <2>4 DEF Chans
        <4> QED
          BY <1>6, <1>8, <2>4, <3>1, <4>1, <4>2
      <3>5. Due(a, k)' <= cells'[a][k].remaining
        BY <1>8, <2>4, <3>1
      <3>6. \A c \in Arrays : k \notin moved /\ Active(c, k)' => c = a
        BY <1>7, <2>4 DEF Record
      <3>7. cells'[a][k].open => chans'[k].state = "open"
        BY <1>6, <2>4, <3>1
      <3> QED
        BY <1>1, <3>3, <3>4, <3>5, <3>6, <3>7 DEF Record
    <2> QED
      BY <2>2, <2>3, <2>4
  <1>12. Records'
    BY <1>11 DEF Records
  <1>13. MovedStayOpen'
    BY <1>1, <1>5, <1>6, <1>10 DEF MovedStayOpen, UpdateTypeOK
  <1>14. EachValueOnce'
    <2> SUFFICES ASSUME NEW l \in Listeners, NEW b \in Backlogs
                 PROVE  LET copies == chans'[l].buffer[b] + Cardinality(InFlight(l, b)') IN
                        /\ copies <= 1
                        /\ b \notin values => copies = 0
                        /\ b \in values /\ Listening(l)' /\ ~canceled => copies = 1
      BY <1>1 DEF EachValueOnce
    <2>1. chans[l].buffer[b] \in Nat /\ chans[l].buffer \in [Backlogs -> Nat]
      BY DEF UpdateTypeOK, Chans
    <2>2. Cardinality(InFlight(l, b)) \in Nat
      BY Counts DEF Flights
    <2>3. Cardinality(InFlight(l, b)') =
             Cardinality(InFlight(l, b)) - (IF l0 = l /\ d.value = b THEN 1 ELSE 0)
      BY <1>1, DeliverEffects DEF Flights
    <2>4. chans'[l].buffer[b] =
             chans[l].buffer[b] + (IF l0 = l /\ d.value = b THEN 1 ELSE 0)
      BY <1>5, <1>6, <2>1
    <2>5. Listening(l)' <=> Listening(l)
      BY <1>1, <1>5, <1>6 DEF Listening
    <2>6. chans'[l].buffer[b] + Cardinality(InFlight(l, b)') =
             chans[l].buffer[b] + Cardinality(InFlight(l, b))
      BY <2>1, <2>2, <2>3, <2>4
    <2> QED
      BY <2>5, <2>6 DEF EachValueOnce
  <1>15. ClosedIsComplete'
    <2>1. chans'[l0].state = "closed" /\ ~canceled => chans'[l0].len = size
      <3> SUFFICES ASSUME last, ~canceled PROVE chans[l0].len + 1 = size
        BY <1>6
      <3>1. l0 \notin moved /\ cell.remaining - 1 = 0
        BY <1>10 DEF last
      <3>2. cell.remaining + chans[l0].len = size
        BY <1>7, <3>1 DEF Record
      <3>3. chans[l0].len \in Nat
        BY <1>3 DEF Chans
      <3> QED
        BY <1>8, <3>1, <3>2, <3>3
    <2> QED
      BY <1>1, <1>5, <2>1 DEF ClosedIsComplete
  <1> QED
    BY <1>7, <1>9, <1>12, <1>13, <1>14, <1>15

(* updateListener.cancel closes the channel through its record. *)
LEMMA DeliverCloseStep ==
    ASSUME UpdateInv, NEW d \in deliveries, Deliver(d), d.value = Cancellation,
           cells[d.array][d.to].open
    PROVE  UpdateInv'
  <1> USE DEF UpdateInv
  <1> DEFINE a0 == d.array
             l0 == d.to
             cell == cells[a0][l0]
  <1>1. /\ deliveries' = deliveries \ {d}
        /\ UNCHANGED <<size, todo, values, remaining, received, canceled, slice, moved>>
        /\ panicked' = (panicked \/ chans[l0].state = "closed")
        /\ chans' = [chans EXCEPT ![l0].state = "closed"]
        /\ cells' = [cells EXCEPT ![a0][l0] = WithoutChannel(cell)]
    BY DEF Deliver, DeliverBacklog, DeliverCancellation
  <1>2. a0 \in Arrays /\ l0 \in Listeners /\ canceled
    BY DEF UpdateTypeOK, Deliveries, Flights
  <1>3. cell \in Cells /\ chans[l0] \in Chans
    BY <1>2 DEF UpdateTypeOK
  <1>4. /\ cells'[a0][l0].open = FALSE
        /\ cells'[a0][l0].remaining = cell.remaining
        /\ cells' \in [Arrays -> [Listeners -> Cells]]
        /\ \A a \in Arrays, k \in Listeners :
              (a # a0 \/ k # l0) => cells'[a][k] = cells[a][k]
    <2>1. /\ WithoutChannel(cell) \in Cells
          /\ WithoutChannel(cell).open = FALSE
          /\ WithoutChannel(cell).remaining = cell.remaining
      BY <1>3 DEF WithoutChannel, Cells
    <2> QED
      BY <1>1, <1>2, <2>1 DEF UpdateTypeOK
  <1>5. /\ chans' \in [Listeners -> Chans]
        /\ chans'[l0].state = "closed"
        /\ chans'[l0].buffer = chans[l0].buffer
        /\ \A k \in Listeners : k # l0 => chans'[k] = chans[k]
    <2>1. chans' = [chans EXCEPT ![l0] = [chans[l0] EXCEPT !.state = "closed"]]
      BY <1>1
    <2>2. [chans[l0] EXCEPT !.state = "closed"] \in Chans
      BY <1>3 DEF Chans
    <2> QED
      BY <1>2, <1>3, <2>1, <2>2 DEF UpdateTypeOK, Chans
  <1>6. \A k \in Listeners : Made(k)' <=> Made(k)
    <2>1. Made(l0)
      BY DEF Flights
    <2> QED
      BY <1>5, <2>1 DEF Made
  <1>7. /\ Totals' /\ Membership' /\ Flights'
        /\ deliveries' \in SUBSET Deliveries
        /\ Active(a0, l0) /\ Record(a0, l0)
        /\ \A a, k : Active(a, k)' => Active(a, k)
        /\ \A a \in Arrays, k \in Listeners : Due(a, k)' = Due(a, k) /\ Due(a, k) \in Nat
    <2> HIDE DEF UpdateInv, cell
    <2> QED
      BY <1>6, DeliverKeeps
  <1>8. UpdateTypeOK'
    <2>1. panicked' \in BOOLEAN
      <3>1. panicked \in BOOLEAN
        BY DEF UpdateTypeOK
      <3> QED
        BY <1>1, <3>1
    <2> QED
      BY <1>1, <1>4, <1>5, <1>7, <2>1 DEF UpdateTypeOK
  <1>9. ASSUME NEW a \in Arrays, NEW k \in Listeners PROVE Record(a, k)'
    <2>1. Record(a, k)
      BY DEF Records
    <2>2. cells'[a][k].remaining = cells[a][k].remaining
      BY <1>4
    <2>3. Due(a, k)' <= cells'[a][k].remaining
      BY <1>7, <2>1, <2>2 DEF Record
    <2>4. ASSUME k \notin moved, Active(a, k)'
          PROVE  /\ cells'[a][k].open => chans'[k].state = "open"
                 /\ \A c \in Arrays : Active(c, k)' => c = a
      <3>1. Active(a, k) /\ \A c \in Arrays : Active(c, k)' => c = a
        BY <1>7, <2>1, <2>4 DEF Record
      <3>2. CASE k # l0
        BY <1>4, <1>5, <2>1, <2>4, <3>1, <3>2 DEF Record
      <3>3. CASE k = l0
        <4>1. a = a0
          BY <1>2, <1>7, <2>4, <3>1, <3>3 DEF Record
        <4> QED
          BY <1>4, <3>1, <3>3, <4>1
      <3> QED
        BY <3>2, <3>3
    <2> QED
      BY <1>1, <1>2, <2>3, <2>4 DEF Record
  <1>10. Records'
    BY <1>9 DEF Records
  <1>11. MovedStayOpen'
    BY <1>1, <1>2 DEF MovedStayOpen
  <1>12. EachValueOnce'
    <2>1. \A l, b : b # Cancellation => InFlight(l, b)' = InFlight(l, b)
      BY <1>1 DEF InFlight
    <2>2. \A l \in Listeners : chans'[l].buffer = chans[l].buffer
      BY <1>5
    <2> QED
      BY <1>1, <1>2, <2>1, <2>2, UpdateAssumption DEF EachValueOnce
  <1>13. ClosedIsComplete'
    <2>1. chans[l0].state = "closed" => l0 \in moved
      BY <1>7 DEF Record
    <2> QED
      BY <1>1, <1>2, <2>1 DEF ClosedIsComplete
  <1> QED
    BY <1>7, <1>8, <1>10, <1>11, <1>12, <1>13

-----------------------------------------------------------------------------
(* The invariant is preserved by every step. *)
LEMMA UpdateNextInv == UpdateInv /\ [UpdateNext]_updateVars => UpdateInv'
  <1> SUFFICES ASSUME UpdateInv, [UpdateNext]_updateVars PROVE UpdateInv'
    OBVIOUS
  <1>1. ASSUME NEW l \in Listeners, Listen(l) PROVE UpdateInv'
    <2>1. CASE size = 0 \/ canceled
      BY <1>1, <2>1, ListenClosedStep
    <2>2. CASE size > 0 /\ ~canceled
      <3>1. AppendInPlace(l, NewCell) \/ AppendToCopy(l, NewCell)
        BY <1>1, <2>2 DEF Listen
      <3> QED
        BY <1>1, <2>2, <3>1, ListenInPlaceStep, ListenCopyStep
    <2> QED
      BY <1>1, <2>1, <2>2 DEF Listen
  <1>2. ASSUME NEW b \in Backlogs, Send(b) PROVE UpdateInv'
    BY <1>2, SendStep
  <1>3. ASSUME NEW b \in Backlogs, Skip(b) PROVE UpdateInv'
    BY <1>3, QuietStep DEF Skip
  <1>4. CASE Cancel
    BY <1>4, CancelStep
  <1>5. ASSUME NEW d \in deliveries, Deliver(d) PROVE UpdateInv'
    <2>1. CASE UNCHANGED <<cells, chans>>
      BY <1>5, <2>1, DeliverNothingStep
    <2>2. CASE /\ d.value # Cancellation
               /\ cells[d.array][d.to].open
               /\ chans[d.to].state = "open"
      BY <1>5, <2>2, DeliverSendStep
    <2>3. CASE d.value = Cancellation /\ cells[d.array][d.to].open
      BY <1>5, <2>3, DeliverCloseStep
    <2> QED
      BY <1>5, <2>1, <2>2, <2>3 DEF Deliver, DeliverBacklog, DeliverCancellation
  <1>6. CASE UNCHANGED updateVars
    BY <1>6, QuietStep DEF updateVars, UpdateInv, UpdateTypeOK
  <1> QED
    BY <1>1, <1>2, <1>3, <1>4, <1>5, <1>6 DEF UpdateNext

(* Every behaviour of an update satisfies the invariant. *)
LEMMA UpdateSpecInv == UpdateSpec => []UpdateInv
  BY UpdateInitInv, UpdateNextInv, PTL DEF UpdateSpec

-----------------------------------------------------------------------------
(* The variables of an update keep their types: the WaitGroup does not go
   negative, and the backing arrays that are made are one per Listen at most. *)
THEOREM UpdateTypeCorrect == UpdateSpec => []UpdateTypeOK
  BY UpdateSpecInv, PTL DEF UpdateInv

(* However many backlogs and listeners there are and however their calls fall,
   each value is sent once to each listener. *)
THEOREM ValuesSentOnce == UpdateSpec => []EachValueOnce
  BY UpdateSpecInv, PTL DEF UpdateInv

(* No goroutine panics, unless a cancel meets a record that has moved, and a
   channel that is closed holds the whole update. *)
THEOREM ClosedChannelsHoldTheUpdate == UpdateSpec => []ClosedIsComplete
  BY UpdateSpecInv, PTL DEF UpdateInv

(* Nothing but a cancel closes the channel of a listener that was moved. *)
THEOREM MovedListenersWait == UpdateSpec => []MovedStayOpen
  BY UpdateSpecInv, PTL DEF UpdateInv

-----------------------------------------------------------------------------
(* The poller *)

Closing == {"wait", "woken", "close"}

(* p.mutex is held over a blocking step by the caller that is at it. *)
MutexHolder == \A c \in Callers : pc[c] \in {"send", "close"} <=> mutex = c

(* A call that got past Close's early return found the source open, has set
   p.closed, and is the only one to have done so. *)
OneCloser ==
    /\ \A c \in Callers : pc[c] \in Closing => closed /\ ~srcClosed
    /\ \A c, d \in Callers : pc[c] \in Closing /\ pc[d] \in Closing => c = d

(* No invocation is in the source when Close closes it, nor afterwards. *)
ClosesIdleSource ==
    /\ \A c \in Callers : pc[c] = "close" => ~Running
    /\ srcClosed => closed /\ ~Running

PollerInv ==
    /\ TypeOK
    /\ OneInvocation
    /\ NoSendOnClosedPulse
    /\ ClosingCancels
    /\ MutexHolder
    /\ OneCloser
    /\ ClosesIdleSource

-----------------------------------------------------------------------------
(* The state of New satisfies the invariant. *)
LEMMA PollerInitInv == Init => PollerInv
  BY NoneIsNoProcess
  DEF Init, PollerInv, TypeOK, InvStates, CallerStates, OneInvocation, Running,
      NoSendOnClosedPulse, ClosingCancels, MutexHolder, OneCloser, Closing,
      ClosesIdleSource

(* Every step of Poll, of Close, of run and of invoke keeps the variables in
   their types. *)
LEMMA PollerTypeStep == TypeOK /\ [Next]_vars => TypeOK'
  <1> SUFFICES ASSUME TypeOK, [Next]_vars PROVE TypeOK'
    OBVIOUS
  <1> USE DEF TypeOK, InvStates, CallerStates
  <1>1. CASE RunStep
    BY <1>1 DEF RunStep, RunStop, RunTick, RunClosedPulse, RunPulse, Spawn
  <1>2. ASSUME NEW c \in Callers, CallerStep(c) PROVE TypeOK'
    BY <1>2
    DEF CallerStep, PollLock, CloseLock, CloseWake, CloseSource, AwaitIdle,
        CancelRunning, Running
  <1>3. ASSUME NEW i \in Invocations, InvocationStep(i) PROVE TypeOK'
    BY <1>3
    DEF InvocationStep, StartInvocation, Timeout, SourcePollReturns,
        FinishInvocation, NotifyIdle, WakeAll
  <1>4. CASE UNCHANGED vars
    BY <1>4 DEF vars
  <1> QED
    BY <1>1, <1>2, <1>3, <1>4 DEF Next

(* Every step of run keeps the invariant: it only spawns, and takes the
   mutex from the Poll it meets. *)
LEMMA RunStepInv == PollerInv /\ RunStep => PollerInv'
  <1> SUFFICES ASSUME PollerInv, RunStep PROVE PollerInv'
    OBVIOUS
  <1>1. TypeOK'
    BY PollerTypeStep DEF PollerInv, Next
  <1> USE NoneIsNoProcess DEF PollerInv, TypeOK, InvStates, CallerStates, Closing, Running
  <1>2. CASE RunStop
    BY <1>1, <1>2
    DEF RunStop, OneInvocation, NoSendOnClosedPulse, ClosingCancels,
        MutexHolder, OneCloser, ClosesIdleSource
  <1>3. ASSUME NEW i \in Invocations, RunTick(i) \/ RunClosedPulse(i) PROVE PollerInv'
    BY <1>1, <1>3
    DEF RunTick, RunClosedPulse, Spawn, OneInvocation, NoSendOnClosedPulse,
        ClosingCancels, MutexHolder, OneCloser, ClosesIdleSource
  <1>4. ASSUME NEW i \in Invocations, NEW c \in Callers, RunPulse(c, i) PROVE PollerInv'
    <2>1. OneInvocation' /\ ClosingCancels'
      BY <1>4 DEF RunPulse, Spawn, OneInvocation, ClosingCancels
    <2>2. NoSendOnClosedPulse' /\ MutexHolder'
      BY <1>4 DEF RunPulse, NoSendOnClosedPulse, MutexHolder
    <2>3. OneCloser' /\ ClosesIdleSource'
      BY <1>4 DEF RunPulse, OneCloser, ClosesIdleSource
    <2> QED
      BY <1>1, <2>1, <2>2, <2>3
  <1> QED
    BY <1>2, <1>3, <1>4 DEF RunStep

(* Every step of Poll and Close keeps the invariant. *)
LEMMA CallerStepInv ==
    ASSUME NEW c \in Callers, PollerInv, CallerStep(c) PROVE PollerInv'
  <1>1. TypeOK'
    BY PollerTypeStep DEF PollerInv, Next
  <1> USE NoneIsNoProcess DEF PollerInv, TypeOK, InvStates, CallerStates, Closing, Running
  <1>2. CASE PollLock(c)
    BY <1>1, <1>2
    DEF PollLock, MaySend, OneInvocation, NoSendOnClosedPulse, ClosingCancels,
        MutexHolder, OneCloser, ClosesIdleSource
  <1>3. CASE CloseLock(c)
    <2>1. OneInvocation' /\ ClosingCancels'
      BY <1>3 DEF CloseLock, CancelRunning, OneInvocation, ClosingCancels
    <2>2. NoSendOnClosedPulse' /\ MutexHolder'
      BY <1>3 DEF CloseLock, AwaitIdle, NoSendOnClosedPulse, MutexHolder
    <2>3. OneCloser' /\ ClosesIdleSource'
      BY <1>3 DEF CloseLock, AwaitIdle, OneCloser, ClosesIdleSource
    <2> QED
      BY <1>1, <2>1, <2>2, <2>3
  <1>4. CASE CloseWake(c)
    <2>1. OneInvocation' /\ ClosingCancels'
      BY <1>4 DEF CloseWake, OneInvocation, ClosingCancels
    <2>2. NoSendOnClosedPulse' /\ MutexHolder'
      BY <1>4 DEF CloseWake, AwaitIdle, NoSendOnClosedPulse, MutexHolder
    <2>3. OneCloser' /\ ClosesIdleSource'
      BY <1>4 DEF CloseWake, AwaitIdle, OneCloser, ClosesIdleSource
    <2> QED
      BY <1>1, <2>1, <2>2, <2>3
  <1>5. CASE CloseSource(c)
    BY <1>1, <1>5
    DEF CloseSource, OneInvocation, NoSendOnClosedPulse, ClosingCancels,
        MutexHolder, OneCloser, ClosesIdleSource
  <1> QED
    BY <1>2, <1>3, <1>4, <1>5 DEF CallerStep

(* Every step of an invocation keeps the invariant. *)
LEMMA InvocationStepInv ==
    ASSUME NEW i \in Invocations, PollerInv, InvocationStep(i) PROVE PollerInv'
  <1>1. TypeOK'
    BY PollerTypeStep DEF PollerInv, Next
  <1> USE NoneIsNoProcess DEF PollerInv, TypeOK, InvStates, CallerStates, Closing, Running
  <1>2. CASE StartInvocation(i)
    <2>1. OneInvocation' /\ ClosingCancels'
      BY <1>2 DEF StartInvocation, MayStart, OneInvocation, ClosingCancels
    <2>2. NoSendOnClosedPulse' /\ MutexHolder'
      BY <1>2 DEF StartInvocation, NoSendOnClosedPulse, MutexHolder
    <2>3. OneCloser' /\ ClosesIdleSource'
      BY <1>2 DEF StartInvocation, MayStart, OneCloser, ClosesIdleSource, MutexHolder
    <2> QED
      BY <1>1, <2>1, <2>2, <2>3
  <1>3. CASE Timeout(i) \/ SourcePollReturns(i)
    BY <1>1, <1>3
    DEF Timeout, SourcePollReturns, OneInvocation, NoSendOnClosedPulse,
        ClosingCancels, MutexHolder, OneCloser, ClosesIdleSource
  <1>4. CASE FinishInvocation(i)
    BY <1>1, <1>4
    DEF FinishInvocation, OneInvocation, NoSendOnClosedPulse, ClosingCancels,
        MutexHolder, OneCloser, ClosesIdleSource
  <1>5. CASE NotifyIdle(i)
    <2>1. OneInvocation' /\ ClosingCancels'
      BY <1>5 DEF NotifyIdle, OneInvocation, ClosingCancels
    <2>2. NoSendOnClosedPulse' /\ MutexHolder'
      BY <1>5 DEF NotifyIdle, WakeAll, NoSendOnClosedPulse, MutexHolder
    <2>3. OneCloser' /\ ClosesIdleSource'
      BY <1>5 DEF NotifyIdle, WakeAll, OneCloser, ClosesIdleSource
    <2> QED
      BY <1>1, <2>1, <2>2, <2>3
  <1> QED
    BY <1>2, <1>3, <1>4, <1>5 DEF InvocationStep

(* Every behaviour of the poller satisfies the invariant. *)
LEMMA PollerSpecInv == Spec => []PollerInv
  <1>1. PollerInv /\ UNCHANGED vars => PollerInv'
    BY DEF vars, PollerInv, TypeOK, OneInvocation, Running, NoSendOnClosedPulse,
           ClosingCancels, MutexHolder, OneCloser, ClosesIdleSource
  <1>2. PollerInv /\ [Next]_vars => PollerInv'
    BY <1>1, RunStepInv, CallerStepInv, InvocationStepInv DEF Next
  <1> QED
    BY PollerInitInv, <1>2, PTL DEF Spec

-----------------------------------------------------------------------------
(* The variables of the poller keep their types. *)
THEOREM PollerTypeCorrect == Spec => []TypeOK
  BY PollerSpecInv, PTL DEF PollerInv

(* However ticks, calls of Poll and timeouts fall, at most one invocation is
   in the source, and p.cancel is its cancellation function. *)
THEOREM NeverTwoInvocations == Spec => []OneInvocation
  BY PollerSpecInv, PTL DEF PollerInv

(* Poll, which sends with the mutex held, never meets the p.pulse that Close
   has closed. *)
THEOREM PollNeverPanics == Spec => []NoSendOnClosedPulse
  BY PollerSpecInv, PTL DEF PollerInv

(* An invocation that Close has to wait for has been cancelled. *)
THEOREM CloseWaitsForCancelled == Spec => []ClosingCancels
  BY PollerSpecInv, PTL DEF PollerInv

(* The poller implements PollSource: its source is entered by one call at a
   time, closed once, when idle, and not called again. *)
THEOREM SourceCallsAreSerial == Spec => SourceContract
  <1>1. Init => Source!SourceInit
    BY DEF Init, Source!SourceInit, ActivePolls
  <1>2. PollerInv /\ [Next]_vars => [Source!SourceNext]_(Source!sourceVars)
    <2> SUFFICES ASSUME PollerInv, [Next]_vars
                 PROVE [Source!SourceNext]_(Source!sourceVars)
      OBVIOUS
    <2> USE DEF PollerInv, TypeOK, ActivePolls, Source!SourceNext, Source!sourceVars
    <2>1. CASE RunStep
      BY <2>1 DEF RunStep, RunStop, RunTick, RunClosedPulse, RunPulse, Spawn
    <2>2. ASSUME NEW c \in Callers, PollLock(c) \/ CloseLock(c) \/ CloseWake(c)
          PROVE UNCHANGED Source!sourceVars
      BY <2>2 DEF PollLock, CloseLock, CloseWake
    <2>3. ASSUME NEW c \in Callers, CloseSource(c) PROVE Source!CloseOnce
      BY <2>3, NoneIsNoProcess
      DEF CloseSource, Source!CloseOnce, OneCloser, Closing, ClosesIdleSource,
          OneInvocation, Running
    <2>4. ASSUME NEW i \in Invocations, StartInvocation(i)
          PROVE Source!BeginPoll \/ UNCHANGED Source!sourceVars
      BY <2>4, NoneIsNoProcess
      DEF StartInvocation, MayStart, Running, OneInvocation, ClosesIdleSource,
          Source!BeginPoll
    <2>5. ASSUME NEW i \in Invocations, SourcePollReturns(i) PROVE Source!EndPoll
      BY <2>5 DEF SourcePollReturns, OneInvocation, Source!EndPoll
    <2>6. ASSUME NEW i \in Invocations,
                 Timeout(i) \/ FinishInvocation(i) \/ NotifyIdle(i)
          PROVE UNCHANGED Source!sourceVars
      BY <2>6 DEF Timeout, FinishInvocation, NotifyIdle
    <2>7. CASE UNCHANGED vars
      BY <2>7 DEF vars
    <2> QED
      BY <2>1, <2>2, <2>3, <2>4, <2>5, <2>6, <2>7 DEF Next, CallerStep, InvocationStep
  <1> QED
    BY <1>1, <1>2, PollerSpecInv, PTL DEF Spec, SourceContract, Source!SourceSpec
=============================================================================
