----------------------------- MODULE Lifecycle ------------------------------
(***************************************************************************)
(* What the service relies on in its two monitors, whatever their pollers, *)
(* sinks and broadcasters do: modules Monitor and Domain implement it.  A  *)
(* monitor can be started and stopped again and again, polls only while it *)
(* is running, and can be closed once.  Stop and Close hold the monitor's  *)
(* mutex until the poll under way has ended; when Close returns, every     *)
(* channel that Listen has handed out is closed.  A poll may never end:    *)
(* because a listener has stopped receiving, or because one of its queries *)
(* is lost in the cache of the vectors.                                    *)
(***************************************************************************)
CONSTANTS
    Monitors,    \* the monitors
    Callers,     \* goroutines that call Start, Stop and Close
    Listeners,   \* goroutines that call Listen
    None         \* no caller

VARIABLE life    \* the state of each monitor

Phases == {"stopped", "running", "stopping", "closing", "closed"}

(* What keeps a poll from ever ending. *)
Causes == {"listener", "query"}

TypeOK ==
    life \in [Monitors -> [phase    : Phases,
                           by       : Callers \cup {None},
                           polling  : BOOLEAN,
                           stalled  : Causes \cup {"no"},
                           attached : SUBSET Listeners]]

New == [phase |-> "stopped", by |-> None, polling |-> FALSE, stalled |-> "no",
        attached |-> {}]

Init == life = [m \in Monitors |-> New]

(* The caller gets the monitor's mutex. *)
Free(m) == life[m].by = None

Start(m) ==
    /\ Free(m)
    /\ life[m].phase = "stopped"
    /\ life' = [life EXCEPT ![m].phase = "running"]

(* Stop waits for the poll under way. *)
Stop(m, c) ==
    /\ Free(m)
    /\ life[m].phase = "running"
    /\ life' = [life EXCEPT ![m] = [@ EXCEPT !.phase = "stopping", !.by = c]]

(* The first Close; it waits for the poll under way as well. *)
Close(m, c) ==
    /\ Free(m)
    /\ life[m].phase \in {"stopped", "running"}
    /\ life' = [life EXCEPT ![m] = [@ EXCEPT !.phase = "closing", !.by = c]]

(* Stop or Close returns. *)
Returns(m, c) ==
    /\ life[m].by = c
    /\ ~life[m].polling
    /\ \/ /\ life[m].phase = "stopping"
          /\ life' = [life EXCEPT ![m] = [@ EXCEPT !.phase = "stopped", !.by = None]]
       \/ /\ life[m].phase = "closing"
          /\ life' = [life EXCEPT ![m] = [@ EXCEPT !.phase = "closed", !.by = None,
                                                   !.attached = {}]]

PollBegins(m) ==
    /\ life[m].phase = "running"
    /\ ~life[m].polling
    /\ life' = [life EXCEPT ![m].polling = TRUE]

(* A poll ends, unless it has stalled. *)
PollEnds(m) ==
    /\ life[m].polling
    /\ life[m].stalled = "no"
    /\ life' = [life EXCEPT ![m].polling = FALSE]

(* A listener that has stopped receiving keeps the poll from ending, or a query
   that never returns does. *)
Stall(m, cause) ==
    /\ life[m].polling
    /\ life[m].stalled = "no"
    /\ cause = "listener" => life[m].attached # {}
    /\ life' = [life EXCEPT ![m].stalled = cause]

Listen(m, l) ==
    /\ life[m].phase # "closed"
    /\ l \notin life[m].attached
    /\ life' = [life EXCEPT ![m].attached = @ \cup {l}]

Unlisten(m, l) ==
    /\ l \in life[m].attached
    /\ life' = [life EXCEPT ![m].attached = @ \ {l}]

Next ==
    \E m \in Monitors :
        \/ Start(m) \/ PollBegins(m) \/ PollEnds(m)
        \/ \E cause \in Causes : Stall(m, cause)
        \/ \E c \in Callers : Stop(m, c) \/ Close(m, c) \/ Returns(m, c)
        \/ \E l \in Listeners : Listen(m, l) \/ Unlisten(m, l)

Spec == Init /\ [][Next]_life

(* Polls end, and Stop and Close return when they can.  Nobody has to call
   anything, and no poll has to begin. *)
Fairness ==
    \A m \in Monitors :
        /\ WF_life(PollEnds(m))
        /\ \A c \in Callers : WF_life(Returns(m, c))

FairSpec == Spec /\ Fairness
=============================================================================
