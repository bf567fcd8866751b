------------------------------- MODULE Poller -------------------------------
(***************************************************************************)
(* poller/poller.go: a Poller runs Source.Poll on an interval, on request  *)
(* (Poll) and never twice at once; Close cancels the invocation that is    *)
(* running, waits for it on the condition variable and closes the source.  *)
(*                                                                         *)
(* The processes are the run() goroutine, the invoke() goroutines it       *)
(* spawns, and the callers of Poll and Close.  A critical section that     *)
(* cannot block is one action guarded by a free mutex; one that blocks     *)
(* (Poll's channel send, Close's source.Close) keeps `mutex' meanwhile.    *)
(* p.stop and p.pulse are closed in the critical section that sets         *)
(* p.closed, so `closed' stands for the three of them.                     *)
(***************************************************************************)
EXTENDS Naturals

CONSTANTS
    Callers,       \* goroutines that call Poll and Close
    Invocations,   \* names of the invoke() goroutines alive at one time
    None           \* no process

ASSUME NoneIsNoProcess == None \notin Callers \cup Invocations

VARIABLES
    mutex,      \* the caller holding p.mutex over a blocking step, or None
    closed,     \* p.closed; p.stop and p.pulse are closed channels
    cancel,     \* p.cancel: the invocation it cancels, or None for nil
    ctxDone,    \* invocations whose context is done
    inv,        \* where each invoke() goroutine is
    run,        \* where the run() goroutine is
    pc,         \* where each caller is
    srcClosed   \* source.Close has been called

vars == <<mutex, closed, cancel, ctxDone, inv, run, pc, srcClosed>>

InvStates == {"free", "spawned", "polling", "finish", "notify"}
CallerStates == {"idle", "send", "wait", "woken", "close"}

TypeOK ==
    /\ mutex \in Callers \cup {None}
    /\ closed \in BOOLEAN
    /\ cancel \in Invocations \cup {None}
    /\ ctxDone \in SUBSET Invocations
    /\ inv \in [Invocations -> InvStates]
    /\ run \in {"select", "exited"}
    /\ pc \in [Callers -> CallerStates]
    /\ srcClosed \in BOOLEAN

Init ==
    /\ mutex = None
    /\ closed = FALSE
    /\ cancel = None
    /\ ctxDone = {}
    /\ inv = [i \in Invocations |-> "free"]
    /\ run = "select"
    /\ pc = [c \in Callers |-> "idle"]
    /\ srcClosed = FALSE

(* running(): an update is running. *)
Running == cancel # None

MaySendAlways == TRUE
(* Poll's condition. *)
MaySend == ~closed

(* Poll takes the mutex; on a closed poller it returns at once, which changes
   nothing.  A caller starts Poll only while a name is free for the
   invocation it causes. *)
PollLock(c) ==
    /\ pc[c] = "idle"
    /\ mutex = None
    /\ MaySend
    /\ \E i \in Invocations : inv[i] = "free"
    /\ mutex' = c
    /\ pc' = [pc EXCEPT ![c] = "send"]
    /\ UNCHANGED <<closed, cancel, ctxDone, inv, run, srcClosed>>

-----------------------------------------------------------------------------
(* run() *)

(* go p.invoke() *)
Spawn(i) ==
    /\ inv[i] = "free"
    /\ inv' = [inv EXCEPT ![i] = "spawned"]

(* case <-p.pulse, meeting a Poll that is blocked in its send; the sender
   then unlocks. *)
RunPulse(c, i) ==
    /\ run = "select"
    /\ pc[c] = "send"
    /\ Spawn(i)
    /\ pc' = [pc EXCEPT ![c] = "idle"]
    /\ mutex' = None
    /\ UNCHANGED <<closed, cancel, ctxDone, run, srcClosed>>

(* case <-p.pulse on the closed channel: the select may prefer it to
   <-p.stop any number of times. *)
RunClosedPulse(i) ==
    /\ run = "select"
    /\ closed
    /\ Spawn(i)
    /\ UNCHANGED <<mutex, closed, cancel, ctxDone, run, pc, srcClosed>>

(* case <-ticker.C.  The last free name is left to a Poll under way. *)
RunTick(i) ==
    /\ run = "select"
    /\ mutex = None \/ \E j \in Invocations \ {i} : inv[j] = "free"
    /\ Spawn(i)
    /\ UNCHANGED <<mutex, closed, cancel, ctxDone, run, pc, srcClosed>>

(* case <-p.stop *)
RunStop ==
    /\ run = "select"
    /\ closed
    /\ run' = "exited"
    /\ UNCHANGED <<mutex, closed, cancel, ctxDone, inv, pc, srcClosed>>

-----------------------------------------------------------------------------
(* invoke() *)

MayStartUnchecked == ~Running
MayStartAnyTime == ~closed
(* startInvocation's condition. *)
MayStart == ~closed /\ ~Running

(* startInvocation, and the return of an invocation it turns away. *)
StartInvocation(i) ==
    /\ inv[i] = "spawned"
    /\ mutex = None
    /\ \/ /\ MayStart
          /\ cancel' = i
          /\ inv' = [inv EXCEPT ![i] = "polling"]
          /\ UNCHANGED ctxDone
       \/ /\ ~MayStart
          /\ inv' = [inv EXCEPT ![i] = "free"]
          /\ ctxDone' = ctxDone \ {i}
          /\ UNCHANGED cancel
    /\ UNCHANGED <<mutex, closed, run, pc, srcClosed>>

(* The timeout of the invocation's context, which starts before the
   invocation has the mutex. *)
Timeout(i) ==
    /\ inv[i] \in {"spawned", "polling"}
    /\ i \notin ctxDone
    /\ ctxDone' = ctxDone \cup {i}
    /\ UNCHANGED <<mutex, closed, cancel, inv, run, pc, srcClosed>>

(* p.source.Poll(ctx) returns. *)
SourcePollReturns(i) ==
    /\ inv[i] = "polling"
    /\ inv' = [inv EXCEPT ![i] = "finish"]
    /\ UNCHANGED <<mutex, closed, cancel, ctxDone, run, pc, srcClosed>>

(* finishInvocation up to the unlock. *)
FinishInvocation(i) ==
    /\ inv[i] = "finish"
    /\ mutex = None
    /\ cancel' = None
    /\ inv' = [inv EXCEPT ![i] = "notify"]
    /\ UNCHANGED <<mutex, closed, ctxDone, run, pc, srcClosed>>

WakeNone == pc
(* sync.Cond.Broadcast: every goroutine in Wait goes back to the mutex. *)
WakeAll == [c \in Callers |-> IF pc[c] = "wait" THEN "woken" ELSE pc[c]]

(* p.idle.Broadcast() after the unlock; then invoke returns, and its
   deferred cancel ends the context. *)
NotifyIdle(i) ==
    /\ inv[i] = "notify"
    /\ pc' = WakeAll
    /\ inv' = [inv EXCEPT ![i] = "free"]
    /\ ctxDone' = ctxDone \ {i}
    /\ UNCHANGED <<mutex, closed, cancel, run, srcClosed>>

-----------------------------------------------------------------------------
(* Close *)

(* With the mutex held: wait on p.idle (which releases the mutex) while an
   invocation is running, otherwise go on to source.Close. *)
AwaitIdle(c) ==
    \/ /\ Running
       /\ mutex' = None
       /\ pc' = [pc EXCEPT ![c] = "wait"]
    \/ /\ ~Running
       /\ mutex' = c
       /\ pc' = [pc EXCEPT ![c] = "close"]

NoCancellation == ctxDone
(* if p.running() { p.cancel() } *)
CancelRunning == IF Running THEN ctxDone \cup {cancel} ELSE ctxDone

(* Close on an open poller; on a closed one it returns at once. *)
CloseLock(c) ==
    /\ pc[c] = "idle"
    /\ mutex = None
    /\ ~closed
    /\ closed' = TRUE
    /\ ctxDone' = CancelRunning
    /\ AwaitIdle(c)
    /\ UNCHANGED <<cancel, inv, run, srcClosed>>

(* Back from p.idle.Wait() with the mutex: look again. *)
CloseWake(c) ==
    /\ pc[c] = "woken"
    /\ mutex = None
    /\ AwaitIdle(c)
    /\ UNCHANGED <<closed, cancel, ctxDone, inv, run, srcClosed>>

(* p.source.Close() and the unlock. *)
CloseSource(c) ==
    /\ pc[c] = "close"
    /\ srcClosed' = TRUE
    /\ mutex' = None
    /\ pc' = [pc EXCEPT ![c] = "idle"]
    /\ UNCHANGED <<closed, cancel, ctxDone, inv, run>>

-----------------------------------------------------------------------------
CallerStep(c) == PollLock(c) \/ CloseLock(c) \/ CloseWake(c) \/ CloseSource(c)

InvocationStep(i) ==
    \/ StartInvocation(i)
    \/ Timeout(i)
    \/ SourcePollReturns(i)
    \/ FinishInvocation(i)
    \/ NotifyIdle(i)

RunStep ==
    \/ RunStop
    \/ \E i \in Invocations :
          \/ RunTick(i)
          \/ RunClosedPulse(i)
          \/ \E c \in Callers : RunPulse(c, i)

Next ==
    \/ RunStep
    \/ \E c \in Callers : CallerStep(c)
    \/ \E i \in Invocations : InvocationStep(i)

(* Goroutines run; sync.Mutex hands itself over to a goroutine it keeps
   waiting, and select picks among ready cases at random (strong fairness of
   the steps that need either); a source returns once its context is done.
   Nobody is obliged to call Poll or Close, to tick or to time out. *)
Fairness ==
    /\ SF_vars(RunStop)
    /\ SF_vars(\E c \in Callers, i \in Invocations : RunPulse(c, i))
    /\ \A c \in Callers : SF_vars(CloseWake(c)) /\ WF_vars(CloseSource(c))
    /\ \A i \in Invocations :
          /\ SF_vars(StartInvocation(i))
          /\ WF_vars(i \in ctxDone /\ SourcePollReturns(i))
          /\ SF_vars(FinishInvocation(i))
          /\ WF_vars(NotifyIdle(i))

Spec == Init /\ [][Next]_vars
FairSpec == Spec /\ Fairness

-----------------------------------------------------------------------------
(* Properties *)

(* At most one invocation is inside the source, it is the one p.cancel
   cancels, and p.cancel is nil when there is none ("so that we don't spawn
   doubles"). *)
OneInvocation ==
    \A i \in Invocations : inv[i] \in {"polling", "finish"} <=> cancel = i

(* A Poll blocked in its send never meets a closed p.pulse: sending there
   would panic. *)
NoSendOnClosedPulse == \A c \in Callers : pc[c] = "send" => ~closed

(* Whoever waits in Close for an invocation waits for one whose context has
   been cancelled, never for one that started after p.closed was set. *)
ClosingCancels ==
    \A i \in Invocations : closed /\ inv[i] = "polling" => i \in ctxDone

(* The calls of Source.Poll under way, in the terms of PollSource. *)
ActivePolls == {i \in Invocations : inv[i] = "polling"}

Source == INSTANCE PollSource
              WITH Calls <- Invocations, active <- ActivePolls, released <- srcClosed

(* The calls of invoke and Close reach the source one at a time, none of them
   after source.Close: the poller implements the contract of PollSource. *)
SourceContract == Source!SourceSpec

(* Poll and Close return.  Poll does, although it sends on p.pulse with the
   mutex held; Close does, without waiting for the timeout of the poll it
   cancels: the broadcast that ends the invocation always finds it. *)
CallsReturn == \A c \in Callers : pc[c] # "idle" ~> pc[c] = "idle"

(* After Close the goroutines of the poller end for good: run() although the
   closed p.pulse stays ready, and every invoke() it has spawned. *)
Quiet == run = "exited" /\ \A i \in Invocations : inv[i] = "free"
Quiesces == closed ~> []Quiet
=============================================================================
