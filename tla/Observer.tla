------------------------------ MODULE Observer ------------------------------
(***************************************************************************)
(* Asynchronous delivery of transition events (observer.go): producers     *)
(* that committed a transition under Breaker.mu and now dispatch its event *)
(* outside of it, the bounded queue with its overflow policy, the one      *)
(* worker, and Close and Shutdown.                                         *)
(*                                                                         *)
(* A goroutine is a client of the breaker or the worker.  An event is the  *)
(* number of the transition that produced it.  Each channel operation and  *)
(* each critical section of eventMu that a worker step can interleave with *)
(* is one action.  The callback may fail or panic, commit transitions of   *)
(* its own and call Close; it must not call Shutdown (observer.go) and the *)
(* model has no such step.                                                 *)
(***************************************************************************)
EXTENDS TransitionEvents

CONSTANTS
  Worker,      \* the goroutine that startObserver starts
  Buffer,      \* AsynchronousEvents.Buffer
  MaxEvents    \* bound on committed transitions

DropNewestEvent == "newest"
DropOldestEvent == "oldest"

Goroutine == Client \cup {Worker}
NoEvent == 0

ASSUME ObserverAssumption ==
  /\ Worker \notin Client /\ Free \notin Goroutine /\ IsFiniteSet(Client)
  /\ Buffer \in Nat \ {0} /\ MaxEvents \in Nat

VARIABLES
  overflow,            \* AsynchronousEvents.Overflow: chosen once, by New
  committed,           \* transitions committed so far
  eventChannel,
  eventMu,             \* the goroutine that holds eventMu, or Free
  eventCloseOnce,      \* "new", "running" or "done"
  eventClosed, eventStop, eventDone,
  dropped,             \* observerCounters.dropped
  pc,
  event,               \* the event a goroutine dispatches
  current,             \* the event handed to the callback
  draining,            \* the worker has seen eventStop
  delivered            \* history: the events whose callback has returned

queueVars == <<eventChannel, dropped>>
closeVars == <<eventCloseOnce, eventClosed, eventStop>>
workerVars == <<eventDone, failures, current, draining, delivered>>
vars == <<overflow, committed, queueVars, eventMu, closeVars, workerVars, pc, event>>

\* Where a goroutine is between two operations: inside a callback, or nowhere.
Home(g) == IF g = Worker THEN "callback" ELSE "idle"

Goto(g, label) == pc' = [pc EXCEPT ![g] = label]

Init ==
  /\ overflow \in {DropNewestEvent, DropOldestEvent}
  /\ committed = 0
  /\ eventChannel = <<>> /\ eventMu = Free
  /\ eventCloseOnce = "new" /\ eventClosed = FALSE /\ eventStop = FALSE /\ eventDone = FALSE
  /\ dropped = 0 /\ failures = 0
  /\ pc = [g \in Goroutine |-> IF g = Worker THEN "select" ELSE "idle"]
  /\ event = [g \in Goroutine |-> NoEvent]
  /\ current = NoEvent /\ draining = FALSE /\ delivered = {}

-----------------------------------------------------------------------------
(* dispatch and enqueue *)

\* A transition is committed and its event taken, under Breaker.mu.
Commit(g) ==
  /\ pc[g] = Home(g)
  /\ committed < MaxEvents
  /\ committed' = committed + 1
  /\ event' = [event EXCEPT ![g] = committed + 1]
  /\ Goto(g, "dispatch")
  /\ UNCHANGED <<overflow, queueVars, eventMu, closeVars, workerVars>>

\* A bug that dispatches without taking eventMu.
LockUnlocked(g) ==
  /\ pc[g] = "dispatch"
  /\ Goto(g, "enqueue")
  /\ UNCHANGED <<overflow, committed, queueVars, eventMu, closeVars, workerVars, event>>

Lock(g) ==
  /\ pc[g] = "dispatch"
  /\ eventMu = Free /\ eventMu' = g
  /\ Goto(g, "enqueue")
  /\ UNCHANGED <<overflow, committed, queueVars, closeVars, workerVars, event>>

\* enqueue returns and unlocks.
Unlock(g) ==
  /\ eventMu' = Free
  /\ event' = [event EXCEPT ![g] = NoEvent]
  /\ Goto(g, Home(g))

\* The event was dropped: after Close, or because the queue is full.
Refuse(g) ==
  /\ pc[g] = "enqueue"
  /\ \/ eventClosed
     \/ Len(eventChannel) = Buffer /\ overflow = DropNewestEvent
  /\ dropped' = dropped + 1
  /\ Unlock(g)
  /\ UNCHANGED <<overflow, committed, eventChannel, closeVars, workerVars>>

\* A bug that does not look at eventClosed under the lock.
SendUnchecked(g) ==
  /\ pc[g] = "enqueue"
  /\ Len(eventChannel) < Buffer
  /\ eventChannel' = Append(eventChannel, event[g])
  /\ Unlock(g)
  /\ UNCHANGED <<overflow, committed, dropped, closeVars, workerVars>>

Send(g) ==
  /\ pc[g] = "enqueue"
  /\ ~eventClosed /\ Len(eventChannel) < Buffer
  /\ eventChannel' = Append(eventChannel, event[g])
  /\ Unlock(g)
  /\ UNCHANGED <<overflow, committed, dropped, closeVars, workerVars>>

\* The queue is full, and under DropOldestEvent something has to go.
Overflow(g) ==
  /\ pc[g] = "enqueue"
  /\ ~eventClosed /\ Len(eventChannel) = Buffer /\ overflow = DropOldestEvent
  /\ Goto(g, "evict")
  /\ UNCHANGED <<overflow, committed, queueVars, eventMu, closeVars, workerVars, event>>

\* A bug that counts an eviction that did not happen.
EvictCountsAlways(g) ==
  /\ pc[g] = "evict"
  /\ eventChannel' = IF eventChannel = <<>> THEN <<>> ELSE Tail(eventChannel)
  /\ dropped' = dropped + 1
  /\ Goto(g, "resend")
  /\ UNCHANGED <<overflow, committed, eventMu, closeVars, workerVars, event>>

\* Evict, unless the worker has emptied the queue in the meantime.
Evict(g) ==
  /\ pc[g] = "evict"
  /\ eventChannel' = IF eventChannel = <<>> THEN <<>> ELSE Tail(eventChannel)
  /\ dropped' = IF eventChannel = <<>> THEN dropped ELSE dropped + 1
  /\ Goto(g, "resend")
  /\ UNCHANGED <<overflow, committed, eventMu, closeVars, workerVars, event>>

\* The one send that blocks while the queue is full, with eventMu held.
Resend(g) ==
  /\ pc[g] = "resend"
  /\ Len(eventChannel) < Buffer
  /\ eventChannel' = Append(eventChannel, event[g])
  /\ Unlock(g)
  /\ UNCHANGED <<overflow, committed, dropped, closeVars, workerVars>>

-----------------------------------------------------------------------------
(* runObserver and observe *)

Receive ==
  /\ pc[Worker] \in {"select", "drain"}
  /\ eventChannel # <<>>
  /\ current' = Head(eventChannel)
  /\ eventChannel' = Tail(eventChannel)
  /\ Goto(Worker, "callback")
  /\ UNCHANGED <<overflow, committed, dropped, eventMu, closeVars, event,
                 eventDone, failures, draining, delivered>>

\* select may take this case even when events are queued.
SeeStop ==
  /\ pc[Worker] = "select"
  /\ eventStop
  /\ draining' = TRUE
  /\ Goto(Worker, "drain")
  /\ UNCHANGED <<overflow, committed, queueVars, eventMu, closeVars, event,
                 eventDone, failures, current, delivered>>

\* The callback returned; an error or a panic only counts.
CallbackReturns(failed) ==
  /\ pc[Worker] = "callback"
  /\ failures' = IF failed THEN failures + 1 ELSE failures
  /\ delivered' = delivered \cup {current}
  /\ current' = NoEvent
  /\ Goto(Worker, IF draining THEN "drain" ELSE "select")
  /\ UNCHANGED <<overflow, committed, queueVars, eventMu, closeVars, event,
                 eventDone, draining>>

\* A bug that stops at eventStop with events still queued.
FinishWithoutDrain ==
  /\ pc[Worker] = "drain"
  /\ eventDone' = TRUE
  /\ Goto(Worker, "done")
  /\ UNCHANGED <<overflow, committed, queueVars, eventMu, closeVars, event,
                 failures, current, draining, delivered>>

\* The drain loop found the queue empty.
Finish ==
  /\ pc[Worker] = "drain"
  /\ eventChannel = <<>>
  /\ eventDone' = TRUE
  /\ Goto(Worker, "done")
  /\ UNCHANGED <<overflow, committed, queueVars, eventMu, closeVars, event,
                 failures, current, draining, delivered>>

-----------------------------------------------------------------------------
(* Close and Shutdown *)

\* eventCloseOnce.Do runs its function for the first caller; a caller that
\* arrives while it runs waits, which is to call it later, and a caller that
\* arrives after it returns at once.
CloseBegins(g) ==
  /\ pc[g] = Home(g)
  /\ eventCloseOnce = "new"
  /\ eventCloseOnce' = "running"
  /\ Goto(g, "close")
  /\ UNCHANGED <<overflow, committed, queueVars, eventMu, eventClosed, eventStop,
                 workerVars, event>>

CloseStores(g) ==
  /\ pc[g] = "close"
  /\ eventMu = Free /\ eventMu' = g
  /\ eventClosed' = TRUE
  /\ Goto(g, "stop")
  /\ UNCHANGED <<overflow, committed, queueVars, eventCloseOnce, eventStop, workerVars, event>>

\* A bug that forgets to wake the worker.
CloseStopsSilently(g) ==
  /\ pc[g] = "stop"
  /\ eventMu' = Free
  /\ eventCloseOnce' = "done"
  /\ Goto(g, Home(g))
  /\ UNCHANGED <<overflow, committed, queueVars, eventClosed, eventStop, workerVars, event>>

\* close(eventStop) and unlock.
CloseStops(g) ==
  /\ pc[g] = "stop"
  /\ eventStop' = TRUE
  /\ eventMu' = Free
  /\ eventCloseOnce' = "done"
  /\ Goto(g, Home(g))
  /\ UNCHANGED <<overflow, committed, queueVars, eventClosed, workerVars, event>>

\* The rest of Shutdown, once its call of Close has returned.
ShutdownWaits(c) ==
  /\ pc[c] = "idle"
  /\ eventCloseOnce = "done"
  /\ Goto(c, "await")
  /\ UNCHANGED <<overflow, committed, queueVars, eventMu, closeVars, workerVars, event>>

ShutdownReturns(c) ==
  /\ pc[c] = "await"
  /\ eventDone
  /\ Goto(c, "idle")
  /\ UNCHANGED <<overflow, committed, queueVars, eventMu, closeVars, workerVars, event>>

\* The context ended first.
ShutdownCanceled(c) ==
  /\ pc[c] = "await"
  /\ Goto(c, "idle")
  /\ UNCHANGED <<overflow, committed, queueVars, eventMu, closeVars, workerVars, event>>

-----------------------------------------------------------------------------
Enqueue(g) == Refuse(g) \/ Send(g) \/ Overflow(g) \/ Evict(g) \/ Resend(g)

Work == Receive \/ SeeStop \/ Finish

Next ==
  \/ \E g \in Goroutine :
       \/ Commit(g) \/ Lock(g) \/ Enqueue(g)
       \/ CloseBegins(g) \/ CloseStores(g) \/ CloseStops(g)
  \/ \E c \in Client : ShutdownWaits(c) \/ ShutdownReturns(c) \/ ShutdownCanceled(c)
  \/ Work
  \/ \E failed \in BOOLEAN : CallbackReturns(failed)

(***************************************************************************)
(* A goroutine that can go on does, sync.Mutex starves nobody, and         *)
(* callbacks return.  Nobody has to commit, to call Close, or to cancel.   *)
(***************************************************************************)
Fairness ==
  /\ \A g \in Goroutine :
       /\ SF_vars(Lock(g) \/ CloseStores(g))
       /\ WF_vars(Enqueue(g) \/ CloseStops(g))
  /\ \A c \in Client : WF_vars(ShutdownReturns(c))
  /\ WF_vars(Work)
  /\ SF_vars(\E failed \in BOOLEAN : CallbackReturns(failed))

Spec == Init /\ [][Next]_vars /\ Fairness

-----------------------------------------------------------------------------
(* Properties *)

Queued == {eventChannel[i] : i \in DOMAIN eventChannel}
Dispatching == {event[g] : g \in Goroutine} \ {NoEvent}
Observing == {current} \ {NoEvent}

(***************************************************************************)
(* Snapshot.DroppedEvents after any race of producers, worker and Close:   *)
(* each committed transition's event is in exactly one place, or has been  *)
(* delivered once, and the counter is exactly the number of the others, so *)
(* no event is lost silently, delivered twice or counted twice.            *)
(***************************************************************************)
EventsAccounted ==
  /\ Queued \cup Dispatching \cup Observing \cup delivered \subseteq 1..committed
  /\ committed = dropped + Len(eventChannel) + Cardinality(Dispatching)
                   + Cardinality(Observing) + Cardinality(delivered)
  /\ Cardinality(Queued \cup Dispatching \cup Observing \cup delivered) = committed - dropped

(***************************************************************************)
(* The blocking send at the end of enqueue, made with eventMu held: there  *)
(* is always room for it, so a producer never waits for the worker and a   *)
(* callback that dispatches or calls Close never waits for itself.         *)
(***************************************************************************)
ResendHasRoom ==
  \A g \in Goroutine : pc[g] = "resend" => eventMu = g /\ Len(eventChannel) < Buffer

(***************************************************************************)
(* Close drains: when eventDone is closed, everything that enqueue ever    *)
(* accepted has left the queue, and nothing enters it afterwards.          *)
(***************************************************************************)
NothingStranded == eventDone => eventClosed /\ eventChannel = <<>>

(***************************************************************************)
(* Once Close has been called the worker ends, from wherever it is, also   *)
(* when the caller is the callback itself; Shutdown without a deadline     *)
(* returns.                                                                *)
(***************************************************************************)
CloseEndsWorker ==
  /\ eventCloseOnce # "new" ~> eventDone
  /\ \A c \in Client : pc[c] = "await" ~> pc[c] = "idle"

\* A committed event does not stay in transit: its callback runs or it is dropped.
EventsSettle ==
  \A e \in 1..MaxEvents :
    e \in Queued \cup Dispatching ~> e \notin Queued \cup Dispatching \cup Observing

=============================================================================
