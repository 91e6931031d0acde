---------------------------- MODULE SyncObserver ----------------------------
(***************************************************************************)
(* Synchronous delivery of transition events: an operation records its     *)
(* event in pendingEvents while it holds Breaker.mu (breaker.go), takes    *)
(* what is pending when it gives mu up, and calls the observer itself      *)
(* (observer.go).  Operations that record nothing may give mu up without   *)
(* taking.  Observers may call the breaker again, so a goroutine is a      *)
(* stack of operations, each inside a callback of the one below.           *)
(*                                                                         *)
(* A turn of a waiting acquire's loop is an operation here.  Close and     *)
(* Shutdown do nothing in this mode, and a panic of the callback is an     *)
(* error: both are counted.                                                *)
(***************************************************************************)
EXTENDS TransitionEvents, SequencesExt

CONSTANTS
  MaxDepth,        \* bound on nested callbacks
  MaxTransitions   \* bound on committed transitions

ASSUME SyncObserverAssumption ==
  /\ IsFiniteSet(Client) /\ Free \notin Client
  /\ MaxDepth \in Nat \ {0} /\ MaxTransitions \in Nat

VARIABLES
  mu,             \* the goroutine that holds Breaker.mu, or Free
  pendingEvents,
  stack,          \* the operations of a goroutine, the innermost last
  transitions,    \* committed so far
  origin,         \* history: the goroutine that committed an event
  observed        \* history: <<goroutine, event>> of every callback that returned

syncVars == <<mu, pendingEvents, stack, transitions, failures, origin, observed>>

Top(g) == Last(stack[g])
Replace(g, frame) == stack' = [stack EXCEPT ![g] = Append(Front(@), frame)]

SyncInit ==
  /\ mu = Free /\ pendingEvents = <<>>
  /\ stack = [g \in Client |-> <<>>]
  /\ transitions = 0 /\ failures = 0
  /\ origin = <<>> /\ observed = <<>>

-----------------------------------------------------------------------------
\* An operation begins: at top level, or in a callback.
Call(g) ==
  /\ stack[g] # <<>> => Top(g).pc = "callback" /\ Len(stack[g]) < MaxDepth
  /\ stack' = [stack EXCEPT ![g] = Append(@, [pc |-> "lock", events |-> <<>>])]
  /\ UNCHANGED <<mu, pendingEvents, transitions, failures, origin, observed>>

LockMu(g) ==
  /\ stack[g] # <<>> /\ Top(g).pc = "lock"
  /\ mu = Free /\ mu' = g
  /\ Replace(g, [Top(g) EXCEPT !.pc = "locked"])
  /\ UNCHANGED <<pendingEvents, transitions, failures, origin, observed>>

\* The operation commits a transition, or it does not.
Transition(g) ==
  /\ stack[g] # <<>> /\ Top(g).pc = "locked"
  /\ transitions < MaxTransitions
  /\ transitions' = transitions + 1
  /\ pendingEvents' = Append(pendingEvents, transitions + 1)
  /\ origin' = Append(origin, g)
  /\ Replace(g, [Top(g) EXCEPT !.pc = "unlock"])
  /\ UNCHANGED <<mu, failures, observed>>

NoTransition(g) ==
  /\ stack[g] # <<>> /\ Top(g).pc = "locked"
  /\ Replace(g, [Top(g) EXCEPT !.pc = "unlock"])
  /\ UNCHANGED <<mu, pendingEvents, transitions, failures, origin, observed>>

\* takeEventsLocked and Unlock.
UnlockAndDispatch(g) ==
  /\ stack[g] # <<>> /\ Top(g).pc = "unlock"
  /\ Replace(g, [pc |-> "dispatch", events |-> pendingEvents])
  /\ pendingEvents' = <<>>
  /\ mu' = Free
  /\ UNCHANGED <<transitions, failures, origin, observed>>

\* A bug: an operation that may have moved the state gives mu up the plain way.
UnlockAfterTransition(g) ==
  /\ stack[g] # <<>> /\ Top(g).pc \in {"locked", "unlock"}
  /\ mu' = Free
  /\ stack' = [stack EXCEPT ![g] = Front(@)]
  /\ UNCHANGED <<pendingEvents, transitions, failures, origin, observed>>

\* Snapshot, and an acquire whose context has ended: these give mu up without
\* taking what is pending, and return.
UnlockPlainly(g) ==
  /\ stack[g] # <<>> /\ Top(g).pc = "locked"
  /\ mu' = Free
  /\ stack' = [stack EXCEPT ![g] = Front(@)]
  /\ UNCHANGED <<pendingEvents, transitions, failures, origin, observed>>

Observe(g) ==
  /\ stack[g] # <<>> /\ Top(g).pc = "dispatch" /\ Top(g).events # <<>>
  /\ Replace(g, [Top(g) EXCEPT !.pc = "callback"])
  /\ UNCHANGED <<mu, pendingEvents, transitions, failures, origin, observed>>

\* A bug that observes an event again when its callback failed.
CallbackReturnsRetries(g, fails) ==
  /\ stack[g] # <<>> /\ Top(g).pc = "callback"
  /\ Replace(g, [pc |-> "dispatch",
                 events |-> IF fails THEN Top(g).events ELSE Tail(Top(g).events)])
  /\ failures' = failures + (IF fails THEN 1 ELSE 0)
  /\ observed' = Append(observed, <<g, Head(Top(g).events)>>)
  /\ UNCHANGED <<mu, pendingEvents, transitions, origin>>

\* A failure reaches the counter only; nothing propagates to the operation.
CallbackEnds(g, fails) ==
  /\ stack[g] # <<>> /\ Top(g).pc = "callback"
  /\ Replace(g, [pc |-> "dispatch", events |-> Tail(Top(g).events)])
  /\ failures' = failures + (IF fails THEN 1 ELSE 0)
  /\ observed' = Append(observed, <<g, Head(Top(g).events)>>)
  /\ UNCHANGED <<mu, pendingEvents, transitions, origin>>

\* A bug that goes back for the events of others until there are none, for ever.
ReturnRechecks(g) ==
  /\ stack[g] # <<>> /\ Top(g).pc = "dispatch" /\ Top(g).events = <<>>
  /\ Replace(g, [Top(g) EXCEPT !.pc = "lock"])
  /\ UNCHANGED <<mu, pendingEvents, transitions, failures, origin, observed>>

Return(g) ==
  /\ stack[g] # <<>> /\ Top(g).pc = "dispatch" /\ Top(g).events = <<>>
  /\ stack' = [stack EXCEPT ![g] = Front(@)]
  /\ UNCHANGED <<mu, pendingEvents, transitions, failures, origin, observed>>

-----------------------------------------------------------------------------
Proceed(g) ==
  \/ Transition(g) \/ NoTransition(g) \/ UnlockAndDispatch(g) \/ UnlockPlainly(g)
  \/ Observe(g) \/ Return(g)

SyncNext ==
  \E g \in Client :
    \/ Call(g) \/ LockMu(g) \/ Proceed(g)
    \/ \E fails \in BOOLEAN : CallbackEnds(g, fails)

(***************************************************************************)
(* A goroutine that can go on does, sync.Mutex starves nobody, and a       *)
(* callback returns even if it could call the breaker once more.           *)
(***************************************************************************)
SyncFairness ==
  \A g \in Client :
    /\ WF_syncVars(Proceed(g))
    /\ SF_syncVars(LockMu(g))
    /\ SF_syncVars(\E fails \in BOOLEAN : CallbackEnds(g, fails))

SyncSpec == SyncInit /\ [][SyncNext]_syncVars /\ SyncFairness

-----------------------------------------------------------------------------
(* Properties *)

(***************************************************************************)
(* Whatever is pending was committed by the goroutine that holds mu.       *)
(* Snapshot and a cancelled Acquire give mu up without looking at          *)
(* pendingEvents; that they strand no event, and that no operation takes   *)
(* one a stranger committed, rests on every other operation having taken   *)
(* its own before it let them in.                                          *)
(***************************************************************************)
PendingIsTheHolders ==
  \A i \in DOMAIN pendingEvents : origin[pendingEvents[i]] = mu

Deliveries(e) == {i \in DOMAIN observed : observed[i][2] = e}

(***************************************************************************)
(* A goroutine is back from its operation only when every transition it    *)
(* committed, in nested callbacks too, has been observed once, by itself;  *)
(* and nothing is ever observed twice or by another goroutine.             *)
(***************************************************************************)
DeliveredByCommitter ==
  \A e \in 1..transitions :
    /\ \A i \in Deliveries(e) : observed[i][1] = origin[e]
    /\ Cardinality(Deliveries(e)) <= 1
    /\ stack[origin[e]] = <<>> => Deliveries(e) # {}

(***************************************************************************)
(* Operations return, whoever's callback uses the breaker at the time, at  *)
(* any depth: no callback runs with mu held.                               *)
(***************************************************************************)
OperationsReturn == \A g \in Client : stack[g] # <<>> ~> stack[g] = <<>>

=============================================================================
