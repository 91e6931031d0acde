----------------------------- MODULE MCObserver -----------------------------
(***************************************************************************)
(* Both kinds of event delivery in one run: the configuration chooses one, *)
(* and the other does not move.  Each keeps its own fairness, which asks   *)
(* nothing of a machine that stands still.                                 *)
(***************************************************************************)
EXTENDS Observer, SyncObserver

VARIABLE mode    \* observer.mode

DeliveryInit ==
  /\ Init /\ SyncInit
  /\ mode \in {"synchronous", "asynchronous"}
  /\ mode = "synchronous" => overflow = DropNewestEvent    \* there is no queue

AsynchronousNext ==
  /\ mode = "asynchronous"
  /\ Next
  /\ UNCHANGED <<mode, mu, pendingEvents, stack, transitions, origin, observed>>

SynchronousNext ==
  /\ mode = "synchronous"
  /\ SyncNext
  /\ UNCHANGED <<mode, overflow, queueVars, eventMu, closeVars, pc, event>>
  /\ UNCHANGED <<committed, eventDone, current, draining, delivered>>

DeliverySpec ==
  /\ DeliveryInit
  /\ [][AsynchronousNext \/ SynchronousNext]_<<mode, vars, syncVars>>
  /\ \/ mode = "asynchronous" /\ Fairness
     \/ mode = "synchronous" /\ SyncFairness

=============================================================================
