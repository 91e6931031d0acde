-------------------------- MODULE TransitionEvents --------------------------
(***************************************************************************)
(* What both kinds of event delivery share (observer.go).  The             *)
(* configuration chooses one of them, Observer or SyncObserver.  An event  *)
(* is the number of the transition that produced it.                       *)
(***************************************************************************)
EXTENDS Naturals, Sequences, FiniteSets

CONSTANT Client     \* goroutines that use the breaker

\* A mutex that no goroutine holds.
Free == "free"

VARIABLE failures   \* observerCounters.failures: callbacks that failed or panicked

=============================================================================
