--------------------------- MODULE BreakerCircuit ---------------------------
(***************************************************************************)
(* The breaker implements the circuit: the probe map is the set of         *)
(* outstanding probes, halfOpenCompleted the number of classified ones.    *)
(***************************************************************************)
EXTENDS Breaker

C == INSTANCE Circuit WITH
       Probe <- Permit, MaxProbes <- HalfOpen.MaxProbes,
       outstanding <- probe.permits, classified <- probe.completed

(***************************************************************************)
(* Every critical section of Breaker.mu is one step of the circuit or      *)
(* none: a permit takes part in a sample only as an outstanding probe of   *)
(* it, no operation moves the state twice, and callers, windows, expiries  *)
(* and late completions are invisible beyond that.                         *)
(***************************************************************************)
ImplementsCircuit == C!Spec

=============================================================================
