----------------------------- MODULE MCCircuit -----------------------------
(***************************************************************************)
(* The refinement under the values of MCBreaker, for the run breaker_wait. *)
(***************************************************************************)
EXTENDS MCBreaker, BreakerCircuit

=============================================================================
