----------------------------- MODULE MCExecute -----------------------------
(***************************************************************************)
(* Values for the run execute: one failure opens, one successful probe     *)
(* closes, and a permit is overdue one instant after its admission.        *)
(***************************************************************************)
EXTENDS Execute, TLC

MCInstants == 1..2

MCOpening ==
  [ConsecutiveFailures |-> 0, FailureCount |-> 1, FailureRatio |-> 0,
   SlowCount |-> 0, SlowRatio |-> 0,
   Combination |-> OpenWhenAny, IgnoredBehavior |-> PreserveConsecutiveFailures]

MCHalfOpen ==
  [MaxProbes |-> 1, RequiredSuccesses |-> 1, SuccessRatio |-> 0,
   FailureAction |-> ReopenImmediately]

MCOpenDuration == [Initial |-> 1, Multiplier |-> 100, Maximum |-> 1]

MCSamples == {0}

MCSymmetry == Permutations(Permit) \cup Permutations(Caller)

(***************************************************************************)
(* Of a permit that can change no more only its status is kept, and of the *)
(* counters all but the rejections, whose bound the runs put out of reach. *)
(***************************************************************************)
MCLive ==
  [p \in Permit |-> IF permit[p].status \in {"active", "expired"} THEN permit[p]
                    ELSE [NoPermit EXCEPT !.status = permit[p].status]]

MCView == <<health, caller, MCLive, [totals EXCEPT !["rejected"] = 0], call, ending>>

=============================================================================
