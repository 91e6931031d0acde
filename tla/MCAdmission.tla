---------------------------- MODULE MCAdmission ----------------------------
(***************************************************************************)
(* Values for the run admission: one failure opens, and the next probe is  *)
(* due one instant later.                                                  *)
(***************************************************************************)
EXTENDS Admission

MCPermits == 1..4
MCFourInstants == 1..4
MCOutcomes == {Success, Failure}
MCModes == {ModeNormal, ModeForceOpen}

MCOpening ==
  [ConsecutiveFailures |-> 0, FailureCount |-> 1, FailureRatio |-> 0,
   SlowCount |-> 0, SlowRatio |-> 0,
   Combination |-> OpenWhenAny, IgnoredBehavior |-> PreserveConsecutiveFailures]

MCOneProbe ==
  [MaxProbes |-> 1, RequiredSuccesses |-> 1, SuccessRatio |-> 0,
   FailureAction |-> ReopenImmediately]

MCOpenDuration == [Initial |-> 1, Multiplier |-> 100, Maximum |-> 1]

MCSamples == {0}

=============================================================================
