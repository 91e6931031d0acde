----------------------------- MODULE MCBreaker -----------------------------
(***************************************************************************)
(* Values of the breaker's constants for the runs breaker_reject,          *)
(* breaker_wait and breaker_time.                                          *)
(***************************************************************************)
EXTENDS Breaker, TLC

MCTwoInstants == 1..2
MCThreeInstants == 1..3

\* One failure opens.
MCOpenOnFailure ==
  [ConsecutiveFailures |-> 0, FailureCount |-> 1, FailureRatio |-> 0,
   SlowCount |-> 0, SlowRatio |-> 0,
   Combination |-> OpenWhenAny, IgnoredBehavior |-> PreserveConsecutiveFailures]

\* A failure streak that an ignored completion breaks, and mostly slow calls.
MCOpenOnSlowStreak ==
  [ConsecutiveFailures |-> 1, FailureCount |-> 0, FailureRatio |-> 0,
   SlowCount |-> 0, SlowRatio |-> 50,
   Combination |-> OpenWhenAll, IgnoredBehavior |-> ResetConsecutiveFailures]

\* Two successful probes close, the first failed one reopens.
MCRequireBoth ==
  [MaxProbes |-> 2, RequiredSuccesses |-> 2, SuccessRatio |-> 0,
   FailureAction |-> ReopenImmediately]

\* Two probes are always sampled; more than half of them must succeed.
MCSampleTwo ==
  [MaxProbes |-> 2, RequiredSuccesses |-> 0, SuccessRatio |-> 60,
   FailureAction |-> ReopenAfterSample]

MCOneProbe ==
  [MaxProbes |-> 1, RequiredSuccesses |-> 1, SuccessRatio |-> 0,
   FailureAction |-> ReopenImmediately]

MCFixed == [Initial |-> 1, Multiplier |-> 100, Maximum |-> 1]

\* 2, then 3, then 4; a jitter of one half makes each 1 at its shortest.
MCExponential == [Initial |-> 2, Multiplier |-> 150, Maximum |-> 4]
MCZeroSample == {0}
MCJitterSamples == {0, 99}

MCSymmetry == Permutations(Permit)

(***************************************************************************)
(* A permit that can change no more has the same future whatever its other *)
(* fields are, and no action reads the lifetime counters but for the bound *)
(* MaxRejected, which the runs that use MCView put out of reach.           *)
(***************************************************************************)
MCFinal(p) ==
  \/ permit[p].status \in {"completed", "canceled"}
  \/ permit[p].status = "expired" /\ ~permit[p].execution

MCLive ==
  [p \in Permit |-> IF MCFinal(p) THEN [NoPermit EXCEPT !.status = "completed"]
                    ELSE permit[p]]

MCView == <<health, caller, MCLive>>

(***************************************************************************)
(* A stale permit is never current again, so which epoch it came from no   *)
(* longer matters to what follows, nor to the properties of breaker_wait.  *)
(***************************************************************************)
MCCurrent ==
  [p \in Permit |->
     IF MCFinal(p) \/ permit[p].status = "none" \/ permit[p].generation = generation
     THEN MCLive[p]
     ELSE [permit[p] EXCEPT !.generation = 0, !.state = StateClosed, !.recording = FALSE]]

MCWaitView == <<health, caller, MCCurrent>>

\* With the counters, and with what they are compared to: every status.
MCTotalsView == <<health, caller, MCLive, totals, [p \in Permit |-> permit[p].status]>>

=============================================================================
