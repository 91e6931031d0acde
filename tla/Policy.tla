------------------------------- MODULE Policy -------------------------------
(***************************************************************************)
(* The decisions of the breaker as pure operators: opening rules           *)
(* (policy.go), the open-interval schedule and its jitter (breaker.go),    *)
(* the verdict on a half-open sample (breaker.go), and which policies      *)
(* normalizeConfig accepts (config.go).  Ratios, multipliers and jitter    *)
(* samples are whole percentages, compared by cross-multiplication: exact  *)
(* where the code divides float64 values, which agrees at small counts.    *)
(***************************************************************************)
EXTENDS Window

Percent == 0..100

-----------------------------------------------------------------------------
(* Opening rules *)

OpenWhenAny == "any"
OpenWhenAll == "all"
PreserveConsecutiveFailures == "preserve"
ResetConsecutiveFailures == "reset"

OpeningRules ==
  [ConsecutiveFailures : Nat, FailureCount : Nat, FailureRatio : Percent,
   SlowCount : Nat, SlowRatio : Percent,
   Combination : {OpenWhenAny, OpenWhenAll},
   IgnoredBehavior : {PreserveConsecutiveFailures, ResetConsecutiveFailures}]

Rules == {"ConsecutiveFailures", "FailureCount", "FailureRatio", "SlowCount", "SlowRatio"}

\* normalizeOpening: at least one rule is enabled.
ValidOpening(rules) == rules \in OpeningRules /\ \E k \in Rules : rules[k] > 0

\* ratio(n, d) >= threshold; an undefined ratio is zero.
RatioReaches(n, d, threshold) == IF d = 0 THEN threshold = 0 ELSE n * 100 >= threshold * d

(***************************************************************************)
(* Throughput gates every rule; a rule set to zero is not asked.           *)
(***************************************************************************)
OpeningDecision(rules, minimumThroughput, consecutiveFailures, s) ==
  LET met == [ConsecutiveFailures |-> consecutiveFailures >= rules.ConsecutiveFailures,
              FailureCount |-> s.Failures >= rules.FailureCount,
              FailureRatio |-> RatioReaches(s.Failures, s.Classified, rules.FailureRatio),
              SlowCount    |-> Slow(s) >= rules.SlowCount,
              SlowRatio    |-> RatioReaches(Slow(s), s.Classified, rules.SlowRatio)]
      enabled == {k \in Rules : rules[k] > 0}
  IN /\ s.Classified >= minimumThroughput
     /\ IF rules.Combination = OpenWhenAll
        THEN enabled # {} /\ \A k \in enabled : met[k]
        ELSE \E k \in enabled : met[k]

-----------------------------------------------------------------------------
(* The open-interval schedule *)

\* FixedOpenDuration(d) is [Initial |-> d, Multiplier |-> 100, Maximum |-> d].
OpenDurationPolicies == [Initial : Nat, Multiplier : Nat, Maximum : Nat]

ValidOpenDuration(policy) ==
  /\ policy \in OpenDurationPolicies
  /\ policy.Initial > 0
  /\ policy.Multiplier >= 100
  /\ policy.Maximum >= policy.Initial

(***************************************************************************)
(* The interval of the n-th consecutive opening.  A truncated product that *)
(* does not grow selects the cap, and the cap is never left.               *)
(***************************************************************************)
ScheduledDuration(policy, n) ==
  LET duration[k \in Nat] ==
        IF k <= 1 \/ policy.Multiplier = 100 THEN policy.Initial
        ELSE LET previous == duration[k - 1]
                 next == (previous * policy.Multiplier) \div 100
             IN IF next <= previous \/ next > policy.Maximum
                THEN policy.Maximum ELSE next
  IN duration[n]

\* Jitter shortens, and never below one.  The product is exact here: that of
\* float64, which may round a long interval up, is JitterDuration of Schedule.
JitterDuration(duration, jitter, sample) ==
  LET jittered == (duration * (10000 - jitter * sample)) \div 10000
  IN IF jitter = 0 THEN duration ELSE IF jittered <= 0 THEN 1 ELSE jittered

-----------------------------------------------------------------------------
(* Half-open recovery *)

ReopenImmediately == "immediately"
ReopenAfterSample == "after_sample"

HalfOpenPolicies ==
  [MaxProbes : Nat, RequiredSuccesses : Nat, SuccessRatio : Percent,
   FailureAction : {ReopenImmediately, ReopenAfterSample}]

\* normalizeHalfOpen: exactly one recovery threshold, and one that is reachable.
ValidHalfOpen(policy) ==
  /\ policy \in HalfOpenPolicies
  /\ policy.MaxProbes > 0
  /\ (policy.RequiredSuccesses > 0) # (policy.SuccessRatio > 0)
  /\ policy.RequiredSuccesses <= policy.MaxProbes

\* An off-by-one at the success threshold.
RecoveredLate(policy, completed, successes) ==
  \/ /\ policy.RequiredSuccesses > 0
     /\ successes > policy.RequiredSuccesses
  \/ /\ policy.SuccessRatio > 0
     /\ completed >= policy.MaxProbes
     /\ RatioReaches(successes, completed, policy.SuccessRatio)

(***************************************************************************)
(* The verdict on a sample of completed probes with successes among them,  *)
(* once outcome was added to it.  A failure that reopens immediately is    *)
(* decided before the thresholds are looked at.                            *)
(***************************************************************************)
Recovered(policy, completed, successes) ==
  \/ /\ policy.RequiredSuccesses > 0
     /\ successes >= policy.RequiredSuccesses
  \/ /\ policy.SuccessRatio > 0
     /\ completed >= policy.MaxProbes
     /\ RatioReaches(successes, completed, policy.SuccessRatio)

\* A bug that waits for one probe more than the quota admits.
ProbeReopensLate(policy, outcome, completed, successes) ==
  \/ outcome = Failure /\ policy.FailureAction = ReopenImmediately
  \/ /\ completed > policy.MaxProbes
     /\ policy.SuccessRatio > 0 \/ policy.FailureAction = ReopenAfterSample
     /\ ~Recovered(policy, completed, successes)

ProbeReopens(policy, outcome, completed, successes) ==
  \/ outcome = Failure /\ policy.FailureAction = ReopenImmediately
  \/ /\ completed >= policy.MaxProbes
     /\ policy.SuccessRatio > 0 \/ policy.FailureAction = ReopenAfterSample
     /\ ~Recovered(policy, completed, successes)

ProbeCloses(policy, outcome, completed, successes) ==
  /\ ~ProbeReopens(policy, outcome, completed, successes)
  /\ Recovered(policy, completed, successes)

=============================================================================
