------------------------------ MODULE Schedule ------------------------------
(***************************************************************************)
(* The open-interval schedule in the arithmetic of the code: durations are *)
(* signed machine words, products are floating-point numbers, and          *)
(* openDurationLocked and jitterDuration (breaker.go) convert between the  *)
(* two.  Policy has the same schedule on exact percentages; here are the   *)
(* roundings, the truncation and the conversions out of range.             *)
(*                                                                         *)
(* A duration has DurationBits bits with its sign and a float a mantissa   *)
(* of MantissaBits (64 and 53 in Go).  Floats are integers of sixteenths:  *)
(* multipliers, and 1 - jitter * sample with jitter and sample such that   *)
(* the product is a whole number of sixteenths, which is exact.            *)
(***************************************************************************)
EXTENDS Words, FiniteSetsExt

CONSTANTS
  DurationBits, MantissaBits,
  Durations,     \* lengths a policy may have
  Multipliers,   \* in sixteenths
  Jitters,       \* in sixteenths
  MaxOpenings    \* bound on openCount

MaxDuration == Power[DurationBits - 1] - 1
MinDuration == -Power[DurationBits - 1]
One == 16

ASSUME ScheduleAssumption ==
  /\ DurationBits \in Nat \ {0} /\ MantissaBits \in 4..DurationBits
  /\ Durations \subseteq 1..MaxDuration
  /\ Multipliers \subseteq {m \in Nat : m >= One}
  /\ Jitters \subseteq 0..(One - 1)
  /\ MaxOpenings \in Nat

-----------------------------------------------------------------------------
(* Floating point, which is external *)

\* What the last bit of a mantissa may count, up to past every product.
Units == {Power[e] : e \in 0..(2 * DurationBits)}
LargestUnit == Power[2 * DurationBits]
Mantissas == Power[MantissaBits]

\* Round to MantissaBits significant bits, to nearest, ties to even.
Round(n) ==
  LET unit == Min({u \in Units : n < Mantissas * u} \cup {LargestUnit})
      q == n \div unit
      r == n % unit
  IN unit * (IF 2 * r > unit \/ (2 * r = unit /\ q % 2 = 1) THEN q + 1 ELSE q)

\* float64(duration) * factor
Product(duration, factor) == Round(Round(duration) * factor)

VARIABLES
  converts,               \* what a conversion out of range gives, by platform
  policy, jitter,         \* of the configuration
  openCount,
  scheduled,              \* the interval before jitter
  currentOpenDuration

vars == <<converts, policy, jitter, openCount, scheduled, currentOpenDuration>>

\* time.Duration(x): truncation; Go leaves an out-of-range result to the
\* platform (the smallest integer on amd64, the largest on arm64).
ToDuration(x) == IF x \div One > MaxDuration THEN converts ELSE x \div One

-----------------------------------------------------------------------------
Policies ==
  {p \in [Initial : Durations, Multiplier : Multipliers, Maximum : Durations] :
     p.Initial <= p.Maximum}

Init ==
  /\ converts \in {MinDuration, MaxDuration}
  /\ policy \in Policies /\ jitter \in Jitters
  /\ openCount = 0 /\ scheduled = 0 /\ currentOpenDuration = 0

\* A bug that does not notice a product that failed to grow.
ScheduledUnchecked(count) ==
  LET duration[k \in 1..MaxOpenings] ==
        IF k = 1 \/ policy.Multiplier = One THEN policy.Initial
        ELSE Min({ToDuration(Product(duration[k - 1], policy.Multiplier)), policy.Maximum})
  IN duration[count]

\* The loop of openDurationLocked: once at Maximum it returns.
Scheduled(count) ==
  LET duration[k \in 1..MaxOpenings] ==
        IF k = 1 \/ policy.Multiplier = One THEN policy.Initial
        ELSE LET previous == duration[k - 1]
                 next == ToDuration(Product(previous, policy.Multiplier))
             IN IF previous = policy.Maximum \/ next <= previous THEN policy.Maximum
                ELSE Min({next, policy.Maximum})
  IN duration[count]

\* jitterDuration, where jitter * sample is a number of sixteenths.
JitterDuration(duration, sixteenths) ==
  LET jittered == ToDuration(Product(duration, One - sixteenths))
  IN IF jitter = 0 THEN duration ELSE IF jittered <= 0 THEN 1 ELSE jittered

\* openLocked, with a sample that shortens by so many sixteenths: from none,
\* which every sample safeRandomSample replaces stands for, to jitter, which a
\* sample just below one is rounded to.
Open(sixteenths) ==
  /\ openCount < MaxOpenings
  /\ openCount' = openCount + 1
  /\ scheduled' = Scheduled(openCount + 1)
  /\ currentOpenDuration' = JitterDuration(Scheduled(openCount + 1), sixteenths)
  /\ UNCHANGED <<converts, policy, jitter>>

\* closeLocked and Reset.
Close ==
  /\ openCount > 0
  /\ openCount' = 0 /\ scheduled' = 0 /\ currentOpenDuration' = 0
  /\ UNCHANGED <<converts, policy, jitter>>

Next == Close \/ \E sixteenths \in 0..jitter : Open(sixteenths)

Spec == Init /\ [][Next]_vars

-----------------------------------------------------------------------------
(* Properties *)

(***************************************************************************)
(* Consecutive openings never wait less than the one before, before        *)
(* jitter: each interval is longer than the last until the cap is reached, *)
(* through rounding, truncation and products that no duration can hold,    *)
(* and the cap is never left or exceeded.                                  *)
(***************************************************************************)
ScheduleGrows ==
  [][openCount' = openCount + 1 =>
       /\ scheduled' \in policy.Initial..policy.Maximum
       /\ openCount > 0 /\ policy.Multiplier > One =>
            scheduled' > scheduled \/ scheduled' = policy.Maximum]_vars

(***************************************************************************)
(* docs/policies.md: "Jitter only shortens the selected open interval and  *)
(* never exceeds the configured schedule."                                 *)
(***************************************************************************)
JitterOnlyShortens == openCount > 0 => currentOpenDuration <= scheduled

=============================================================================
