------------------------------ MODULE BucketID ------------------------------
(***************************************************************************)
(* The bucket identities of the time window (window/time.go) as the code   *)
(* computes them: sign and magnitude in two machine words, a fast path     *)
(* where the timestamp fits a signed word of nanoseconds and a wide path   *)
(* by hand elsewhere.  TimeWindow uses the integer these words stand for;  *)
(* the properties here say that it may.                                    *)
(*                                                                         *)
(* Words have WordBits bits and a second NanosecondsPerSecond nanoseconds, *)
(* so that every timestamp the types admit can be tried.  math/bits is     *)
(* external: full-width product, sum with carry, difference with borrow,   *)
(* and division of two words by one.                                       *)
(***************************************************************************)
EXTENDS Words

CONSTANTS WordBits, NanosecondsPerSecond

ASSUME BucketIDAssumption ==
  /\ WordBits \in Nat /\ WordBits > 1
  /\ NanosecondsPerSecond \in 1..(Power[WordBits - 1] - 1)

Base == Power[WordBits]
MinInt == -Power[WordBits - 1]
MaxInt == Power[WordBits - 1] - 1

\* Conversions, which keep the bits.
Uint(x) == x % Base
Signed(x) == ((x - MinInt) % Base) + MinInt

\* What time.Time's Unix and Nanosecond return.
Timestamp == [seconds : MinInt..MaxInt, nanoseconds : 0..(NanosecondsPerSecond - 1)]

ID == [negative : BOOLEAN, high : 0..(Base - 1), low : 0..(Base - 1)]

\* Go's division of signed integers, which truncates towards zero.
Quo(x, y) == IF x < 0 THEN -((-x) \div y) ELSE x \div y
Rem(x, y) == x - Quo(x, y) * y

-----------------------------------------------------------------------------
(* math/bits on pairs [high, low] *)

Mul64(x, y) == [high |-> (x * y) \div Base, low |-> (x * y) % Base]
Div64(high, low, y) ==
  [quotient |-> (high * Base + low) \div y, remainder |-> (high * Base + low) % y]

Add128(w, value) ==
  [high |-> Uint(w.high + (w.low + value) \div Base), low |-> Uint(w.low + value)]

Subtract128(w, value) ==
  [high |-> Uint(w.high - (IF w.low < value THEN 1 ELSE 0)), low |-> Uint(w.low - value)]

-----------------------------------------------------------------------------
(* From a timestamp to its bucket *)

MinimumSecond == MinInt \div NanosecondsPerSecond
MinimumNanosecond == MinInt % NanosecondsPerSecond
MaximumSecond == MaxInt \div NanosecondsPerSecond
MaximumNanosecond == MaxInt % NanosecondsPerSecond

\* Whether UnixNano is exact at this timestamp.
ExactUnixNanoseconds(at) ==
  /\ at.seconds \in MinimumSecond..MaximumSecond
  /\ at.seconds = MinimumSecond => at.nanoseconds >= MinimumNanosecond
  /\ at.seconds = MaximumSecond => at.nanoseconds <= MaximumNanosecond

\* The two seconds at the ends are counted from the ends: their product with
\* NanosecondsPerSecond does not fit.
UnixNanoseconds(at) ==
  IF at.seconds = MinimumSecond THEN MinInt + (at.nanoseconds - MinimumNanosecond)
  ELSE IF at.seconds = MaximumSecond THEN MaxInt - (MaximumNanosecond - at.nanoseconds)
  ELSE Signed(Signed(at.seconds * NanosecondsPerSecond) + at.nanoseconds)

BucketIDFromInt64(value) ==
  IF value >= 0 THEN [negative |-> FALSE, high |-> 0, low |-> Uint(value)]
  ELSE [negative |-> TRUE, high |-> 0, low |-> Uint(Uint(-(value + 1)) + 1)]

NarrowBucketIDAt(at, duration) ==
  LET nanoseconds == UnixNanoseconds(at)
      bucket == Quo(nanoseconds, duration)
  IN BucketIDFromInt64(IF nanoseconds < 0 /\ Rem(nanoseconds, duration) # 0
                       THEN Signed(bucket - 1) ELSE bucket)

\* A bug that truncates the buckets before the epoch on the wide path.
WideBucketIDAtTruncates(at, duration) ==
  LET negative == at.seconds < 0
      seconds == IF negative THEN Uint(Uint(-(at.seconds + 1)) + 1) ELSE Uint(at.seconds)
      product == Mul64(seconds, NanosecondsPerSecond)
      total == IF negative THEN Subtract128(product, at.nanoseconds)
               ELSE Add128(product, at.nanoseconds)
      division == Div64(total.high % duration, total.low, duration)
  IN [negative |-> negative, high |-> total.high \div duration, low |-> division.quotient]

WideBucketIDAt(at, duration) ==
  LET negative == at.seconds < 0
      seconds == IF negative THEN Uint(Uint(-(at.seconds + 1)) + 1) ELSE Uint(at.seconds)
      product == Mul64(seconds, NanosecondsPerSecond)
      total == IF negative THEN Subtract128(product, at.nanoseconds)
               ELSE Add128(product, at.nanoseconds)
      division == Div64(total.high % duration, total.low, duration)
      quotient == [high |-> total.high \div duration, low |-> division.quotient]
      floor == IF negative /\ division.remainder # 0 THEN Add128(quotient, 1) ELSE quotient
  IN [negative |-> negative, high |-> floor.high, low |-> floor.low]

BucketIDAt(at, duration) ==
  IF ExactUnixNanoseconds(at) THEN NarrowBucketIDAt(at, duration)
  ELSE WideBucketIDAt(at, duration)

-----------------------------------------------------------------------------
(* What the window does with identities *)

CompareMagnitude(left, right) ==
  IF left.high < right.high \/ (left.high = right.high /\ left.low < right.low) THEN -1
  ELSE IF left.high > right.high \/ (left.high = right.high /\ left.low > right.low) THEN 1
  ELSE 0

\* A bug that orders identities before the epoch by their distance from it.
CompareUnsigned(id, other) ==
  IF id.negative # other.negative THEN (IF id.negative THEN -1 ELSE 1)
  ELSE CompareMagnitude(id, other)

Compare(id, other) ==
  IF id.negative # other.negative THEN (IF id.negative THEN -1 ELSE 1)
  ELSE IF id.negative THEN -CompareMagnitude(id, other) ELSE CompareMagnitude(id, other)

Subtract(id, value) ==
  IF id.negative
  THEN LET sum == Add128(id, value)
       IN [negative |-> TRUE, high |-> sum.high, low |-> sum.low]
  ELSE IF id.high = 0 /\ id.low < value
  THEN [negative |-> TRUE, high |-> 0, low |-> value - id.low]
  ELSE LET difference == Subtract128(id, value)
       IN [negative |-> FALSE, high |-> difference.high, low |-> difference.low]

Index(id, count) ==
  LET remainder == Div64(id.high % count, id.low, count).remainder
  IN IF id.negative /\ remainder # 0 THEN count - remainder ELSE remainder

-----------------------------------------------------------------------------
(* The progress of one window *)

VARIABLES
  bucketDuration, bucketCount,     \* chosen by NewTime
  lastBucketID, initialized,
  latest                           \* history: the latest instant observed, as an integer

bucketVars == <<bucketDuration, bucketCount, lastBucketID, initialized, latest>>

ZeroID == [negative |-> FALSE, high |-> 0, low |-> 0]

\* The integer a timestamp stands for: nanoseconds since the epoch.
Instant(at) == at.seconds * NanosecondsPerSecond + at.nanoseconds

\* NewTime: both are positive, and the whole interval fits a time.Duration.
BucketInit ==
  /\ bucketDuration \in 1..MaxInt /\ bucketCount \in 1..MaxInt
  /\ bucketDuration <= MaxInt \div bucketCount
  /\ lastBucketID = ZeroID /\ initialized = FALSE
  /\ latest = 0

\* observe, which Add and Snapshot both begin with.
Observe(at) ==
  LET id == BucketIDAt(at, bucketDuration)
  IN /\ lastBucketID' = IF ~initialized \/ Compare(id, lastBucketID) = 1
                        THEN id ELSE lastBucketID
     /\ initialized' = TRUE
     /\ latest' = IF initialized /\ latest > Instant(at) THEN latest ELSE Instant(at)
     /\ UNCHANGED <<bucketDuration, bucketCount>>

BucketNext == \E at \in Timestamp : Observe(at)

BucketSpec == BucketInit /\ [][BucketNext]_bucketVars

-----------------------------------------------------------------------------
(* Properties *)

\* The integer an identity stands for, and the floor it should be.
Value(id) == (IF id.negative THEN -1 ELSE 1) * (id.high * Base + id.low)
Floor(at) == Instant(at) \div bucketDuration

(***************************************************************************)
(* bucketIDAt is the mathematical floor at every timestamp, on both paths, *)
(* with carries and borrows, before and after the epoch and at both ends   *)
(* of the exact range.                                                     *)
(***************************************************************************)
FloorExact == \A at \in Timestamp : Value(BucketIDAt(at, bucketDuration)) = Floor(at)

(***************************************************************************)
(* Add compares identities with ==, observe and Snapshot with compare:     *)
(* both agree with the integers, so one bucket has one representation,     *)
(* whichever path computed it, and there is no second zero.                *)
(***************************************************************************)
OrderExact ==
  initialized =>
    \A at \in Timestamp, other \in {lastBucketID, Subtract(lastBucketID, bucketCount - 1)} :
      LET id == BucketIDAt(at, bucketDuration)
      IN /\ (id = other) <=> Floor(at) = Value(other)
         /\ (Compare(id, other) = 1) <=> Floor(at) > Value(other)
         /\ (Compare(id, other) = -1) <=> Floor(at) < Value(other)

(***************************************************************************)
(* The live range of a Snapshot and the ring: the oldest identity is       *)
(* bucketCount - 1 before the latest, across zero and across words, and    *)
(* the buckets in that range have slots of their own.                      *)
(***************************************************************************)
RingExact ==
  LET oldest == Value(Subtract(lastBucketID, bucketCount - 1))
      live == {id \in {BucketIDAt(at, bucketDuration) : at \in Timestamp} :
                 Value(id) \in oldest..Value(lastBucketID)}
  IN /\ oldest = Value(lastBucketID) - (bucketCount - 1)
     /\ \A id \in live : Index(id, bucketCount) \in 0..(bucketCount - 1)
     /\ \A id, other \in live : Index(id, bucketCount) = Index(other, bucketCount) => id = other

(***************************************************************************)
(* Progress follows the latest instant that Add or Snapshot was ever given *)
(* and never goes back, also when the first instant lies before the epoch. *)
(***************************************************************************)
ProgressExact == initialized => Value(lastBucketID) = latest \div bucketDuration

\* Identities order, index and progress like the integers they stand for.
IdentitiesExact == OrderExact /\ RingExact /\ ProgressExact

=============================================================================
