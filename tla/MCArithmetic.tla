---------------------------- MODULE MCArithmetic ----------------------------
(***************************************************************************)
(* The two places that convert between machine numbers, in one run: the    *)
(* open-interval schedule and the bucket identities.  They share nothing;  *)
(* a behaviour is of one of them, and the other keeps its zero values.     *)
(***************************************************************************)
EXTENDS MCSchedule, BucketID

VARIABLE part

ScheduleInit ==
  /\ part = "schedule"
  /\ Init
  /\ bucketDuration = 1 /\ bucketCount = 1
  /\ lastBucketID = ZeroID /\ initialized = FALSE /\ latest = 0

BucketsInit ==
  /\ part = "buckets"
  /\ BucketInit
  /\ converts = MinDuration /\ jitter = 0
  /\ policy = [Initial |-> 1, Multiplier |-> One, Maximum |-> 1]
  /\ openCount = 0 /\ scheduled = 0 /\ currentOpenDuration = 0

ScheduleNext == part = "schedule" /\ Next /\ UNCHANGED <<part, bucketVars>>
BucketsNext == part = "buckets" /\ BucketNext /\ UNCHANGED <<part, vars>>

ArithmeticSpec ==
  /\ ScheduleInit \/ BucketsInit
  /\ [][ScheduleNext \/ BucketsNext]_<<part, vars, bucketVars>>

=============================================================================
