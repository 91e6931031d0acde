--------------------------- MODULE BreakerProofs ---------------------------
(***************************************************************************)
(* Theorems about Breaker for every value of its constants.                *)
(*                                                                         *)
(* After the types comes the half-open sample: probes are accounted for,   *)
(* the quota holds, a sample can always be decided and no parked caller    *)
(* misses its wake-up.  None of these is inductive alone; together with    *)
(* the epoch invariant they are.                                           *)
(*                                                                         *)
(* Then what operations may do to each other: generations fence state,     *)
(* mode and open timing, a stale permit touches no health state, a closed  *)
(* breaker holds no evidence that should have opened it, and the lifetime  *)
(* counters count.                                                         *)
(***************************************************************************)
EXTENDS Breaker, Induction

-----------------------------------------------------------------------------
(* The open-interval schedule *)

\* What the loop of openDurationLocked makes of the interval before.
NextDuration(policy, previous) ==
  LET next == (previous * policy.Multiplier) \div 100
  IN IF policy.Multiplier = 100 THEN policy.Initial
     ELSE IF next <= previous \/ next > policy.Maximum THEN policy.Maximum ELSE next

\* The recursion of ScheduledDuration, unfolded once.
LEMMA ScheduleIs ==
  ASSUME NEW policy, ValidOpenDuration(policy)
  PROVE  /\ ScheduledDuration(policy, 1) = policy.Initial
         /\ \A n \in Nat : n > 0 =>
              ScheduledDuration(policy, n + 1) =
                NextDuration(policy, ScheduledDuration(policy, n))
<1> DEFINE Loop(g) ==
             [k \in Nat |->
                IF k <= 1 \/ policy.Multiplier = 100 THEN policy.Initial
                ELSE LET previous == g[k - 1]
                         next == (previous * policy.Multiplier) \div 100
                     IN IF next <= previous \/ next > policy.Maximum
                        THEN policy.Maximum ELSE next]
           Step == [k \in Nat |-> [d \in Int |->
                      IF k = 0 THEN policy.Initial ELSE NextDuration(policy, d)]]
           F == CHOOSE f : f = Loop(f)
<1>1. policy.Initial \in Int /\ policy.Multiplier \in Int /\ policy.Maximum \in Int
  BY DEF ValidOpenDuration, OpenDurationPolicies
<1>2. \A d \in Int : NextDuration(policy, d) \in Int
  BY <1>1 DEF NextDuration
<1>3. PICK g : Iterates(g, Int, policy.Initial, Step)
  <2>1. Step \in [Nat -> [Int -> Int]]
    BY <1>1, <1>2
  <2> HIDE DEF Step
  <2> QED BY <1>1, <2>1, Iteration
<1>4. /\ g \in [Nat -> Int] /\ g[0] = policy.Initial
      /\ \A k \in Nat : g[k + 1] = Step[k][g[k]]
  <2> HIDE DEF Step
  <2> QED BY <1>3 DEF Iterates
<1>5. g = Loop(g)
  <2>1. ASSUME NEW k \in Nat PROVE g[k] = Loop(g)[k]
    <3>1. CASE k = 0
      BY <3>1, <1>4
    <3>2. CASE k = 1
      <4>1. g[0 + 1] = Step[0][g[0]] /\ g[0] \in Int
        BY <1>4
      <4>2. g[1] = policy.Initial
        BY <4>1
      <4> QED BY <3>2, <4>2
    <3>3. CASE k > 1
      <4>1. k - 1 \in Nat /\ k - 1 # 0 /\ (k - 1) + 1 = k /\ g[k - 1] \in Int
        BY <3>3, <1>4
      <4>2. g[k] = Step[k - 1][g[k - 1]]
        <5>1. g[(k - 1) + 1] = Step[k - 1][g[k - 1]]
          BY <4>1, <1>4
        <5> QED BY <5>1, <4>1
      <4>3. g[k] = NextDuration(policy, g[k - 1])
        BY <4>1, <4>2
      <4> QED BY <3>3, <4>3 DEF NextDuration
    <3> QED BY <3>1, <3>2, <3>3
  <2> QED BY <2>1, <1>4
<1>6. F = Loop(F)
  <2> HIDE DEF Loop
  <2> QED BY <1>5, Zenon
<1>7. \A n : ScheduledDuration(policy, n) = F[n]
  BY DEF ScheduledDuration
<1> HIDE DEF F
<1>8. F[1] = policy.Initial
  BY <1>6
<1>9. ASSUME NEW n \in Nat, n > 0 PROVE F[n + 1] = NextDuration(policy, F[n])
  <2>1. n + 1 \in Nat /\ ~(n + 1 <= 1) /\ (n + 1) - 1 = n
    BY <1>9
  <2>2. F[n + 1] = Loop(F)[n + 1]
    BY <1>6, Zenon
  <2> QED BY <2>1, <2>2 DEF NextDuration
<1> QED BY <1>7, <1>8, <1>9

\* Every interval lies between Initial and Maximum, and none is shorter than
\* the one before it.
THEOREM ScheduleBounds ==
  ASSUME NEW policy, ValidOpenDuration(policy), NEW n \in Nat \ {0}
  PROVE  /\ ScheduledDuration(policy, n) \in policy.Initial..policy.Maximum
         /\ ScheduledDuration(policy, n) <= ScheduledDuration(policy, n + 1)
<1> DEFINE D(k) == ScheduledDuration(policy, k)
           Fixed == policy.Multiplier = 100
           Good == {k \in Nat : k > 0 => /\ D(k) \in policy.Initial..policy.Maximum
                                         /\ Fixed => D(k) = policy.Initial}
<1>1. /\ policy.Initial \in Nat /\ policy.Multiplier \in Nat /\ policy.Maximum \in Nat
      /\ policy.Initial <= policy.Maximum
  BY DEF ValidOpenDuration, OpenDurationPolicies
<1>2. D(1) = policy.Initial /\ \A k \in Nat : k > 0 => D(k + 1) = NextDuration(policy, D(k))
  BY ScheduleIs
<1> HIDE DEF D
<1>3. ASSUME NEW d \in policy.Initial..policy.Maximum, Fixed => d = policy.Initial
      PROVE  /\ NextDuration(policy, d) \in policy.Initial..policy.Maximum
             /\ Fixed => NextDuration(policy, d) = policy.Initial
             /\ d <= NextDuration(policy, d)
  <2> DEFINE next == (d * policy.Multiplier) \div 100
  <2>1. next \in Int
    BY <1>1
  <2>2. NextDuration(policy, d) =
          IF Fixed THEN policy.Initial
          ELSE IF next <= d \/ next > policy.Maximum THEN policy.Maximum ELSE next
    BY DEF NextDuration
  <2> HIDE DEF next, Fixed
  <2> QED BY <2>1, <2>2, <1>1, <1>3
<1>4. \A k \in Nat : k \in Good
  <2>1. 0 \in Good
    OBVIOUS
  <2>2. ASSUME NEW k \in Good PROVE k + 1 \in Good
    <3>1. CASE k = 0
      BY <3>1, <1>1, <1>2
    <3>2. CASE k > 0
      BY <3>2, <1>2, <1>3
    <3> QED BY <3>1, <3>2
  <2>3. Good \in SUBSET Nat
    OBVIOUS
  <2> HIDE DEF Good
  <2> QED BY <2>1, <2>2, <2>3, SetInduction
<1>5. D(n) \in policy.Initial..policy.Maximum /\ (Fixed => D(n) = policy.Initial)
  BY <1>4
<1>6. D(n + 1) = NextDuration(policy, D(n))
  BY <1>2
<1> QED BY <1>3, <1>5, <1>6 DEF D

\* Jitter as Policy has it, on exact percentages, shortens an interval and never
\* to nothing.  What float64 makes of that is in ArithmeticProofs.
LEMMA JitterShortens ==
  ASSUME NEW d \in Nat \ {0}, NEW j \in 0..99, NEW s \in 0..99
  PROVE  JitterDuration(d, j, s) \in 1..d
<1> DEFINE p == j * s
           f == 10000 - p
           m == d * f
<1>1. p \in Nat /\ p <= 9801
  <2>1. j * s \in Nat /\ j * s <= 99 * 99
    BY SMTT(30)
  <2> QED BY <2>1
<1> HIDE DEF p
<1>2. f \in 1..10000
  BY <1>1
<1> HIDE DEF f
<1>3. m \in Nat /\ m <= d * 10000
  BY <1>2
<1>4. JitterDuration(d, j, s) =
        IF j = 0 THEN d ELSE IF m \div 10000 <= 0 THEN 1 ELSE m \div 10000
  BY DEF JitterDuration, m, f, p
<1> HIDE DEF m
<1>5. m \div 10000 <= d /\ m \div 10000 \in Int
  BY <1>3
<1> QED BY <1>4, <1>5

\* So the durations the model chooses from are positive numbers up to the cap.
LEMMA IntervalsBounded ==
  ASSUME NEW n \in Nat \ {0}
  PROVE  OpenDurations(n) \subseteq 1..OpenDuration.Maximum
<1>1. SUFFICES ASSUME NEW s \in JitterSamples
               PROVE  JitterDuration(ScheduledDuration(OpenDuration, n), Jitter, s)
                        \in 1..OpenDuration.Maximum
  BY DEF OpenDurations
<1> DEFINE d == ScheduledDuration(OpenDuration, n)
<1>2. d \in OpenDuration.Initial..OpenDuration.Maximum
  BY ScheduleBounds, BreakerAssumption
<1>3. OpenDuration.Initial \in Nat \ {0} /\ OpenDuration.Maximum \in Nat
  BY BreakerAssumption DEF ValidOpenDuration, OpenDurationPolicies
<1> HIDE DEF d
<1>4. JitterDuration(d, Jitter, s) \in 1..d
  <2>1. d \in Nat \ {0} /\ Jitter \in 0..99 /\ s \in 0..99
    BY <1>2, <1>3, BreakerAssumption
  <2> QED BY <2>1, JitterShortens
<1>5. JitterDuration(d, Jitter, s) \in 1..OpenDuration.Maximum
  BY <1>2, <1>3, <1>4
<1> QED BY <1>5 DEF d

-----------------------------------------------------------------------------
(* Windows *)

\* Snapshot.add and Snapshot.remove keep the aggregate an aggregate.
LEMMA AggregateType ==
  ASSUME NEW s \in Aggregate, NEW r \in Record
  PROVE  SnapshotAdd(s, r) \in Aggregate /\ SnapshotRemove(s, r) \in Aggregate
<1>1. \A c : One(c) \in Int
  BY DEF One
<1>2. SnapshotAdd(s, r) \in Aggregate
  BY <1>1 DEF Aggregate, SnapshotAdd
<1>3. SnapshotRemove(s, r) \in Aggregate
  BY <1>1 DEF Aggregate, SnapshotRemove
<1> QED BY <1>2, <1>3

\* NewCount and Count.Add stay within the ring.
LEMMA CountWindowType ==
  ASSUME NEW size \in Nat \ {0}
  PROVE  /\ NewCount(size) \in CountWindows(size)
         /\ \A w \in CountWindows(size), r \in Record : CountAdd(w, size, r) \in CountWindows(size)
<1>1. NewCount(size) \in CountWindows(size)
  BY DEF NewCount, CountWindows, EmptySnapshot, Aggregate, ZeroRecord, Record, Class
<1>2. ASSUME NEW w \in CountWindows(size), NEW r \in Record
      PROVE  CountAdd(w, size, r) \in CountWindows(size)
  <2>1. /\ w.records \in [0..(size - 1) -> Record] /\ w.next \in 0..(size - 1)
        /\ w.length \in 0..size /\ w.snapshot \in Aggregate
    BY DEF CountWindows
  <2>2. SnapshotAdd(w.snapshot, r) \in Aggregate
    BY <2>1, AggregateType
  <2>3. SnapshotAdd(SnapshotRemove(w.snapshot, w.records[w.next]), r) \in Aggregate
    BY <2>1, AggregateType
  <2>4. (w.next + 1) % size \in 0..(size - 1)
    BY <2>1
  <2>5. CASE r.Class = Ignored
    BY <2>2, <2>5 DEF CountAdd, CountWindows
  <2>6. CASE r.Class # Ignored
    <3> DEFINE full == w.length = size
               kept == IF full THEN SnapshotRemove(w.snapshot, w.records[w.next]) ELSE w.snapshot
               length == IF full THEN w.length ELSE w.length + 1
    <3>1. SnapshotAdd(kept, r) \in Aggregate
      BY <2>2, <2>3
    <3>2. length \in 0..size
      BY <2>1
    <3>3. [w.records EXCEPT ![w.next] = r] \in [0..(size - 1) -> Record]
      BY <2>1
    <3>4. CountAdd(w, size, r) =
            [records |-> [w.records EXCEPT ![w.next] = r], next |-> (w.next + 1) % size,
             length |-> length, snapshot |-> SnapshotAdd(kept, r)]
      BY <2>6 DEF CountAdd
    <3> HIDE DEF kept, length
    <3> QED BY <2>4, <3>1, <3>2, <3>3, <3>4 DEF CountWindows
  <2> QED BY <2>5, <2>6
<1> QED BY <1>1, <1>2

\* Time.observe and Time.Add stay within the bucket ring.
LEMMA TimeWindowType ==
  ASSUME NEW count \in Nat \ {0}, NEW duration \in Nat \ {0}
  PROVE  /\ NewTime(count) \in TimeWindows(count)
         /\ \A w \in TimeWindows(count), at \in Int :
              TimeObserve(w, duration, at) \in TimeWindows(count)
         /\ \A w \in TimeWindows(count), at \in Int, r \in Record :
              TimeAdd(w, count, duration, at, r) \in TimeWindows(count)
<1> DEFINE Bucket == [id : Int, occupied : BOOLEAN, snapshot : Aggregate]
<1>1. EmptySnapshot \in Aggregate
  BY DEF EmptySnapshot, Aggregate
<1>2. NewTime(count) \in TimeWindows(count)
  BY <1>1 DEF NewTime, TimeWindows
<1>3. ASSUME NEW w \in TimeWindows(count), NEW at \in Int
      PROVE  TimeObserve(w, duration, at) \in TimeWindows(count)
  <2>1. at \div duration \in Int
    OBVIOUS
  <2>2. w = [buckets |-> w.buckets, lastBucketID |-> w.lastBucketID, initialized |-> w.initialized]
        /\ w.buckets \in [0..(count - 1) -> Bucket] /\ w.lastBucketID \in Int
    BY DEF TimeWindows
  <2> QED BY <2>1, <2>2 DEF TimeObserve, TimeWindows, BucketIDAt
<1>4. ASSUME NEW w \in TimeWindows(count), NEW at \in Int, NEW r \in Record
      PROVE  TimeAdd(w, count, duration, at, r) \in TimeWindows(count)
  <2> DEFINE observed == TimeObserve(w, duration, at)
             id == observed.lastBucketID
             old == observed.buckets[id % count]
             new == [id |-> id, occupied |-> TRUE,
                     snapshot |-> SnapshotAdd(IF old.occupied /\ old.id = id
                                              THEN old.snapshot ELSE EmptySnapshot, r)]
  <2>1. observed \in TimeWindows(count)
    BY <1>3
  <2> HIDE DEF observed
  <2>2. id \in Int /\ observed.buckets \in [0..(count - 1) -> Bucket]
    BY <2>1 DEF TimeWindows
  <2>3. id % count \in 0..(count - 1)
    BY <2>2
  <2>4. old \in Bucket
    BY <2>2, <2>3
  <2>5. new \in Bucket
    <3>1. (IF old.occupied /\ old.id = id THEN old.snapshot ELSE EmptySnapshot) \in Aggregate
      BY <2>4, <1>1
    <3> QED BY <3>1, <2>2, AggregateType
  <2>6. TimeAdd(w, count, duration, at, r) = [observed EXCEPT !.buckets[id % count] = new]
    BY DEF TimeAdd, Index, observed
  <2> HIDE DEF new, id
  <2>7. [observed EXCEPT !.buckets[id % count] = new] \in TimeWindows(count)
    BY <2>1, <2>2, <2>3, <2>5 DEF TimeWindows
  <2> QED BY <2>6, <2>7
<1> QED BY <1>2, <1>3, <1>4

\* The breaker's window keeps its type whichever kind is configured.
LEMMA RollingWindowType ==
  /\ NewRollingWindow \in RollingWindows
  /\ \A w \in RollingWindows, now \in Nat : WindowObserve(w, now) \in RollingWindows
  /\ \A w \in RollingWindows, now \in Nat, r \in Record : WindowAdd(w, now, r) \in RollingWindows
  /\ \A now \in Nat : FreshWindow(now) \in RollingWindows
<1> USE WindowAssumption
<1>1. CASE TimeWindowed
  BY <1>1, TimeWindowType DEF NewRollingWindow, RollingWindows, WindowObserve, WindowAdd, FreshWindow
<1>2. CASE ~TimeWindowed
  BY <1>2, CountWindowType DEF NewRollingWindow, RollingWindows, WindowObserve, WindowAdd, FreshWindow
<1> QED BY <1>1, <1>2

-----------------------------------------------------------------------------
(* Types *)

\* Needed beside TypeOK: the size of halfOpenPermits is a number.
FiniteProbes == IsFiniteSet(probe.permits)

CallerType == [Caller -> [pc : {"idle", "parked", "woken"}, deadline : Nat]]
ProbeType == [active : Int, completed : Nat, successes : Nat, permits : SUBSET Permit]

\* signalLocked, and a caller leaving or parking, keep the callers' type.
LEMMA CallersType ==
  ASSUME NEW callers \in CallerType
  PROVE  /\ Signal(callers) \in CallerType
         /\ \A c \in Caller : [callers EXCEPT ![c] = Idle] \in CallerType
BY DEF CallerType, Signal, Idle, ZeroTime

\* expireHalfOpenLocked and releaseHalfOpenLocked keep their variables' types.
LEMMA ReleaseType ==
  ASSUME TypeOK, FiniteProbes, NEW S
  PROVE  /\ IsFiniteSet(Released(S))
         /\ IsFiniteSet(probe.permits \ Released(S))
         /\ ProbeAfterRelease(S) \in ProbeType
         /\ IsFiniteSet(ProbeAfterRelease(S).permits)
         /\ CallerAfterRelease(S) \in CallerType
         /\ PermitAfterExpiry(S) \in [Permit -> PermitRecord]
<1>1. Released(S) \in SUBSET probe.permits
  BY DEF Released
<1>2. IsFiniteSet(Released(S)) /\ Cardinality(Released(S)) \in Nat
  BY <1>1, FS_Subset, FS_CardinalityType DEF FiniteProbes
<1>3. IsFiniteSet(probe.permits \ Released(S))
  BY FS_Subset DEF FiniteProbes
<1>4. ProbeAfterRelease(S) \in ProbeType
  BY <1>2 DEF ProbeAfterRelease, ProbeType, TypeOK
<1>5. ProbeAfterRelease(S).permits = probe.permits \ Released(S)
  BY DEF ProbeAfterRelease
<1>6. CallerAfterRelease(S) \in CallerType
  BY CallersType DEF CallerAfterRelease, TypeOK, CallerType
<1>7. PermitAfterExpiry(S) \in [Permit -> PermitRecord]
  <2>1. \A p \in Permit : [permit[p] EXCEPT !.status = "expired"] \in PermitRecord
    BY DEF TypeOK, PermitRecord, Status
  <2> QED BY <2>1 DEF TypeOK, PermitAfterExpiry
<1> QED BY <1>2, <1>3, <1>4, <1>5, <1>6, <1>7

\* transitionLocked into open or closed keeps every type it touches.
LEMMA TransitionType ==
  ASSUME TypeOK, NEW s \in State, TransitionLocked(s)
  PROVE  /\ state' \in State /\ generation' \in Nat \ {0}
         /\ probe' \in ProbeType /\ IsFiniteSet(probe'.permits)
         /\ caller' \in CallerType
<1>1. probe' \in ProbeType /\ probe'.permits = {}
  BY DEF TransitionLocked, NoProbes, ProbeType
<1>2. caller' \in CallerType
  BY CallersType DEF TransitionLocked, TypeOK, CallerType
<1>3. state' \in State /\ generation' \in Nat \ {0}
  BY DEF TransitionLocked, NewGeneration, TypeOK
<1> QED BY <1>1, <1>2, <1>3, FS_EmptySet

\* openLocked chooses a duration of the schedule.
LEMMA OpenType ==
  ASSUME TypeOK, NEW now \in Time, OpenLocked(now)
  PROVE  schedule' \in [openCount : Nat, duration : Nat, nextProbeAt : Nat]
<1>1. PICK d \in OpenDurations(schedule.openCount + 1) :
        schedule' = [openCount |-> schedule.openCount + 1, duration |-> d, nextProbeAt |-> now + d]
  BY DEF OpenLocked
<1>2. schedule.openCount + 1 \in Nat \ {0}
  BY DEF TypeOK
<1>3. d \in Nat
  <2>1. d \in 1..OpenDuration.Maximum
    BY <1>1, <1>2, IntervalsBounded
  <2> QED BY <2>1
<1> QED BY <1>1, <1>2, <1>3, BreakerAssumption DEF TypeOK

\* One is a number whatever it counts.
LEMMA OneType == \A c : One(c) \in Nat
BY DEF One

\* A permit that becomes terminal is still a permit.
LEMMA StatusType ==
  ASSUME TypeOK, NEW p \in Permit, NEW s \in Status, SetStatus(p, s)
  PROVE  permit' \in [Permit -> PermitRecord]
BY DEF SetStatus, TypeOK, PermitRecord

\* A permit handed out is a permit, and it is counted.
LEMMA AdmitType ==
  ASSUME TypeOK, NEW p \in Permit, NEW permits \in [Permit -> PermitRecord],
         NEW g \in Nat, NEW s \in State, NEW now \in Time,
         NEW recording \in BOOLEAN, NEW execution \in BOOLEAN,
         Admit(p, permits, g, s, now, recording, execution)
  PROVE  permit' \in [Permit -> PermitRecord] /\ totals' \in [Counter -> Nat]
<1>1. now + PermitTTL \in Nat
  BY BreakerAssumption
<1>2. permit' \in [Permit -> PermitRecord]
  BY <1>1 DEF Admit, PermitRecord, Status
<1>3. totals' \in [Counter -> Nat]
  BY DEF Admit, TypeOK, Counter
<1> QED BY <1>2, <1>3

\* The other lifetime counters.
LEMMA TotalsType ==
  ASSUME TypeOK
  PROVE  /\ RejectLocked => totals' \in [Counter -> Nat]
         /\ \A outcome \in Class : RecordLifetime(outcome) => totals' \in [Counter -> Nat]
<1>1. ASSUME RejectLocked PROVE totals' \in [Counter -> Nat]
  BY <1>1 DEF RejectLocked, TypeOK, Counter
<1>2. ASSUME NEW outcome \in Class, RecordLifetime(outcome) PROVE totals' \in [Counter -> Nat]
  BY <1>2, OneType DEF RecordLifetime, TypeOK
<1> QED BY <1>1, <1>2

\* One step of any operation keeps every type.
LEMMA TypeStep ==
  ASSUME TypeOK, FiniteProbes, [Next]_vars
  PROVE  TypeOK' /\ FiniteProbes'
<1> USE DEF CallerType, ProbeType
<1>0. CASE UNCHANGED vars
  BY <1>0 DEF vars, health, TypeOK, FiniteProbes
<1>1. ASSUME NEW c \in Caller, NEW p \in Permit, NEW now \in Time, NEW execution \in BOOLEAN, AcquireDisabled(c, p, now, execution)
      PROVE  TypeOK' /\ FiniteProbes'
  <2>1. Admit(p, permit, generation, state, now, FALSE, execution)
    BY <1>1 DEF AcquireDisabled
  <2>2. permit' \in [Permit -> PermitRecord] /\ totals' \in [Counter -> Nat]
    <3>1. generation \in Nat /\ state \in State /\ permit \in [Permit -> PermitRecord]
      BY DEF TypeOK
    <3> QED BY <2>1, <3>1, AdmitType
  <2>3. caller' \in CallerType
    BY <1>1, CallersType DEF AcquireDisabled, Return, TypeOK
  <2> QED BY <1>1, <2>2, <2>3 DEF AcquireDisabled, health, TypeOK, FiniteProbes
<1>2. ASSUME NEW c \in Caller, NEW p \in Permit, NEW now \in Time, NEW execution \in BOOLEAN, AcquireClosed(c, p, now, execution)
      PROVE  TypeOK' /\ FiniteProbes'
  <2>1. Admit(p, permit, generation, state, now, TRUE, execution)
    BY <1>2 DEF AcquireClosed
  <2>2. permit' \in [Permit -> PermitRecord] /\ totals' \in [Counter -> Nat]
    <3>1. generation \in Nat /\ state \in State /\ permit \in [Permit -> PermitRecord]
      BY DEF TypeOK
    <3> QED BY <2>1, <3>1, AdmitType
  <2>3. caller' \in CallerType
    BY <1>2, CallersType DEF AcquireClosed, Return, TypeOK
  <2> QED BY <1>2, <2>2, <2>3 DEF AcquireClosed, health, TypeOK, FiniteProbes
<1>3. ASSUME NEW c \in Caller, NEW p \in Permit, NEW now \in Time, NEW execution \in BOOLEAN, AcquireFirstProbe(c, p, now, execution)
      PROVE  TypeOK' /\ FiniteProbes'
  <2>1. Admit(p, permit, generation + 1, StateHalfOpen, now, TRUE, execution)
    BY <1>3 DEF AcquireFirstProbe
  <2>2. permit' \in [Permit -> PermitRecord] /\ totals' \in [Counter -> Nat]
    <3>1. generation + 1 \in Nat /\ StateHalfOpen \in State /\ permit \in [Permit -> PermitRecord]
      BY DEF TypeOK, State
    <3> QED BY <2>1, <3>1, AdmitType
  <2>3. caller' \in CallerType
    BY <1>3, CallersType DEF AcquireFirstProbe, Return, TypeOK
  <2>4. probe' \in ProbeType /\ FiniteProbes'
    <3>1. probe' = [active |-> 1, completed |-> 0, successes |-> 0, permits |-> {p}]
      BY <1>3 DEF AcquireFirstProbe
    <3>2. IsFiniteSet({p})
      BY FS_Singleton
    <3> QED BY <3>1, <3>2 DEF FiniteProbes
  <2>5. /\ state' \in State /\ mode' \in Mode /\ generation' \in Nat \ {0}
        /\ window' \in RollingWindows
    BY <1>3, RollingWindowType, BreakerAssumption DEF AcquireFirstProbe, NewGeneration, TypeOK, State
  <2> QED BY <1>3, <2>2, <2>3, <2>4, <2>5 DEF AcquireFirstProbe, TypeOK
<1>4. ASSUME NEW c \in Caller, NEW p \in Permit, NEW now \in Time, NEW execution \in BOOLEAN, AcquireProbe(c, p, now, execution)
      PROVE  TypeOK' /\ FiniteProbes'
  <2> DEFINE after == ProbeAfterRelease(Due(now))
  <2>1. permit' \in [Permit -> PermitRecord] /\ totals' \in [Counter -> Nat]
    <3>1. Admit(p, PermitAfterExpiry(Due(now)), generation, state, now, TRUE, execution)
      BY <1>4 DEF AcquireProbe
    <3>2. PermitAfterExpiry(Due(now)) \in [Permit -> PermitRecord]
      BY ReleaseType
    <3>3. generation \in Nat /\ state \in State
      BY DEF TypeOK
    <3> QED BY <3>1, <3>2, <3>3, AdmitType
  <2>2. caller' \in CallerType
    BY <1>4, CallersType, ReleaseType DEF AcquireProbe, Return
  <2>3. after \in ProbeType /\ IsFiniteSet(after.permits)
    BY ReleaseType
  <2>4. probe' = [active |-> after.active + 1, completed |-> after.completed,
                  successes |-> after.successes, permits |-> after.permits \cup {p}]
    BY <1>4 DEF AcquireProbe
  <2> HIDE DEF after
  <2>5. probe' \in ProbeType /\ FiniteProbes'
    BY <2>3, <2>4, FS_AddElement DEF FiniteProbes
  <2> QED BY <1>4, <2>1, <2>2, <2>5 DEF AcquireProbe, TypeOK
<1>5. ASSUME NEW c \in Caller, NEW now \in Time, RejectOutright(c, now)
      PROVE  TypeOK' /\ FiniteProbes'
  <2>1. caller' \in CallerType /\ totals' \in [Counter -> Nat]
    BY <1>5, CallersType, TotalsType DEF RejectOutright, Return, TypeOK
  <2> QED BY <1>5, <2>1 DEF RejectOutright, health, TypeOK, FiniteProbes
<1>6. ASSUME NEW c \in Caller, NEW now \in Time, RejectExhausted(c, now)
      PROVE  TypeOK' /\ FiniteProbes'
  <2>1. /\ permit' \in [Permit -> PermitRecord] /\ probe' \in ProbeType /\ FiniteProbes'
    BY <1>6, ReleaseType DEF RejectExhausted, FiniteProbes
  <2>2. caller' \in CallerType
    BY <1>6, ReleaseType, CallersType DEF RejectExhausted, Return
  <2>3. totals' \in [Counter -> Nat]
    BY <1>6, TotalsType DEF RejectExhausted
  <2> QED BY <1>6, <2>1, <2>2, <2>3 DEF RejectExhausted, TypeOK
<1>7. ASSUME NEW c \in Caller, NEW now \in Time, Wait(c, now)
      PROVE  TypeOK' /\ FiniteProbes'
  <2>1. /\ permit' \in [Permit -> PermitRecord] /\ probe' \in ProbeType /\ FiniteProbes'
    BY <1>7, ReleaseType DEF Wait, FiniteProbes
  <2>2. CallerAfterRelease(Due(now)) \in CallerType
    BY ReleaseType
  <2>3. (IF caller[c].pc = "idle" THEN now + MaxWait ELSE caller[c].deadline) \in Nat
    BY BreakerAssumption DEF TypeOK
  <2>4. caller' \in CallerType
    BY <1>7, <2>2, <2>3 DEF Wait
  <2> QED BY <1>7, <2>1, <2>4 DEF Wait, TypeOK
<1>8. ASSUME NEW c \in Caller, WaitTimeout(c)
      PROVE  TypeOK' /\ FiniteProbes'
  <2>1. caller' \in CallerType /\ totals' \in [Counter -> Nat]
    BY <1>8, CallersType, TotalsType DEF WaitTimeout, Return, TypeOK
  <2> QED BY <1>8, <2>1 DEF WaitTimeout, health, TypeOK, FiniteProbes
<1>9. ASSUME NEW c \in Caller, WaitCanceled(c)
      PROVE  TypeOK' /\ FiniteProbes'
  <2>1. caller' \in CallerType
    BY <1>9, CallersType DEF WaitCanceled, Return, TypeOK
  <2> QED BY <1>9, <2>1 DEF WaitCanceled, health, TypeOK, FiniteProbes
<1>10. ASSUME NEW p \in Permit, NEW outcome \in Class, CompleteExpiredExecution(p, outcome)
      PROVE  TypeOK' /\ FiniteProbes'
  <2>1. permit' \in [Permit -> PermitRecord] /\ totals' \in [Counter -> Nat]
    BY <1>10, StatusType, TotalsType DEF CompleteExpiredExecution, Status
  <2> QED BY <1>10, <2>1 DEF CompleteExpiredExecution, health, TypeOK, FiniteProbes
<1>11. ASSUME NEW p \in Permit, NEW outcome \in Class, NEW now \in Time, CompleteHealthless(p, outcome, now)
      PROVE  TypeOK' /\ FiniteProbes'
  <2>1. permit' \in [Permit -> PermitRecord] /\ totals' \in [Counter -> Nat]
    BY <1>11, StatusType, TotalsType DEF CompleteHealthless, Status
  <2>2. probe' \in ProbeType /\ FiniteProbes'
    <3>1. probe' = probe \/ probe' = [probe EXCEPT !.permits = @ \ {p}]
      BY <1>11 DEF CompleteHealthless
    <3>2. IsFiniteSet(probe.permits \ {p})
      BY FS_RemoveElement DEF FiniteProbes
    <3> QED BY <3>1, <3>2 DEF TypeOK, FiniteProbes
  <2> QED BY <1>11, <2>1, <2>2 DEF CompleteHealthless, TypeOK
<1>12. ASSUME NEW p \in Permit, NEW outcome \in Class, NEW slow \in BOOLEAN, NEW now \in Time, CompleteClosed(p, outcome, slow, now)
      PROVE  TypeOK' /\ FiniteProbes'
  <2>1. permit' \in [Permit -> PermitRecord] /\ totals' \in [Counter -> Nat]
    BY <1>12, StatusType, TotalsType DEF CompleteClosed, Status
  <2>2. window' \in RollingWindows
    <3> DEFINE r == [Class |-> outcome, Slow |-> slow /\ outcome # Ignored]
    <3>1. r \in Record
      BY DEF Record
    <3>2. now \in Nat /\ WindowAdd(window, now, r) \in RollingWindows
      BY <3>1, BreakerAssumption, RollingWindowType DEF TypeOK
    <3>3. window' = WindowObserve(WindowAdd(window, now, r), now)
      BY <1>12 DEF CompleteClosed
    <3> QED BY <3>2, <3>3, RollingWindowType
  <2>3. consecutiveFailures' \in Nat
    BY <1>12 DEF CompleteClosed, Streak, TypeOK, Class, Success, Failure, Ignored
  <2>4. CASE OpenLocked(now)
    <3>1. TransitionLocked(StateOpen) /\ StateOpen \in State
      BY <2>4 DEF OpenLocked, State
    <3> QED BY <1>12, <2>1, <2>2, <2>3, <2>4, <3>1, TransitionType, OpenType
            DEF CompleteClosed, TypeOK, FiniteProbes
  <2>5. CASE UNCHANGED <<state, generation, schedule, probe, caller>>
    BY <1>12, <2>1, <2>2, <2>3, <2>5 DEF CompleteClosed, TypeOK, FiniteProbes
  <2> QED BY <1>12, <2>4, <2>5 DEF CompleteClosed
<1>13. ASSUME NEW p \in Permit, NEW outcome \in Class, NEW now \in Time, CompleteProbe(p, outcome, now)
      PROVE  TypeOK' /\ FiniteProbes'
  <2>1. permit' \in [Permit -> PermitRecord] /\ totals' \in [Counter -> Nat]
    BY <1>13, StatusType, TotalsType DEF CompleteProbe, ProbeCompletion, Status
  <2>2. CompletedWith(outcome) \in Nat /\ SuccessesWith(outcome) \in Nat
    BY OneType DEF CompletedWith, SuccessesWith, TypeOK
  <2>3. probe' \in ProbeType /\ FiniteProbes'
    <3>1. probe' = [active |-> probe.active - 1, completed |-> CompletedWith(outcome),
                    successes |-> SuccessesWith(outcome), permits |-> probe.permits \ {p}]
      BY <1>13 DEF CompleteProbe
    <3>2. IsFiniteSet(probe.permits \ {p})
      BY FS_RemoveElement DEF FiniteProbes
    <3> QED BY <3>1, <3>2, <2>2 DEF TypeOK, FiniteProbes
  <2>4. caller' \in CallerType
    BY <1>13, CallersType DEF CompleteProbe, TypeOK
  <2> QED BY <1>13, <2>1, <2>3, <2>4 DEF CompleteProbe, TypeOK
<1>14. ASSUME NEW p \in Permit, NEW outcome \in Class, NEW now \in Time, CompleteProbeReopens(p, outcome, now)
      PROVE  TypeOK' /\ FiniteProbes'
  <2>1. permit' \in [Permit -> PermitRecord] /\ totals' \in [Counter -> Nat]
    BY <1>14, StatusType, TotalsType DEF CompleteProbeReopens, ProbeCompletion, Status
  <2>2. TransitionLocked(StateOpen) /\ StateOpen \in State
    BY <1>14 DEF CompleteProbeReopens, OpenLocked, State
  <2>9. window' \in RollingWindows
    BY <1>14, BreakerAssumption, RollingWindowType DEF CompleteProbeReopens, TypeOK
  <2> QED BY <1>14, <2>1, <2>2, <2>9, TransitionType, OpenType
          DEF CompleteProbeReopens, TypeOK, FiniteProbes
<1>15. ASSUME NEW p \in Permit, NEW outcome \in Class, NEW now \in Time, CompleteProbeRecovers(p, outcome, now)
      PROVE  TypeOK' /\ FiniteProbes'
  <2>1. permit' \in [Permit -> PermitRecord] /\ totals' \in [Counter -> Nat]
    BY <1>15, StatusType, TotalsType DEF CompleteProbeRecovers, ProbeCompletion, Status
  <2>2. TransitionLocked(StateClosed) /\ StateClosed \in State
    BY <1>15 DEF CompleteProbeRecovers, CloseLocked, State
  <2>9. window' \in RollingWindows
    BY <1>15, BreakerAssumption, RollingWindowType DEF CompleteProbeRecovers, CloseLocked, TypeOK
  <2> QED BY <1>15, <2>1, <2>2, <2>9, TransitionType
          DEF CompleteProbeRecovers, CloseLocked, NoSchedule, ZeroTime, TypeOK, FiniteProbes
<1>16. ASSUME NEW p \in Permit, NEW now \in Time, ExpirePermit(p, now)
      PROVE  TypeOK' /\ FiniteProbes'
  <2>1. permit' \in [Permit -> PermitRecord]
    BY <1>16, StatusType, TotalsType DEF ExpirePermit, Status
  <2>2. probe' \in ProbeType /\ FiniteProbes' /\ caller' \in CallerType
    BY <1>16, ReleaseType DEF ExpirePermit, FiniteProbes
  <2> QED BY <1>16, <2>1, <2>2 DEF ExpirePermit, TypeOK
<1>17. ASSUME NEW p \in Permit, NEW now \in Time, Cancel(p, now)
      PROVE  TypeOK' /\ FiniteProbes'
  <2>1. permit' \in [Permit -> PermitRecord]
    BY <1>17, StatusType, TotalsType DEF Cancel, Status
  <2>2. probe' \in ProbeType /\ FiniteProbes' /\ caller' \in CallerType
    BY <1>17, ReleaseType DEF Cancel, FiniteProbes
  <2> QED BY <1>17, <2>1, <2>2 DEF Cancel, TypeOK
<1>18. ASSUME NEW m \in Mode, NEW now \in Time, SetMode(m, now)
      PROVE  TypeOK' /\ FiniteProbes'
  <2>1. probe' \in ProbeType /\ FiniteProbes'
    BY <1>18, FS_EmptySet DEF SetMode, NoProbes, FiniteProbes
  <2>9. window' \in RollingWindows
    BY <1>18, BreakerAssumption, RollingWindowType DEF SetMode, TypeOK
  <2>2. caller' \in CallerType
    BY <1>18, CallersType DEF SetMode, TypeOK
  <2> QED BY <1>18, <2>1, <2>2, <2>9 DEF SetMode, NewGeneration, TypeOK
<1>19. ASSUME NEW now \in Time, Reset(now)
      PROVE  TypeOK' /\ FiniteProbes'
  <2>1. TransitionLocked(StateClosed) /\ StateClosed \in State
    BY <1>19 DEF Reset, CloseLocked, State
  <2>9. window' \in RollingWindows
    BY <1>19, BreakerAssumption, RollingWindowType DEF Reset, CloseLocked, TypeOK
  <2> QED BY <1>19, <2>1, <2>9, TransitionType
          DEF Reset, CloseLocked, NoSchedule, ZeroTime, Mode, TypeOK, FiniteProbes
<1>20. ASSUME NEW now \in Time, Snapshot(now)
      PROVE  TypeOK' /\ FiniteProbes'
  <2>9. window' \in RollingWindows
    BY <1>20, BreakerAssumption, RollingWindowType DEF Snapshot, TypeOK
  <2>1. CASE state = StateHalfOpen
    <3>1. /\ permit' \in [Permit -> PermitRecord] /\ probe' \in ProbeType
          /\ FiniteProbes' /\ caller' \in CallerType
      BY <1>20, <2>1, ReleaseType DEF Snapshot, FiniteProbes
    <3> QED BY <1>20, <2>9, <3>1 DEF Snapshot, TypeOK
  <2>2. CASE state # StateHalfOpen
    BY <1>20, <2>2, <2>9 DEF Snapshot, TypeOK, FiniteProbes
  <2> QED BY <2>1, <2>2
<1> QED BY <1>0, <1>1, <1>2, <1>3, <1>4, <1>5, <1>6, <1>7, <1>8, <1>9, <1>10, <1>11, <1>12, <1>13, <1>14, <1>15, <1>16, <1>17, <1>18, <1>19, <1>20 DEF Next, Acquire, Complete

\* New returns a well-typed breaker.
LEMMA InitType == Init => TypeOK /\ FiniteProbes
<1> SUFFICES ASSUME Init PROVE TypeOK /\ FiniteProbes
  OBVIOUS
<1>1. NoPermit \in PermitRecord
  BY DEF NoPermit, PermitRecord, State, Status, ZeroTime
<1>2. FiniteProbes
  BY FS_EmptySet DEF Init, NoProbes, FiniteProbes
<1> QED BY <1>1, <1>2, RollingWindowType
        DEF Init, TypeOK, State, Mode, NoSchedule, NoProbes, Idle, ZeroTime

(***************************************************************************)
(* Every state of the breaker is well typed, for every configuration that  *)
(* normalizeConfig accepts.                                                *)
(***************************************************************************)
THEOREM TypeCorrect == Spec => []TypeOK
<1>1. TypeOK /\ FiniteProbes /\ [Next]_vars => TypeOK' /\ FiniteProbes'
  BY TypeStep
<1> QED BY <1>1, InitType, PTL DEF Spec

-----------------------------------------------------------------------------
(* The half-open sample *)


IInv ==
  /\ TypeOK
  /\ FiniteProbes
  /\ EpochDeterminesState
  /\ ProbeAccounting
  /\ ProbeQuota
  /\ NoProbeWedge
  /\ NoLostWakeup

\* The part of IInv that is not about types.
SampleOK ==
  /\ EpochDeterminesState
  /\ ProbeAccounting
  /\ ProbeQuota
  /\ NoProbeWedge
  /\ NoLostWakeup

\* What a terminal call may change of a permit: its status.
SameIdentity(q) ==
  /\ permit'[q].generation = permit[q].generation
  /\ permit'[q].state = permit[q].state
  /\ permit'[q].recording = permit[q].recording
  /\ permit'[q].status # "none" => permit[q].status # "none"

-----------------------------------------------------------------------------
(* Facts about the helpers *)

\* Every configured policy has a quota of at least one probe.
LEMMA QuotaPositive ==
  /\ HalfOpen.MaxProbes \in Nat /\ HalfOpen.MaxProbes > 0
  /\ HalfOpen.RequiredSuccesses \in Nat
  /\ HalfOpen.RequiredSuccesses <= HalfOpen.MaxProbes
  /\ HalfOpen.SuccessRatio \in Nat
  /\ HalfOpen.RequiredSuccesses > 0 \/ HalfOpen.SuccessRatio > 0
  /\ HalfOpen.FailureAction \in {ReopenImmediately, ReopenAfterSample}
BY BreakerAssumption DEF ValidHalfOpen, HalfOpenPolicies, Percent

\* signalLocked leaves nobody parked.
LEMMA SignalWakesAll ==
  ASSUME TypeOK
  PROVE  \A c \in Caller : Signal(caller)[c].pc # "parked"
BY DEF Signal, TypeOK

\* Releasing takes exactly the released probes out of the map and the count.
LEMMA ReleaseAccounting ==
  ASSUME IInv, NEW S \in SUBSET Permit
  PROVE  /\ Released(S) = S \cap probe.permits
         /\ ProbeAfterRelease(S).permits = probe.permits \ S
         /\ ProbeAfterRelease(S).completed = probe.completed
         /\ ProbeAfterRelease(S).successes = probe.successes
         /\ ProbeAfterRelease(S).active = Cardinality(probe.permits \ S)
         /\ ProbeAfterRelease(S).active \in Nat
         /\ ProbeAfterRelease(S).active <= probe.active
         /\ Released(S) = {} => ProbeAfterRelease(S).active = probe.active
<1>1. Released(S) = S \cap probe.permits
  BY DEF IInv, ProbeAccounting, EpochDeterminesState, Released,
         BelongsToCurrentHalfOpen, BelongsToCurrentState
<1>2. probe.permits \ Released(S) = probe.permits \ S /\ probe.permits \cap Released(S) = Released(S)
  BY <1>1
<1>3. Cardinality(probe.permits \ S) = Cardinality(probe.permits) - Cardinality(Released(S))
  BY <1>2, FS_Difference DEF IInv, FiniteProbes
<1>4. IsFiniteSet(probe.permits \ S) /\ Cardinality(probe.permits \ S) \in Nat
  BY FS_Subset, FS_CardinalityType DEF IInv, FiniteProbes
<1>5. Cardinality(probe.permits \ S) <= Cardinality(probe.permits)
  BY FS_Subset DEF IInv, FiniteProbes
<1>6. Released(S) = {} => probe.permits \ S = probe.permits
  BY <1>1
<1> QED BY <1>1, <1>2, <1>3, <1>4, <1>5, <1>6 DEF ProbeAfterRelease, IInv, ProbeAccounting

-----------------------------------------------------------------------------
(* The two kinds of step that most operations are *)

\* A new generation: no permit belongs to it and no sample is under way.
LEMMA NewEpochStep ==
  ASSUME IInv, generation' = generation + 1, probe' = NoProbes, caller' = Signal(caller),
         \A q \in Permit : SameIdentity(q)
  PROVE  SampleOK'
<1>1. \A q \in Permit : permit'[q].status # "none" => permit'[q].generation < generation'
  BY DEF IInv, TypeOK, PermitRecord, EpochDeterminesState, SameIdentity
<1>2. EpochDeterminesState'
  BY <1>1 DEF IInv, TypeOK, PermitRecord, EpochDeterminesState, SameIdentity
<1>3. ProbeAccounting'
  BY <1>1, FS_EmptySet DEF IInv, TypeOK, ProbeAccounting, NoProbes
<1>4. ProbeQuota' /\ NoProbeWedge'
  BY QuotaPositive DEF ProbeQuota, NoProbeWedge, NoProbes
<1>5. NoLostWakeup'
  BY SignalWakesAll DEF IInv, NoLostWakeup
<1> QED BY <1>2, <1>3, <1>4, <1>5 DEF SampleOK

\* Within a generation, permits of S become terminal and leave the sample.
LEMMA TerminalStep ==
  ASSUME IInv, NEW S \in SUBSET Permit,
         UNCHANGED <<state, mode, generation>>,
         \A q \in Permit : /\ SameIdentity(q)
                           /\ q \notin S => permit'[q].status = permit[q].status
                           /\ q \in S => permit'[q].status # "active",
         probe' = ProbeAfterRelease(S),
         \A c \in Caller : caller'[c].pc = "parked" =>
                             caller[c].pc = "parked" /\ Released(S) = {}
  PROVE  SampleOK'
<1>0. /\ Released(S) = S \cap probe.permits
      /\ probe'.permits = probe.permits \ S
      /\ probe'.completed = probe.completed /\ probe'.successes = probe.successes
      /\ probe'.active = Cardinality(probe.permits \ S) /\ probe'.active \in Nat
      /\ probe'.active <= probe.active
      /\ Released(S) = {} => probe'.active = probe.active
  BY ReleaseAccounting
<1>1. EpochDeterminesState'
  BY DEF IInv, EpochDeterminesState, SameIdentity
<1>2. ProbeAccounting'
  <2>1. probe'.permits = probe.permits \ S /\ probe'.active = Cardinality(probe.permits \ S)
    BY <1>0
  <2>2. probe.permits \ S = {q \in Permit : /\ permit'[q].status = "active"
                                            /\ permit'[q].recording
                                            /\ permit'[q].generation = generation
                                            /\ permit'[q].state = StateHalfOpen}
    BY DEF IInv, ProbeAccounting, SameIdentity
  <2> QED BY <2>1, <2>2 DEF ProbeAccounting
<1>3. ProbeQuota'
  <2>1. probe.active \in Int /\ probe.completed \in Nat
    BY DEF IInv, TypeOK
  <2> QED BY <1>0, <2>1, QuotaPositive DEF IInv, ProbeQuota
<1>4. NoProbeWedge'
  <2>1. CASE state = StateHalfOpen
    BY <2>1, <1>0 DEF IInv, NoProbeWedge
  <2>2. CASE state # StateHalfOpen
    <3>1. probe.permits \ S = {} /\ Cardinality({}) = 0
      BY <2>2, FS_EmptySet DEF IInv, NoProbeWedge, NoProbes
    <3>2. probe' = NoProbes
      <4>1. probe = NoProbes
        BY <2>2 DEF IInv, NoProbeWedge
      <4>2. probe' = [active |-> probe'.active, completed |-> probe'.completed,
                      successes |-> probe'.successes, permits |-> probe'.permits]
        BY DEF ProbeAfterRelease
      <4> QED BY <1>0, <3>1, <4>1, <4>2 DEF NoProbes
    <3> QED BY <2>2, <3>2 DEF NoProbeWedge, NoProbes
  <2> QED BY <2>1, <2>2
<1>5. NoLostWakeup'
  <2> SUFFICES ASSUME NEW c \in Caller, caller'[c].pc = "parked"
               PROVE  /\ mode' = ModeNormal /\ state' = StateHalfOpen
                      /\ probe'.active + probe'.completed >= HalfOpen.MaxProbes
                      /\ probe'.permits # {}
    BY DEF NoLostWakeup
  <2>1. caller[c].pc = "parked" /\ Released(S) = {}
    OBVIOUS
  <2>2. probe'.active = probe.active /\ probe'.completed = probe.completed
        /\ probe'.permits = probe.permits
    BY <2>1, <1>0
  <2> QED BY <2>1, <2>2 DEF IInv, NoLostWakeup
<1> QED BY <1>1, <1>2, <1>3, <1>4, <1>5 DEF SampleOK

\* Status changes are the only effect of a terminal call on the permits.
LEMMA StatusIdentity ==
  ASSUME IInv, NEW p \in Permit, permit[p].status # "none", NEW s, SetStatus(p, s)
  PROVE  \A q \in Permit : /\ SameIdentity(q)
                           /\ q # p => permit'[q] = permit[q]
                           /\ q = p => permit'[q].status = s
BY DEF IInv, TypeOK, PermitRecord, SetStatus, SameIdentity

\* The same for the probes that lazy expiry ends.
LEMMA ExpiryIdentity ==
  ASSUME IInv, NEW now
  PROVE  /\ Due(now) \in SUBSET Permit
         /\ \A q \in Permit :
              LET r == PermitAfterExpiry(Due(now))[q]
              IN /\ r.generation = permit[q].generation /\ r.state = permit[q].state
                 /\ r.recording = permit[q].recording
                 /\ r.status = "none" <=> permit[q].status = "none"
                 /\ q \notin Due(now) => r = permit[q]
                 /\ q \in Due(now) => r.status = "expired"
<1>1. Due(now) \in SUBSET Permit
  BY DEF IInv, TypeOK, Due
<1>2. \A q \in Permit : PermitAfterExpiry(Due(now))[q] =
        IF q \in Due(now) THEN [permit[q] EXCEPT !.status = "expired"] ELSE permit[q]
  BY DEF PermitAfterExpiry
<1>3. \A q \in Due(now) : permit[q].status = "active"
  BY DEF Due
<1>4. \A q \in Permit : permit[q] \in PermitRecord
  BY DEF IInv, TypeOK
<1> QED BY <1>1, <1>2, <1>3, <1>4 DEF PermitRecord

\* A permit that joins the breaker without joining the sample.
LEMMA AdmitOutsideSample ==
  ASSUME IInv, NEW p \in Permit, permit[p].status = "none",
         NEW r, permit' = [permit EXCEPT ![p] = r],
         r.generation = generation, r.state = state,
         r.recording <=> mode = ModeNormal, r.recording => state = StateClosed,
         UNCHANGED health, NEW c \in Caller, Return(c, caller)
  PROVE  SampleOK'
<1>1. \A q \in Permit : q # p => permit'[q] = permit[q]
  BY DEF IInv, TypeOK
<1>2. /\ permit'[p].generation = generation /\ permit'[p].state = state
      /\ permit'[p].recording = r.recording /\ permit[p].status = "none"
  BY DEF IInv, TypeOK
<1>3. UNCHANGED <<state, mode, generation, probe>>
  BY DEF health
<1>4. EpochDeterminesState'
  BY <1>1, <1>2, <1>3 DEF IInv, TypeOK, EpochDeterminesState, StateClosed, StateOpen
<1>5. ProbeAccounting'
  <2>1. \A q \in Permit : q \in probe.permits <=> /\ permit'[q].status = "active"
                                                  /\ permit'[q].recording
                                                  /\ permit'[q].generation = generation
                                                  /\ permit'[q].state = StateHalfOpen
    BY <1>1, <1>2 DEF IInv, ProbeAccounting, StateClosed, StateHalfOpen
  <2>2. probe.permits \in SUBSET Permit
    BY DEF IInv, TypeOK
  <2> QED BY <1>3, <2>1, <2>2 DEF IInv, ProbeAccounting
<1>6. ProbeQuota' /\ NoProbeWedge'
  BY <1>3 DEF IInv, ProbeQuota, NoProbeWedge
<1>7. NoLostWakeup'
  BY <1>3 DEF IInv, TypeOK, NoLostWakeup, Return, Idle
<1> QED BY <1>4, <1>5, <1>6, <1>7 DEF SampleOK

\* The first probe of a new sample.
LEMMA FirstProbeStep ==
  ASSUME IInv, NEW c \in Caller, NEW p \in Permit, NEW now \in Time,
         NEW execution \in BOOLEAN, AcquireFirstProbe(c, p, now, execution)
  PROVE  SampleOK'
<1>1. \A q \in Permit : q # p => permit'[q] = permit[q]
  BY DEF AcquireFirstProbe, Admit, IInv, TypeOK
<1>2. /\ permit'[p].generation = generation + 1 /\ permit'[p].state = StateHalfOpen
      /\ permit'[p].recording = TRUE /\ permit'[p].status = "active"
  BY DEF AcquireFirstProbe, Admit, IInv, TypeOK
<1>3. /\ state' = StateHalfOpen /\ mode' = ModeNormal /\ generation' = generation + 1
      /\ probe' = [active |-> 1, completed |-> 0, successes |-> 0, permits |-> {p}]
      /\ generation \in Nat
  BY DEF AcquireFirstProbe, NewGeneration, IInv, TypeOK
<1>4. \A q \in Permit : q # p /\ permit'[q].status # "none" =>
        permit'[q].generation \in Nat /\ permit'[q].generation <= generation
  BY <1>1 DEF IInv, TypeOK, PermitRecord, EpochDeterminesState
<1>5. EpochDeterminesState'
  <2>1. \A q \in Permit : permit[q].status # "none" /\ permit[q].recording => permit[q].state # StateOpen
    BY DEF IInv, EpochDeterminesState
  <2> QED BY <1>1, <1>2, <1>3, <1>4, <2>1 DEF EpochDeterminesState, StateOpen, StateHalfOpen
<1>6. ProbeAccounting'
  <2>1. {p} = {q \in Permit : /\ permit'[q].status = "active" /\ permit'[q].recording
                              /\ permit'[q].generation = generation'
                              /\ permit'[q].state = StateHalfOpen}
    BY <1>2, <1>3, <1>4
  <2>2. Cardinality({p}) = 1
    BY FS_Singleton
  <2> QED BY <1>3, <2>1, <2>2 DEF ProbeAccounting
<1>7. ProbeQuota' /\ NoProbeWedge'
  BY <1>3, QuotaPositive DEF ProbeQuota, NoProbeWedge
<1>8. NoLostWakeup'
  <2>1. caller' = [Signal(caller) EXCEPT ![c] = Idle]
    BY DEF AcquireFirstProbe, Return
  <2>2. Signal(caller) \in CallerType
    BY CallersType DEF IInv, TypeOK, CallerType
  <2>3. \A d \in Caller : caller'[d].pc # "parked"
    BY <2>1, <2>2, SignalWakesAll DEF Idle, IInv, CallerType
  <2> QED BY <2>3 DEF NoLostWakeup
<1> QED BY <1>5, <1>6, <1>7, <1>8 DEF SampleOK

\* One more probe of the current sample, after lazy expiry.
LEMMA ProbeStep ==
  ASSUME IInv, NEW c \in Caller, NEW p \in Permit, NEW now \in Time,
         NEW execution \in BOOLEAN, AcquireProbe(c, p, now, execution)
  PROVE  SampleOK'
<1> DEFINE S == Due(now)
           after == ProbeAfterRelease(S)
<1>1. S \in SUBSET Permit
  BY ExpiryIdentity
<1>2. permit' = [PermitAfterExpiry(S) EXCEPT ![p] =
         [generation |-> generation, state |-> state, deadline |-> now + PermitTTL,
          recording |-> TRUE, execution |-> execution, status |-> "active"]]
      /\ permit[p].status = "none"
  BY DEF AcquireProbe, Admit
<1>3. DOMAIN PermitAfterExpiry(S) = Permit
  BY DEF PermitAfterExpiry
<1>4. \A q \in Permit : q # p => permit'[q] = PermitAfterExpiry(S)[q]
  BY <1>2, <1>3
<1>5. /\ permit'[p].generation = generation /\ permit'[p].state = state
      /\ permit'[p].recording = TRUE /\ permit'[p].status = "active"
  BY <1>2, <1>3
<1>6. /\ state = StateHalfOpen /\ mode = ModeNormal
      /\ UNCHANGED <<state, mode, generation>>
      /\ after.completed + after.active < HalfOpen.MaxProbes
  <2>1. ~(after.completed + after.active >= HalfOpen.MaxProbes)
    BY DEF AcquireProbe, QuotaSpent
  <2>2. after.completed \in Nat /\ after.active \in Nat
    BY <1>1, ReleaseAccounting DEF IInv, TypeOK
  <2> QED BY <2>1, <2>2, QuotaPositive DEF AcquireProbe
<1>7. /\ after.permits = probe.permits \ S /\ after.completed = probe.completed
      /\ after.successes = probe.successes /\ after.active = Cardinality(probe.permits \ S)
      /\ after.active \in Nat
      /\ Released(S) = {} => after.active = probe.active
  BY <1>1, ReleaseAccounting
<1>8. probe' = [active |-> after.active + 1, completed |-> after.completed,
                successes |-> after.successes, permits |-> after.permits \cup {p}]
  BY DEF AcquireProbe
<1>9. \A q \in Permit : q # p =>
        /\ permit'[q].generation = permit[q].generation /\ permit'[q].state = permit[q].state
        /\ permit'[q].recording = permit[q].recording
        /\ permit'[q].status = "none" <=> permit[q].status = "none"
        /\ q \notin S => permit'[q] = permit[q]
        /\ q \in S => permit'[q].status = "expired"
  BY <1>4, ExpiryIdentity
<1>10. p \notin probe.permits
  BY <1>2 DEF IInv, ProbeAccounting
<1> HIDE DEF S, after
<1>11. EpochDeterminesState'
  BY <1>5, <1>6, <1>9 DEF IInv, TypeOK, EpochDeterminesState, StateHalfOpen, StateOpen
<1>12. ProbeAccounting'
  <2>1. (probe.permits \ S) \cup {p} =
          {q \in Permit : /\ permit'[q].status = "active" /\ permit'[q].recording
                          /\ permit'[q].generation = generation
                          /\ permit'[q].state = StateHalfOpen}
    BY <1>5, <1>6, <1>9 DEF IInv, ProbeAccounting
  <2>2. IsFiniteSet(probe.permits \ S)
    BY FS_Difference DEF IInv, FiniteProbes
  <2>3. Cardinality((probe.permits \ S) \cup {p}) = Cardinality(probe.permits \ S) + 1
    BY <2>2, <1>10, FS_AddElement
  <2> QED BY <1>6, <1>7, <1>8, <2>1, <2>3 DEF ProbeAccounting
<1>13. ProbeQuota' /\ NoProbeWedge'
  <2>1. after.completed \in Nat /\ after.successes \in Nat
    BY <1>7 DEF IInv, TypeOK
  <2>2. ProbeQuota'
    BY <1>6, <1>7, <1>8, <2>1, QuotaPositive DEF ProbeQuota
  <2>3. NoProbeWedge'
    BY <1>6, <1>7, <1>8 DEF IInv, NoProbeWedge
  <2> QED BY <2>2, <2>3
<1>14. NoLostWakeup'
  <2>1. caller' = [CallerAfterRelease(S) EXCEPT ![c] = Idle]
    BY DEF AcquireProbe, Return, S
  <2>2. Signal(caller) \in CallerType /\ caller \in CallerType
    BY CallersType DEF IInv, TypeOK, CallerType
  <2>3. CASE Released(S) = {}
    <3>1. probe.active + probe.completed < HalfOpen.MaxProbes
      BY <1>6, <1>7, <2>3 DEF IInv, TypeOK
    <3>2. \A d \in Caller : caller[d].pc # "parked"
      BY <3>1, QuotaPositive DEF IInv, TypeOK, NoLostWakeup
    <3> QED BY <2>1, <2>2, <2>3, <3>2 DEF CallerAfterRelease, NoLostWakeup, CallerType, Idle
  <2>4. CASE Released(S) # {}
    <3>1. \A d \in Caller : Signal(caller)[d].pc # "parked"
      BY SignalWakesAll DEF IInv
    <3> QED BY <2>1, <2>2, <2>4, <3>1 DEF CallerAfterRelease, NoLostWakeup, CallerType, Idle
  <2> QED BY <2>3, <2>4
<1> QED BY <1>11, <1>12, <1>13, <1>14 DEF SampleOK

\* A caller parks: the quota is spent even after lazy expiry.
LEMMA WaitStep ==
  ASSUME IInv, NEW c \in Caller, NEW now \in Time, Wait(c, now)
  PROVE  SampleOK'
<1> DEFINE S == Due(now)
<1>1. S \in SUBSET Permit
  BY ExpiryIdentity
<1>2. \A q \in Permit : /\ SameIdentity(q)
                        /\ q \notin S => permit'[q].status = permit[q].status
                        /\ q \in S => permit'[q].status # "active"
  BY ExpiryIdentity DEF Wait, SameIdentity
<1>3. /\ UNCHANGED <<state, mode, generation>> /\ probe' = ProbeAfterRelease(S)
      /\ state = StateHalfOpen /\ mode = ModeNormal
      /\ probe'.completed + probe'.active >= HalfOpen.MaxProbes
  BY DEF Wait, QuotaSpent
<1>4. /\ probe'.active = Cardinality(probe'.permits) /\ probe'.active \in Nat
      /\ probe'.completed = probe.completed
  BY <1>1, <1>3, ReleaseAccounting
<1>5. probe'.permits # {}
  <2>1. probe.completed \in Nat /\ probe.completed < HalfOpen.MaxProbes
    BY <1>3 DEF IInv, TypeOK, NoProbeWedge
  <2>2. probe'.active > 0
    BY <1>3, <1>4, <2>1, QuotaPositive
  <2> QED BY <1>4, <2>2, FS_EmptySet
<1>6. EpochDeterminesState' /\ ProbeAccounting' /\ ProbeQuota' /\ NoProbeWedge'
  <2>1. EpochDeterminesState'
    BY <1>2, <1>3 DEF IInv, EpochDeterminesState, SameIdentity
  <2>2. probe'.permits = probe.permits \ S
    BY <1>1, <1>3, ReleaseAccounting
  <2>3. probe.permits \ S = {q \in Permit : /\ permit'[q].status = "active"
                                            /\ permit'[q].recording
                                            /\ permit'[q].generation = generation
                                            /\ permit'[q].state = StateHalfOpen}
    BY <1>2 DEF IInv, ProbeAccounting, SameIdentity
  <2>4. ProbeAccounting'
    BY <1>3, <1>4, <2>2, <2>3 DEF ProbeAccounting
  <2>5. probe'.active <= probe.active /\ probe'.successes = probe.successes
    BY <1>1, <1>3, ReleaseAccounting
  <2>6. ProbeQuota'
    BY <1>4, <2>5, QuotaPositive DEF IInv, TypeOK, ProbeQuota
  <2>7. NoProbeWedge'
    BY <1>3, <1>4, <2>5 DEF IInv, NoProbeWedge
  <2> QED BY <2>1, <2>4, <2>6, <2>7
<1>7. NoLostWakeup'
  <2>1. probe'.active + probe'.completed >= HalfOpen.MaxProbes
    BY <1>3, <1>4 DEF IInv, TypeOK
  <2> QED BY <1>3, <1>5, <2>1 DEF NoLostWakeup
<1> QED BY <1>6, <1>7 DEF SampleOK

\* A probe completes and the sample goes on.
LEMMA CompleteProbeStep ==
  ASSUME IInv, NEW p \in Permit, NEW outcome \in Class, NEW now \in Time,
         CompleteProbe(p, outcome, now)
  PROVE  SampleOK'
<1> DEFINE completed == CompletedWith(outcome)
           successes == SuccessesWith(outcome)
<1>1. /\ permit[p].status = "active" /\ permit[p].recording
      /\ permit[p].generation = generation /\ permit[p].state = StateHalfOpen
      /\ state = StateHalfOpen /\ UNCHANGED <<state, mode, generation>>
      /\ SetStatus(p, "completed") /\ caller' = Signal(caller)
      /\ ~Reopens(outcome) /\ ~Recovers(outcome)
      /\ probe' = [active |-> probe.active - 1, completed |-> completed,
                   successes |-> successes, permits |-> probe.permits \ {p}]
  BY DEF CompleteProbe, ProbeCompletion, Completable, BelongsToCurrentState
<1>2. \A q \in Permit : /\ SameIdentity(q)
                        /\ q # p => permit'[q] = permit[q]
                        /\ q = p => permit'[q].status = "completed"
  BY <1>1, StatusIdentity
<1>3. p \in probe.permits
  BY <1>1 DEF IInv, ProbeAccounting
<1>4. /\ probe.active \in Int /\ probe.completed \in Nat /\ probe.successes \in Nat
      /\ probe.completed < HalfOpen.MaxProbes /\ probe.successes <= probe.completed
      /\ HalfOpen.RequiredSuccesses > 0 => probe.successes < HalfOpen.RequiredSuccesses
      /\ HalfOpen.FailureAction = ReopenImmediately => probe.successes = probe.completed
  BY <1>1 DEF IInv, TypeOK, NoProbeWedge
<1>5. EpochDeterminesState'
  BY <1>1, <1>2 DEF IInv, EpochDeterminesState, SameIdentity
<1>6. ProbeAccounting'
  <2>1. probe.permits \ {p} = {q \in Permit : /\ permit'[q].status = "active"
                                              /\ permit'[q].recording
                                              /\ permit'[q].generation = generation
                                              /\ permit'[q].state = StateHalfOpen}
    BY <1>2 DEF IInv, ProbeAccounting, SameIdentity
  <2>2. Cardinality(probe.permits \ {p}) = probe.active - 1
    BY <1>3, FS_RemoveElement DEF IInv, FiniteProbes, ProbeAccounting
  <2> QED BY <1>1, <2>1, <2>2 DEF ProbeAccounting
<1>7. /\ completed = IF outcome = Ignored THEN probe.completed ELSE probe.completed + 1
      /\ successes = IF outcome = Success THEN probe.successes + 1 ELSE probe.successes
  BY <1>4 DEF CompletedWith, SuccessesWith, One
<1>8. ProbeQuota'
  <2>1. probe'.active = probe.active - 1 /\ probe'.completed = completed
    BY <1>1
  <2>2. probe.active + probe.completed <= HalfOpen.MaxProbes
    BY DEF IInv, ProbeQuota
  <2> HIDE DEF completed, successes
  <2> QED BY <1>4, <1>7, <2>1, <2>2, QuotaPositive DEF ProbeQuota
<1>9. /\ completed < HalfOpen.MaxProbes
      /\ HalfOpen.RequiredSuccesses > 0 => successes < HalfOpen.RequiredSuccesses
      /\ HalfOpen.FailureAction = ReopenImmediately => successes = completed
      /\ successes <= completed
  <2>1. CASE outcome = Ignored
    BY <1>4, <1>7, <2>1 DEF Ignored, Success
  <2>2. CASE outcome # Ignored
    <3>1. ~ProbeReopens(HalfOpen, outcome, completed, successes)
      BY <1>1, <2>2 DEF Reopens
    <3>2. ~Recovered(HalfOpen, completed, successes)
      BY <1>1, <2>2, <3>1 DEF Recovers, ProbeCloses
    <3> HIDE DEF completed, successes
    <3>3. ~(outcome = Failure /\ HalfOpen.FailureAction = ReopenImmediately)
      BY <3>1 DEF ProbeReopens
    <3>4. completed >= HalfOpen.MaxProbes =>
            HalfOpen.SuccessRatio <= 0 /\ HalfOpen.FailureAction # ReopenAfterSample
      BY <3>1, <3>2, QuotaPositive DEF ProbeReopens
    <3>5. HalfOpen.RequiredSuccesses > 0 => ~(successes >= HalfOpen.RequiredSuccesses)
      BY <3>2 DEF Recovered
    <3>6. outcome \in {Success, Failure}
      BY <2>2 DEF Class
    <3> QED BY <1>4, <1>7, <2>2, <3>3, <3>4, <3>5, <3>6, QuotaPositive
            DEF Success, Failure, Ignored, ReopenImmediately, ReopenAfterSample
  <2> QED BY <2>1, <2>2
<1>10. NoProbeWedge'
  BY <1>1, <1>9 DEF NoProbeWedge
<1>11. NoLostWakeup'
  BY <1>1, SignalWakesAll DEF IInv, NoLostWakeup
<1> QED BY <1>5, <1>6, <1>8, <1>10, <1>11 DEF SampleOK

-----------------------------------------------------------------------------
(* Every step *)

\* A turn of Acquire that ends without a permit, or a step that ends permits.
LEMMA UnchangedSample ==
  ASSUME IInv, UNCHANGED <<state, mode, generation, probe>>,
         \A q \in Permit : /\ SameIdentity(q)
                           /\ \/ permit'[q].status = permit[q].status
                              \/ q \notin probe.permits /\ permit'[q].status # "active",
         \A c \in Caller : caller'[c].pc = "parked" => caller[c].pc = "parked"
  PROVE  SampleOK'
<1>1. EpochDeterminesState'
  BY DEF IInv, EpochDeterminesState, SameIdentity
<1>2. probe.permits = {q \in Permit : /\ permit'[q].status = "active"
                                      /\ permit'[q].recording
                                      /\ permit'[q].generation = generation
                                      /\ permit'[q].state = StateHalfOpen}
  BY DEF IInv, ProbeAccounting, SameIdentity
<1>3. ProbeAccounting'
  BY <1>2 DEF IInv, ProbeAccounting
<1>4. ProbeQuota' /\ NoProbeWedge' /\ NoLostWakeup'
  BY DEF IInv, ProbeQuota, NoProbeWedge, NoLostWakeup
<1> QED BY <1>1, <1>3, <1>4 DEF SampleOK

\* One step of any operation keeps the invariants of the sample.
LEMMA SampleStep ==
  ASSUME IInv, [Next]_vars
  PROVE  SampleOK'
<1>0. CASE UNCHANGED vars
  BY <1>0, UnchangedSample DEF vars, health, SameIdentity
<1>1. ASSUME NEW c \in Caller, NEW p \in Permit, NEW now \in Time, NEW execution \in BOOLEAN, AcquireDisabled(c, p, now, execution)
      PROVE  SampleOK'
  <2> DEFINE r == [generation |-> generation, state |-> state, deadline |-> now + PermitTTL,
                   recording |-> FALSE, execution |-> execution, status |-> "active"]
  <2>1. /\ permit[p].status = "none" /\ permit' = [permit EXCEPT ![p] = r]
        /\ Return(c, caller) /\ UNCHANGED health
    BY <1>1 DEF AcquireDisabled, Admit
  <2>2. mode # ModeNormal
    BY <1>1 DEF AcquireDisabled, ModeNormal, ModeDisabled
  <2>3. r.generation = generation /\ r.state = state /\ ~r.recording
    OBVIOUS
  <2> HIDE DEF r
  <2> QED BY <2>1, <2>2, <2>3, AdmitOutsideSample
<1>2. ASSUME NEW c \in Caller, NEW p \in Permit, NEW now \in Time, NEW execution \in BOOLEAN, AcquireClosed(c, p, now, execution)
      PROVE  SampleOK'
  <2> DEFINE r == [generation |-> generation, state |-> state, deadline |-> now + PermitTTL,
                   recording |-> TRUE, execution |-> execution, status |-> "active"]
  <2>1. /\ permit[p].status = "none" /\ permit' = [permit EXCEPT ![p] = r]
        /\ Return(c, caller) /\ UNCHANGED health
    BY <1>2 DEF AcquireClosed, Admit
  <2>2. mode = ModeNormal /\ state = StateClosed
    BY <1>2 DEF AcquireClosed, ModeNormal, ModeDisabled
  <2>3. r.generation = generation /\ r.state = state /\ r.recording
    OBVIOUS
  <2> HIDE DEF r
  <2> QED BY <2>1, <2>2, <2>3, AdmitOutsideSample
<1>3. ASSUME NEW c \in Caller, NEW p \in Permit, NEW now \in Time, NEW execution \in BOOLEAN, AcquireFirstProbe(c, p, now, execution)
      PROVE  SampleOK'
  BY <1>3, FirstProbeStep
<1>4. ASSUME NEW c \in Caller, NEW p \in Permit, NEW now \in Time, NEW execution \in BOOLEAN, AcquireProbe(c, p, now, execution)
      PROVE  SampleOK'
  BY <1>4, ProbeStep
<1>5. ASSUME NEW c \in Caller, NEW now \in Time, RejectOutright(c, now)
      PROVE  SampleOK'
  <2>1. \A d \in Caller : caller'[d].pc = "parked" => caller[d].pc = "parked"
    BY <1>5 DEF RejectOutright, Return, Idle, IInv, TypeOK
  <2> QED BY <1>5, <2>1, UnchangedSample DEF RejectOutright, health, SameIdentity
<1>6. ASSUME NEW c \in Caller, NEW now \in Time, RejectExhausted(c, now)
      PROVE  SampleOK'
  <2>1. Due(now) \in SUBSET Permit /\ \A q \in Permit :
           /\ SameIdentity(q)
           /\ q \notin Due(now) => permit'[q].status = permit[q].status
           /\ q \in Due(now) => permit'[q].status # "active"
    BY <1>6, ExpiryIdentity DEF RejectExhausted, SameIdentity
  <2>2. caller' = [CallerAfterRelease(Due(now)) EXCEPT ![c] = Idle]
        /\ Signal(caller) \in CallerType /\ caller \in CallerType
    BY <1>6, CallersType DEF RejectExhausted, Return, IInv, TypeOK, CallerType
  <2>3. \A d \in Caller : caller'[d].pc = "parked" =>
                            caller[d].pc = "parked" /\ Released(Due(now)) = {}
    BY <2>2, SignalWakesAll DEF CallerAfterRelease, Idle, CallerType, IInv
  <2> QED BY <1>6, <2>1, <2>3, TerminalStep DEF RejectExhausted
<1>7. ASSUME NEW c \in Caller, NEW now \in Time, Wait(c, now)
      PROVE  SampleOK'
  BY <1>7, WaitStep
<1>8. ASSUME NEW c \in Caller, WaitTimeout(c)
      PROVE  SampleOK'
  <2>1. \A d \in Caller : caller'[d].pc = "parked" => caller[d].pc = "parked"
    BY <1>8 DEF WaitTimeout, Return, Idle, IInv, TypeOK
  <2> QED BY <1>8, <2>1, UnchangedSample DEF WaitTimeout, health, SameIdentity
<1>9. ASSUME NEW c \in Caller, WaitCanceled(c)
      PROVE  SampleOK'
  <2>1. \A d \in Caller : caller'[d].pc = "parked" => caller[d].pc = "parked"
    BY <1>9 DEF WaitCanceled, Return, Idle, IInv, TypeOK
  <2> QED BY <1>9, <2>1, UnchangedSample DEF WaitCanceled, health, SameIdentity
<1>10. ASSUME NEW p \in Permit, NEW outcome \in Class, CompleteExpiredExecution(p, outcome)
      PROVE  SampleOK'
  <2>1. permit[p].status = "expired" /\ SetStatus(p, "completed")
    BY <1>10 DEF CompleteExpiredExecution
  <2>2. p \notin probe.permits
    BY <2>1 DEF IInv, ProbeAccounting
  <2> QED BY <1>10, <2>1, <2>2, StatusIdentity, UnchangedSample DEF CompleteExpiredExecution, health
<1>11. ASSUME NEW p \in Permit, NEW outcome \in Class, NEW now \in Time, CompleteHealthless(p, outcome, now)
      PROVE  SampleOK'
  <2>1. permit[p].status = "active" /\ SetStatus(p, "completed")
    BY <1>11 DEF CompleteHealthless, Completable
  <2>2. p \notin probe.permits
    BY <1>11 DEF CompleteHealthless, BelongsToCurrentState, IInv, ProbeAccounting, EpochDeterminesState
  <2>3. probe' = probe
    <3>1. probe' = probe \/ probe' = [probe EXCEPT !.permits = @ \ {p}]
      BY <1>11 DEF CompleteHealthless
    <3>2. probe.permits \ {p} = probe.permits
      BY <2>2
    <3> QED BY <3>1, <3>2 DEF IInv, TypeOK
  <2> QED BY <1>11, <2>1, <2>2, <2>3, StatusIdentity, UnchangedSample DEF CompleteHealthless
<1>12. ASSUME NEW p \in Permit, NEW outcome \in Class, NEW slow \in BOOLEAN, NEW now \in Time, CompleteClosed(p, outcome, slow, now)
      PROVE  SampleOK'
  <2>1. /\ permit[p].status = "active" /\ SetStatus(p, "completed")
        /\ state # StateHalfOpen /\ UNCHANGED mode
    BY <1>12 DEF CompleteClosed, Completable
  <2>2. CASE OpenLocked(now)
    BY <2>1, <2>2, StatusIdentity, NewEpochStep DEF OpenLocked, TransitionLocked, NewGeneration
  <2>3. CASE UNCHANGED <<state, generation, schedule, probe, caller>>
    <3>1. p \notin probe.permits
      BY <2>1 DEF IInv, NoProbeWedge, NoProbes
    <3> QED BY <2>1, <2>3, <3>1, StatusIdentity, UnchangedSample
  <2> QED BY <1>12, <2>2, <2>3 DEF CompleteClosed
<1>13. ASSUME NEW p \in Permit, NEW outcome \in Class, NEW now \in Time, CompleteProbe(p, outcome, now)
      PROVE  SampleOK'
  BY <1>13, CompleteProbeStep
<1>14. ASSUME NEW p \in Permit, NEW outcome \in Class, NEW now \in Time, CompleteProbeReopens(p, outcome, now)
      PROVE  SampleOK'
  <2>1. permit[p].status = "active" /\ SetStatus(p, "completed")
    BY <1>14 DEF CompleteProbeReopens, ProbeCompletion, Completable
  <2> QED BY <1>14, <2>1, StatusIdentity, NewEpochStep
          DEF CompleteProbeReopens, OpenLocked, TransitionLocked, NewGeneration
<1>15. ASSUME NEW p \in Permit, NEW outcome \in Class, NEW now \in Time, CompleteProbeRecovers(p, outcome, now)
      PROVE  SampleOK'
  <2>1. permit[p].status = "active" /\ SetStatus(p, "completed")
    BY <1>15 DEF CompleteProbeRecovers, ProbeCompletion, Completable
  <2> QED BY <1>15, <2>1, StatusIdentity, NewEpochStep
          DEF CompleteProbeRecovers, CloseLocked, TransitionLocked, NewGeneration
<1>16. ASSUME NEW p \in Permit, NEW now \in Time, ExpirePermit(p, now)
      PROVE  SampleOK'
  <2>1. permit[p].status = "active" /\ SetStatus(p, "expired")
    BY <1>16 DEF ExpirePermit
  <2>2. \A c \in Caller : caller'[c].pc = "parked" =>
                            caller[c].pc = "parked" /\ Released({p}) = {}
    BY <1>16, SignalWakesAll DEF ExpirePermit, CallerAfterRelease, IInv
  <2>3. \A q \in Permit : /\ SameIdentity(q)
                          /\ q \notin {p} => permit'[q].status = permit[q].status
                          /\ q \in {p} => permit'[q].status # "active"
    BY <2>1, StatusIdentity
  <2>4. /\ UNCHANGED <<state, mode, generation>> /\ probe' = ProbeAfterRelease({p})
        /\ {p} \in SUBSET Permit
    BY <1>16 DEF ExpirePermit
  <2> QED BY <2>2, <2>3, <2>4, TerminalStep
<1>17. ASSUME NEW p \in Permit, NEW now \in Time, Cancel(p, now)
      PROVE  SampleOK'
  <2>1. permit[p].status = "active" /\ SetStatus(p, "canceled")
    BY <1>17 DEF Cancel
  <2>2. \A c \in Caller : caller'[c].pc = "parked" =>
                            caller[c].pc = "parked" /\ Released({p}) = {}
    BY <1>17, SignalWakesAll DEF Cancel, CallerAfterRelease, IInv
  <2>3. \A q \in Permit : /\ SameIdentity(q)
                          /\ q \notin {p} => permit'[q].status = permit[q].status
                          /\ q \in {p} => permit'[q].status # "active"
    BY <2>1, StatusIdentity
  <2>4. /\ UNCHANGED <<state, mode, generation>> /\ probe' = ProbeAfterRelease({p})
        /\ {p} \in SUBSET Permit
    BY <1>17 DEF Cancel
  <2> QED BY <2>2, <2>3, <2>4, TerminalStep
<1>18. ASSUME NEW m \in Mode, NEW now \in Time, SetMode(m, now)
      PROVE  SampleOK'
  BY <1>18, NewEpochStep DEF SetMode, NewGeneration, SameIdentity
<1>19. ASSUME NEW now \in Time, Reset(now)
      PROVE  SampleOK'
  BY <1>19, NewEpochStep DEF Reset, CloseLocked, TransitionLocked, NewGeneration, SameIdentity
<1>20. ASSUME NEW now \in Time, Snapshot(now)
      PROVE  SampleOK'
  <2>1. CASE state = StateHalfOpen
    <3>1. Due(now) \in SUBSET Permit /\ \A q \in Permit :
             /\ SameIdentity(q)
             /\ q \notin Due(now) => permit'[q].status = permit[q].status
             /\ q \in Due(now) => permit'[q].status # "active"
      BY <1>20, <2>1, ExpiryIdentity DEF Snapshot, SameIdentity
    <3>2. \A c \in Caller : caller'[c].pc = "parked" =>
                              caller[c].pc = "parked" /\ Released(Due(now)) = {}
      BY <1>20, <2>1, SignalWakesAll DEF Snapshot, CallerAfterRelease, IInv
    <3> QED BY <1>20, <2>1, <3>1, <3>2, TerminalStep DEF Snapshot
  <2>2. CASE state # StateHalfOpen
    BY <1>20, <2>2, UnchangedSample DEF Snapshot, SameIdentity
  <2> QED BY <2>1, <2>2
<1> QED BY <1>0, <1>1, <1>2, <1>3, <1>4, <1>5, <1>6, <1>7, <1>8, <1>9, <1>10, <1>11, <1>12, <1>13, <1>14, <1>15, <1>16, <1>17, <1>18, <1>19, <1>20 DEF Next, Acquire, Complete

\* The breaker that New returns satisfies the inductive invariant.
LEMMA InitInvariant == Init => IInv
<1> SUFFICES ASSUME Init PROVE IInv
  OBVIOUS
<1>1. TypeOK /\ FiniteProbes
  BY InitType
<1>2. EpochDeterminesState
  BY DEF Init, EpochDeterminesState, NoPermit
<1>3. ProbeAccounting
  BY FS_EmptySet DEF Init, ProbeAccounting, NoProbes, NoPermit
<1>4. ProbeQuota /\ NoProbeWedge
  BY QuotaPositive DEF Init, ProbeQuota, NoProbeWedge, NoProbes, StateClosed, StateHalfOpen
<1>5. NoLostWakeup
  BY DEF Init, NoLostWakeup, Idle
<1> QED BY <1>1, <1>2, <1>3, <1>4, <1>5 DEF IInv

\* One step of any operation keeps the inductive invariant.
LEMMA InvarianceStep == IInv /\ [Next]_vars => IInv'
BY TypeStep, SampleStep DEF IInv, SampleOK

\* The inductive invariant holds in every reachable state.
THEOREM Invariance == Spec => []IInv
BY InitInvariant, InvarianceStep, PTL DEF Spec

(***************************************************************************)
(* halfOpenPermits and halfOpenActive agree with the permits themselves in *)
(* every reachable state, whatever instants the callers sampled.           *)
(***************************************************************************)
THEOREM ProbesAccounted == Spec => []ProbeAccounting
BY Invariance, PTL DEF IInv

\* A sample never has more than MaxProbes outstanding and classified probes.
THEOREM QuotaKept == Spec => []ProbeQuota
BY Invariance, PTL DEF IInv

\* A half-open breaker can always be decided by further probes.
THEOREM NeverWedged == Spec => []NoProbeWedge
BY Invariance, PTL DEF IInv

\* No caller is parked on a channel that nobody will close.
THEOREM WakeupsKept == Spec => []NoLostWakeup
BY Invariance, PTL DEF IInv

\* A permit's generation decides its state and whether it records health.
THEOREM EpochsDecide == Spec => []EpochDeterminesState
BY Invariance, PTL DEF IInv

-----------------------------------------------------------------------------
(* Generations *)

\* What an operation that begins no generation leaves alone.
SameEpoch == UNCHANGED <<state, mode, generation, schedule>>

\* The action of EpochStep.
EpochRule ==
  /\ generation' = generation => UNCHANGED <<state, mode>>
  /\ generation' # generation => generation' = generation + 1
  /\ state' = StateHalfOpen /\ state # state' => state = StateOpen
  /\ state' # state /\ mode # ModeNormal => state' = StateClosed /\ mode' = ModeNormal

\* Every operation either stays in the epoch or begins the next one.
LEMMA EpochOf ==
  ASSUME IInv, [Next]_vars
  PROVE  EpochRule /\ (SameEpoch \/ generation' = generation + 1)
<1> USE DEF SameEpoch
<1>g. generation \in Nat
  BY DEF IInv, TypeOK
<1>s. SameEpoch => EpochRule
  BY DEF EpochRule
<1>0. CASE UNCHANGED vars
  BY <1>0, <1>s DEF vars, health
<1>1. ASSUME NEW c \in Caller, NEW p \in Permit, NEW now \in Time, NEW execution \in BOOLEAN,
             AcquireDisabled(c, p, now, execution)
      PROVE  EpochRule /\ (SameEpoch \/ generation' = generation + 1)
  BY <1>1, <1>s DEF AcquireDisabled, health
<1>2. ASSUME NEW c \in Caller, NEW p \in Permit, NEW now \in Time, NEW execution \in BOOLEAN,
             AcquireClosed(c, p, now, execution)
      PROVE  EpochRule /\ (SameEpoch \/ generation' = generation + 1)
  BY <1>2, <1>s DEF AcquireClosed, health
<1>3. ASSUME NEW c \in Caller, NEW p \in Permit, NEW now \in Time, NEW execution \in BOOLEAN,
             AcquireFirstProbe(c, p, now, execution)
      PROVE  EpochRule /\ (SameEpoch \/ generation' = generation + 1)
  BY <1>3, <1>g DEF AcquireFirstProbe, NewGeneration, EpochRule, StateHalfOpen, StateClosed, StateOpen
<1>4. ASSUME NEW c \in Caller, NEW p \in Permit, NEW now \in Time, NEW execution \in BOOLEAN,
             AcquireProbe(c, p, now, execution)
      PROVE  EpochRule /\ (SameEpoch \/ generation' = generation + 1)
  BY <1>4, <1>s DEF AcquireProbe
<1>5. ASSUME NEW c \in Caller, NEW now \in Time, RejectOutright(c, now)
      PROVE  EpochRule /\ (SameEpoch \/ generation' = generation + 1)
  BY <1>5, <1>s DEF RejectOutright, health
<1>6. ASSUME NEW c \in Caller, NEW now \in Time, RejectExhausted(c, now)
      PROVE  EpochRule /\ (SameEpoch \/ generation' = generation + 1)
  BY <1>6, <1>s DEF RejectExhausted
<1>7. ASSUME NEW c \in Caller, NEW now \in Time, Wait(c, now)
      PROVE  EpochRule /\ (SameEpoch \/ generation' = generation + 1)
  BY <1>7, <1>s DEF Wait
<1>8. ASSUME NEW c \in Caller, WaitTimeout(c)
      PROVE  EpochRule /\ (SameEpoch \/ generation' = generation + 1)
  BY <1>8, <1>s DEF WaitTimeout, health
<1>9. ASSUME NEW c \in Caller, WaitCanceled(c)
      PROVE  EpochRule /\ (SameEpoch \/ generation' = generation + 1)
  BY <1>9, <1>s DEF WaitCanceled, health
<1>10. ASSUME NEW p \in Permit, NEW outcome \in Class, CompleteExpiredExecution(p, outcome)
      PROVE  EpochRule /\ (SameEpoch \/ generation' = generation + 1)
  BY <1>10, <1>s DEF CompleteExpiredExecution, health
<1>11. ASSUME NEW p \in Permit, NEW outcome \in Class, NEW now \in Time,
             CompleteHealthless(p, outcome, now)
      PROVE  EpochRule /\ (SameEpoch \/ generation' = generation + 1)
  BY <1>11, <1>s DEF CompleteHealthless
<1>12. ASSUME NEW p \in Permit, NEW outcome \in Class, NEW slow \in BOOLEAN, NEW now \in Time,
             CompleteClosed(p, outcome, slow, now)
      PROVE  EpochRule /\ (SameEpoch \/ generation' = generation + 1)
  <2>1. CASE OpenLocked(now)
    <3>1. mode = ModeNormal
      BY <1>12 DEF CompleteClosed, Completable, BelongsToCurrentState, IInv, EpochDeterminesState
    <3> QED BY <1>12, <2>1, <3>1, <1>g DEF CompleteClosed, OpenLocked, TransitionLocked, NewGeneration,
                 EpochRule, StateHalfOpen, StateClosed, StateOpen
  <2>2. CASE UNCHANGED <<state, generation, schedule, probe, caller>>
    BY <1>12, <2>2, <1>s DEF CompleteClosed
  <2> QED BY <1>12, <2>1, <2>2 DEF CompleteClosed
<1>13. ASSUME NEW p \in Permit, NEW outcome \in Class, NEW now \in Time,
             CompleteProbe(p, outcome, now)
      PROVE  EpochRule /\ (SameEpoch \/ generation' = generation + 1)
  BY <1>13, <1>s DEF CompleteProbe
<1>14. ASSUME NEW p \in Permit, NEW outcome \in Class, NEW now \in Time,
             CompleteProbeReopens(p, outcome, now)
      PROVE  EpochRule /\ (SameEpoch \/ generation' = generation + 1)
  <2>1. mode = ModeNormal
    BY <1>14 DEF CompleteProbeReopens, ProbeCompletion, Completable, BelongsToCurrentState,
               IInv, EpochDeterminesState
  <2> QED BY <1>14, <2>1, <1>g DEF CompleteProbeReopens, OpenLocked, TransitionLocked,
               NewGeneration, EpochRule, StateHalfOpen, StateClosed, StateOpen
<1>15. ASSUME NEW p \in Permit, NEW outcome \in Class, NEW now \in Time,
             CompleteProbeRecovers(p, outcome, now)
      PROVE  EpochRule /\ (SameEpoch \/ generation' = generation + 1)
  <2>1. mode = ModeNormal
    BY <1>15 DEF CompleteProbeRecovers, ProbeCompletion, Completable, BelongsToCurrentState,
               IInv, EpochDeterminesState
  <2> QED BY <1>15, <2>1, <1>g DEF CompleteProbeRecovers, CloseLocked, TransitionLocked,
               NewGeneration, EpochRule, StateHalfOpen, StateClosed, StateOpen
<1>16. ASSUME NEW p \in Permit, NEW now \in Time, ExpirePermit(p, now)
      PROVE  EpochRule /\ (SameEpoch \/ generation' = generation + 1)
  BY <1>16, <1>s DEF ExpirePermit
<1>17. ASSUME NEW p \in Permit, NEW now \in Time, Cancel(p, now)
      PROVE  EpochRule /\ (SameEpoch \/ generation' = generation + 1)
  BY <1>17, <1>s DEF Cancel
<1>18. ASSUME NEW m \in Mode, NEW now \in Time, SetMode(m, now)
      PROVE  EpochRule /\ (SameEpoch \/ generation' = generation + 1)
  BY <1>18, <1>g DEF SetMode, NewGeneration, EpochRule
<1>19. ASSUME NEW now \in Time, Reset(now)
      PROVE  EpochRule /\ (SameEpoch \/ generation' = generation + 1)
  BY <1>19, <1>g DEF Reset, CloseLocked, TransitionLocked, NewGeneration, EpochRule,
                  StateHalfOpen, StateClosed, StateOpen
<1>20. ASSUME NEW now \in Time, Snapshot(now)
      PROVE  EpochRule /\ (SameEpoch \/ generation' = generation + 1)
  BY <1>20, <1>s DEF Snapshot
<1> QED BY <1>0, <1>1, <1>2, <1>3, <1>4, <1>5, <1>6, <1>7, <1>8, <1>9, <1>10,
           <1>11, <1>12, <1>13, <1>14, <1>15, <1>16, <1>17, <1>18, <1>19, <1>20
        DEF Next, Acquire, Complete

(***************************************************************************)
(* transitionLocked, SetMode and Reset: state and mode move only with a    *)
(* new generation, one at a time, half-open only from open, and policy     *)
(* never against an administrative mode; in every behaviour of the breaker *)
(* and for every configuration.                                            *)
(***************************************************************************)
THEOREM EpochsStep == Spec => EpochStep
<1>1. IInv /\ [Next]_vars =>
        [/\ generation' = generation => UNCHANGED <<state, mode>>
         /\ generation' # generation => generation' = generation + 1
         /\ state' = StateHalfOpen /\ state # state' => state = StateOpen
         /\ state' # state /\ mode # ModeNormal => state' = StateClosed /\ mode' = ModeNormal]_vars
  BY EpochOf DEF EpochRule
<1> QED BY <1>1, Invariance, PTL DEF Spec, EpochStep

-----------------------------------------------------------------------------
(* Stale permits *)

\* expireHalfOpenLocked ends only probes of the current sample.
LEMMA DueIsCurrent ==
  ASSUME IInv, NEW now, NEW q \in Due(now)
  PROVE  /\ permit[q].status = "active" /\ permit[q].recording
         /\ permit[q].generation = generation
BY DEF Due, IInv, ProbeAccounting

\* releaseHalfOpenLocked finds nothing to release for any other permit.
LEMMA NothingReleased ==
  ASSUME IInv, NEW p \in Permit, p \notin probe.permits
  PROVE  ProbeAfterRelease({p}) = probe
<1>1. {p} \in SUBSET Permit /\ {p} \cap probe.permits = {} /\ probe.permits \ {p} = probe.permits
  OBVIOUS
<1>2. /\ ProbeAfterRelease({p}).permits = probe.permits
      /\ ProbeAfterRelease({p}).completed = probe.completed
      /\ ProbeAfterRelease({p}).successes = probe.successes
      /\ ProbeAfterRelease({p}).active = probe.active
  BY <1>1, ReleaseAccounting
<1> QED BY <1>2 DEF ProbeAfterRelease, IInv, TypeOK

\* completeAt on a stale or healthless permit leaves the probe map as it is.
LEMMA HealthlessKeepsHealth ==
  ASSUME IInv, NEW p \in Permit, NEW outcome, NEW now, CompleteHealthless(p, outcome, now)
  PROVE  UNCHANGED health
<1>1. p \notin probe.permits
  BY DEF CompleteHealthless, BelongsToCurrentState, IInv, ProbeAccounting, EpochDeterminesState
<1>2. probe' = probe \/ probe' = [probe EXCEPT !.permits = @ \ {p}]
  BY DEF CompleteHealthless
<1>3. probe.permits \ {p} = probe.permits
  BY <1>1
<1>4. probe' = probe
  BY <1>2, <1>3 DEF IInv, TypeOK
<1> QED BY <1>4 DEF CompleteHealthless, health

\* The permit q ends in this step although it no longer counts.
EndsUncounted(q) ==
  /\ permit[q].status \in {"active", "expired"}
  /\ permit'[q].status # permit[q].status
  /\ ~permit[q].recording \/ permit[q].generation # generation \/ permit[q].status = "expired"

\* No operation changes health in a step in which such a permit ends.
LEMMA IsolationStep ==
  ASSUME IInv, [Next]_vars, NEW q \in Permit, EndsUncounted(q)
  PROVE  UNCHANGED health
<1>d. \A now : q \notin Due(now)
  BY DueIsCurrent DEF EndsUncounted
<1>e. \A now : PermitAfterExpiry(Due(now))[q] = permit[q]
  BY <1>d DEF PermitAfterExpiry
<1>p. permit \in [Permit -> PermitRecord] /\ permit[q].status # "none"
  BY DEF IInv, TypeOK, EndsUncounted
<1>0. CASE UNCHANGED vars
  BY <1>0 DEF vars
<1>1. ASSUME NEW c \in Caller, NEW p \in Permit, NEW now \in Time, NEW execution \in BOOLEAN,
             AcquireDisabled(c, p, now, execution)
      PROVE  UNCHANGED health
  BY <1>1 DEF AcquireDisabled
<1>2. ASSUME NEW c \in Caller, NEW p \in Permit, NEW now \in Time, NEW execution \in BOOLEAN,
             AcquireClosed(c, p, now, execution)
      PROVE  UNCHANGED health
  BY <1>2 DEF AcquireClosed
<1>3. ASSUME NEW c \in Caller, NEW p \in Permit, NEW now \in Time, NEW execution \in BOOLEAN,
             AcquireFirstProbe(c, p, now, execution)
      PROVE  UNCHANGED health
  BY <1>3, <1>p DEF AcquireFirstProbe, Admit, EndsUncounted
<1>4. ASSUME NEW c \in Caller, NEW p \in Permit, NEW now \in Time, NEW execution \in BOOLEAN,
             AcquireProbe(c, p, now, execution)
      PROVE  UNCHANGED health
  <2>1. DOMAIN PermitAfterExpiry(Due(now)) = Permit /\ q # p
    BY <1>4, <1>p DEF AcquireProbe, Admit, PermitAfterExpiry
  <2>2. permit'[q] = PermitAfterExpiry(Due(now))[q]
    BY <1>4, <2>1 DEF AcquireProbe, Admit
  <2> QED BY <2>2, <1>e DEF EndsUncounted
<1>5. ASSUME NEW c \in Caller, NEW now \in Time, RejectOutright(c, now)
      PROVE  UNCHANGED health
  BY <1>5 DEF RejectOutright
<1>6. ASSUME NEW c \in Caller, NEW now \in Time, RejectExhausted(c, now)
      PROVE  UNCHANGED health
  BY <1>6, <1>e DEF RejectExhausted, EndsUncounted
<1>7. ASSUME NEW c \in Caller, NEW now \in Time, Wait(c, now)
      PROVE  UNCHANGED health
  BY <1>7, <1>e DEF Wait, EndsUncounted
<1>8. ASSUME NEW c \in Caller, WaitTimeout(c)
      PROVE  UNCHANGED health
  BY <1>8 DEF WaitTimeout
<1>9. ASSUME NEW c \in Caller, WaitCanceled(c)
      PROVE  UNCHANGED health
  BY <1>9 DEF WaitCanceled
<1>10. ASSUME NEW p \in Permit, NEW outcome \in Class, CompleteExpiredExecution(p, outcome)
      PROVE  UNCHANGED health
  BY <1>10 DEF CompleteExpiredExecution
<1>11. ASSUME NEW p \in Permit, NEW outcome \in Class, NEW now \in Time,
             CompleteHealthless(p, outcome, now)
      PROVE  UNCHANGED health
  BY <1>11, HealthlessKeepsHealth
<1>12. ASSUME NEW p \in Permit, NEW outcome \in Class, NEW slow \in BOOLEAN, NEW now \in Time,
             CompleteClosed(p, outcome, slow, now)
      PROVE  UNCHANGED health
  <2>1. permit[p].status = "active" /\ permit[p].recording /\ permit[p].generation = generation
    BY <1>12 DEF CompleteClosed, Completable, BelongsToCurrentState
  <2>2. \A r \in Permit : r # p => permit'[r] = permit[r]
    BY <1>12, <1>p DEF CompleteClosed, SetStatus
  <2> QED BY <2>1, <2>2 DEF EndsUncounted
<1>13. ASSUME NEW p \in Permit, NEW outcome \in Class, NEW now \in Time,
             CompleteProbe(p, outcome, now)
      PROVE  UNCHANGED health
  <2>1. permit[p].status = "active" /\ permit[p].recording /\ permit[p].generation = generation
    BY <1>13 DEF CompleteProbe, ProbeCompletion, Completable, BelongsToCurrentState
  <2>2. \A r \in Permit : r # p => permit'[r] = permit[r]
    BY <1>13, <1>p DEF CompleteProbe, ProbeCompletion, SetStatus
  <2> QED BY <2>1, <2>2 DEF EndsUncounted
<1>14. ASSUME NEW p \in Permit, NEW outcome \in Class, NEW now \in Time,
             CompleteProbeReopens(p, outcome, now)
      PROVE  UNCHANGED health
  <2>1. permit[p].status = "active" /\ permit[p].recording /\ permit[p].generation = generation
    BY <1>14 DEF CompleteProbeReopens, ProbeCompletion, Completable, BelongsToCurrentState
  <2>2. \A r \in Permit : r # p => permit'[r] = permit[r]
    BY <1>14, <1>p DEF CompleteProbeReopens, ProbeCompletion, SetStatus
  <2> QED BY <2>1, <2>2 DEF EndsUncounted
<1>15. ASSUME NEW p \in Permit, NEW outcome \in Class, NEW now \in Time,
             CompleteProbeRecovers(p, outcome, now)
      PROVE  UNCHANGED health
  <2>1. permit[p].status = "active" /\ permit[p].recording /\ permit[p].generation = generation
    BY <1>15 DEF CompleteProbeRecovers, ProbeCompletion, Completable, BelongsToCurrentState
  <2>2. \A r \in Permit : r # p => permit'[r] = permit[r]
    BY <1>15, <1>p DEF CompleteProbeRecovers, ProbeCompletion, SetStatus
  <2> QED BY <2>1, <2>2 DEF EndsUncounted
<1>16. ASSUME NEW p \in Permit, NEW now \in Time, ExpirePermit(p, now)
      PROVE  UNCHANGED health
  <2>1. q = p
    BY <1>16, <1>p DEF ExpirePermit, SetStatus, EndsUncounted
  <2>2. p \notin probe.permits
    BY <1>16, <2>1 DEF ExpirePermit, EndsUncounted, IInv, ProbeAccounting
  <2> QED BY <1>16, <2>2, NothingReleased DEF ExpirePermit, health
<1>17. ASSUME NEW p \in Permit, NEW now \in Time, Cancel(p, now)
      PROVE  UNCHANGED health
  <2>1. q = p
    BY <1>17, <1>p DEF Cancel, SetStatus, EndsUncounted
  <2>2. p \notin probe.permits
    BY <1>17, <2>1 DEF Cancel, EndsUncounted, IInv, ProbeAccounting
  <2> QED BY <1>17, <2>2, NothingReleased DEF Cancel, health
<1>18. ASSUME NEW m \in Mode, NEW now \in Time, SetMode(m, now)
      PROVE  UNCHANGED health
  BY <1>18 DEF SetMode, EndsUncounted
<1>19. ASSUME NEW now \in Time, Reset(now)
      PROVE  UNCHANGED health
  BY <1>19 DEF Reset, EndsUncounted
<1>20. ASSUME NEW now \in Time, Snapshot(now)
      PROVE  UNCHANGED health
  BY <1>20, <1>e DEF Snapshot, EndsUncounted
<1> QED BY <1>0, <1>1, <1>2, <1>3, <1>4, <1>5, <1>6, <1>7, <1>8, <1>9, <1>10,
           <1>11, <1>12, <1>13, <1>14, <1>15, <1>16, <1>17, <1>18, <1>19, <1>20
        DEF Next, Acquire, Complete

(***************************************************************************)
(* completeAt and cancelAt: a permit that is stale, was admitted while     *)
(* disabled or had already expired changes no health state when it ends,   *)
(* in any behaviour and for every configuration.                           *)
(***************************************************************************)
THEOREM HealthIsolated == Spec => HealthIsolation
<1>1. IInv /\ [Next]_vars =>
        [\A p \in Permit :
           /\ permit[p].status \in {"active", "expired"}
           /\ permit'[p].status # permit[p].status
           /\ ~permit[p].recording \/ permit[p].generation # generation \/ permit[p].status = "expired"
           => UNCHANGED health]_vars
  BY IsolationStep DEF EndsUncounted
<1> QED BY <1>1, Invariance, PTL DEF Spec, HealthIsolation

-----------------------------------------------------------------------------
(* Open timing *)

\* The three things an operation may do to the open timing.
LEMMA ScheduleOf ==
  ASSUME IInv, [Next]_vars
  PROVE  \/ UNCHANGED schedule /\ (state' = state \/ (state = StateOpen /\ state' = StateHalfOpen))
         \/ state' = StateClosed /\ schedule' = NoSchedule
         \/ \E now \in Time : OpenLocked(now)
<1> DEFINE Goal ==
      \/ UNCHANGED schedule /\ (state' = state \/ (state = StateOpen /\ state' = StateHalfOpen))
      \/ state' = StateClosed /\ schedule' = NoSchedule
      \/ \E now \in Time : OpenLocked(now)
<1>0. CASE UNCHANGED vars
  BY <1>0 DEF vars, health
<1>1. ASSUME NEW c \in Caller, NEW p \in Permit, NEW now \in Time, NEW execution \in BOOLEAN,
             AcquireDisabled(c, p, now, execution)
      PROVE  Goal
  BY <1>1 DEF AcquireDisabled, health
<1>2. ASSUME NEW c \in Caller, NEW p \in Permit, NEW now \in Time, NEW execution \in BOOLEAN,
             AcquireClosed(c, p, now, execution)
      PROVE  Goal
  BY <1>2 DEF AcquireClosed, health
<1>3. ASSUME NEW c \in Caller, NEW p \in Permit, NEW now \in Time, NEW execution \in BOOLEAN,
             AcquireFirstProbe(c, p, now, execution)
      PROVE  Goal
  BY <1>3 DEF AcquireFirstProbe
<1>4. ASSUME NEW c \in Caller, NEW p \in Permit, NEW now \in Time, NEW execution \in BOOLEAN,
             AcquireProbe(c, p, now, execution)
      PROVE  Goal
  BY <1>4 DEF AcquireProbe
<1>5. ASSUME NEW c \in Caller, NEW now \in Time, RejectOutright(c, now)
      PROVE  Goal
  BY <1>5 DEF RejectOutright, health
<1>6. ASSUME NEW c \in Caller, NEW now \in Time, RejectExhausted(c, now)
      PROVE  Goal
  BY <1>6 DEF RejectExhausted
<1>7. ASSUME NEW c \in Caller, NEW now \in Time, Wait(c, now)
      PROVE  Goal
  BY <1>7 DEF Wait
<1>8. ASSUME NEW c \in Caller, WaitTimeout(c)
      PROVE  Goal
  BY <1>8 DEF WaitTimeout, health
<1>9. ASSUME NEW c \in Caller, WaitCanceled(c)
      PROVE  Goal
  BY <1>9 DEF WaitCanceled, health
<1>10. ASSUME NEW p \in Permit, NEW outcome \in Class, CompleteExpiredExecution(p, outcome)
      PROVE  Goal
  BY <1>10 DEF CompleteExpiredExecution, health
<1>11. ASSUME NEW p \in Permit, NEW outcome \in Class, NEW now \in Time,
             CompleteHealthless(p, outcome, now)
      PROVE  Goal
  BY <1>11 DEF CompleteHealthless
<1>12. ASSUME NEW p \in Permit, NEW outcome \in Class, NEW slow \in BOOLEAN, NEW now \in Time,
             CompleteClosed(p, outcome, slow, now)
      PROVE  Goal
  <2>1. OpenLocked(now) \/ UNCHANGED <<state, generation, schedule, probe, caller>>
    BY <1>12 DEF CompleteClosed
  <2> QED BY <2>1
<1>13. ASSUME NEW p \in Permit, NEW outcome \in Class, NEW now \in Time,
             CompleteProbe(p, outcome, now)
      PROVE  Goal
  BY <1>13 DEF CompleteProbe
<1>14. ASSUME NEW p \in Permit, NEW outcome \in Class, NEW now \in Time,
             CompleteProbeReopens(p, outcome, now)
      PROVE  Goal
  BY <1>14 DEF CompleteProbeReopens
<1>15. ASSUME NEW p \in Permit, NEW outcome \in Class, NEW now \in Time,
             CompleteProbeRecovers(p, outcome, now)
      PROVE  Goal
  BY <1>15 DEF CompleteProbeRecovers, CloseLocked, TransitionLocked
<1>16. ASSUME NEW p \in Permit, NEW now \in Time, ExpirePermit(p, now)
      PROVE  Goal
  BY <1>16 DEF ExpirePermit
<1>17. ASSUME NEW p \in Permit, NEW now \in Time, Cancel(p, now)
      PROVE  Goal
  BY <1>17 DEF Cancel
<1>18. ASSUME NEW m \in Mode, NEW now \in Time, SetMode(m, now)
      PROVE  Goal
  BY <1>18 DEF SetMode
<1>19. ASSUME NEW now \in Time, Reset(now)
      PROVE  Goal
  BY <1>19 DEF Reset, CloseLocked, TransitionLocked
<1>20. ASSUME NEW now \in Time, Snapshot(now)
      PROVE  Goal
  BY <1>20 DEF Snapshot
<1> QED BY <1>0, <1>1, <1>2, <1>3, <1>4, <1>5, <1>6, <1>7, <1>8, <1>9, <1>10,
           <1>11, <1>12, <1>13, <1>14, <1>15, <1>16, <1>17, <1>18, <1>19, <1>20
        DEF Next, Acquire, Complete

(***************************************************************************)
(* openLocked, closeLocked and Reset: open timing exists exactly while an  *)
(* opening is in force, and is one the schedule allows for its number of   *)
(* consecutive openings, measured from an instant a caller sampled.        *)
(***************************************************************************)
THEOREM OpenTimingKept == Spec => []OpenTiming
<1>1. Init => OpenTiming
  BY DEF Init, OpenTiming
<1>2. IInv /\ OpenTiming /\ [Next]_vars => OpenTiming'
  <2> SUFFICES ASSUME IInv, OpenTiming, [Next]_vars PROVE OpenTiming'
    OBVIOUS
  <2>1. CASE UNCHANGED schedule /\ (state' = state \/ (state = StateOpen /\ state' = StateHalfOpen))
    BY <2>1 DEF OpenTiming, StateClosed, StateOpen, StateHalfOpen
  <2>2. CASE state' = StateClosed /\ schedule' = NoSchedule
    BY <2>2 DEF OpenTiming
  <2>3. ASSUME NEW now \in Time, OpenLocked(now) PROVE OpenTiming'
    <3>1. PICK d \in OpenDurations(schedule.openCount + 1) :
            schedule' = [openCount |-> schedule.openCount + 1,
                         duration |-> d, nextProbeAt |-> now + d]
      BY <2>3 DEF OpenLocked
    <3>2. d \in Nat /\ now \in Nat /\ schedule.openCount \in Nat
      <4>1. now \in Nat /\ schedule.openCount \in Nat
        BY BreakerAssumption DEF IInv, TypeOK
      <4>2. d \in 1..OpenDuration.Maximum
        BY <3>1, <4>1, IntervalsBounded
      <4> QED BY <4>1, <4>2
    <3>3. /\ schedule'.openCount = schedule.openCount + 1
          /\ schedule'.duration = d /\ schedule'.nextProbeAt = now + d
      BY <3>1
    <3>4. /\ schedule'.openCount > 0
          /\ schedule'.duration \in OpenDurations(schedule'.openCount)
          /\ schedule'.nextProbeAt - schedule'.duration \in Time
      <4>1. schedule'.nextProbeAt - schedule'.duration = now
        BY <3>2, <3>3
      <4>2. schedule'.openCount > 0
        BY <3>2, <3>3
      <4>3. schedule'.duration \in OpenDurations(schedule'.openCount)
        BY <3>3, Zenon
      <4> QED BY <4>1, <4>2, <4>3
    <3>5. state' = StateOpen
      BY <2>3 DEF OpenLocked, TransitionLocked
    <3> QED BY <3>4, <3>5 DEF OpenTiming, StateOpen, StateClosed
  <2> QED BY <2>1, <2>2, <2>3, ScheduleOf
<1> QED BY <1>1, <1>2, Invariance, PTL DEF Spec

-----------------------------------------------------------------------------
(* Evidence *)

\* A window without classified records meets no opening rule.
LEMMA EmptyWindowStaysClosed ==
  ASSUME ~TimeWindowed, NEW streak
  PROVE  ~OpeningDecision(Opening, MinimumThroughput, streak, NewRollingWindow.snapshot)
<1>1. NewRollingWindow.snapshot.Classified = 0
  BY DEF NewRollingWindow, NewCount, EmptySnapshot
<1>2. ~(0 >= MinimumThroughput)
  BY BreakerAssumption
<1> QED BY <1>1, <1>2 DEF OpeningDecision

\* How a count window and the failure streak of a closed breaker come about.
LEMMA EvidenceOf ==
  ASSUME IInv, ~TimeWindowed, [Next]_vars, state' = StateClosed
  PROVE  \/ UNCHANGED <<state, window, consecutiveFailures>>
         \/ window' = NewRollingWindow
         \/ ~OpeningDecision(Opening, MinimumThroughput, consecutiveFailures', window'.snapshot)
<1> DEFINE Goal ==
      \/ UNCHANGED <<state, window, consecutiveFailures>>
      \/ window' = NewRollingWindow
      \/ ~OpeningDecision(Opening, MinimumThroughput, consecutiveFailures', window'.snapshot)
<1>o. \A w, now : WindowObserve(w, now) = w /\ WindowSnapshot(w, now) = w.snapshot
  BY DEF WindowObserve, WindowSnapshot
<1>f. \A now : FreshWindow(now) = NewRollingWindow
  BY <1>o DEF FreshWindow
<1>0. CASE UNCHANGED vars
  BY <1>0 DEF vars, health
<1>1. ASSUME NEW c \in Caller, NEW p \in Permit, NEW now \in Time, NEW execution \in BOOLEAN,
             AcquireDisabled(c, p, now, execution)
      PROVE  Goal
  BY <1>1 DEF AcquireDisabled, health
<1>2. ASSUME NEW c \in Caller, NEW p \in Permit, NEW now \in Time, NEW execution \in BOOLEAN,
             AcquireClosed(c, p, now, execution)
      PROVE  Goal
  BY <1>2 DEF AcquireClosed, health
<1>3. ASSUME NEW c \in Caller, NEW p \in Permit, NEW now \in Time, NEW execution \in BOOLEAN,
             AcquireFirstProbe(c, p, now, execution)
      PROVE  Goal
  BY <1>3 DEF AcquireFirstProbe, StateClosed, StateHalfOpen
<1>4. ASSUME NEW c \in Caller, NEW p \in Permit, NEW now \in Time, NEW execution \in BOOLEAN,
             AcquireProbe(c, p, now, execution)
      PROVE  Goal
  BY <1>4 DEF AcquireProbe
<1>5. ASSUME NEW c \in Caller, NEW now \in Time, RejectOutright(c, now)
      PROVE  Goal
  BY <1>5 DEF RejectOutright, health
<1>6. ASSUME NEW c \in Caller, NEW now \in Time, RejectExhausted(c, now)
      PROVE  Goal
  BY <1>6 DEF RejectExhausted
<1>7. ASSUME NEW c \in Caller, NEW now \in Time, Wait(c, now)
      PROVE  Goal
  BY <1>7 DEF Wait
<1>8. ASSUME NEW c \in Caller, WaitTimeout(c)
      PROVE  Goal
  BY <1>8 DEF WaitTimeout, health
<1>9. ASSUME NEW c \in Caller, WaitCanceled(c)
      PROVE  Goal
  BY <1>9 DEF WaitCanceled, health
<1>10. ASSUME NEW p \in Permit, NEW outcome \in Class, CompleteExpiredExecution(p, outcome)
      PROVE  Goal
  BY <1>10 DEF CompleteExpiredExecution, health
<1>11. ASSUME NEW p \in Permit, NEW outcome \in Class, NEW now \in Time,
             CompleteHealthless(p, outcome, now)
      PROVE  Goal
  BY <1>11 DEF CompleteHealthless
<1>12. ASSUME NEW p \in Permit, NEW outcome \in Class, NEW slow \in BOOLEAN, NEW now \in Time,
             CompleteClosed(p, outcome, slow, now)
      PROVE  Goal
  <2> DEFINE added == WindowAdd(window, now, [Class |-> outcome, Slow |-> slow /\ outcome # Ignored])
  <2>1. /\ window' = WindowObserve(added, now) /\ consecutiveFailures' = Streak(outcome)
        /\ \/ OpenLocked(now)
           \/ ~OpeningDecision(Opening, MinimumThroughput, Streak(outcome), WindowSnapshot(added, now))
    BY <1>12 DEF CompleteClosed
  <2>2. ~OpenLocked(now)
    BY DEF OpenLocked, TransitionLocked, StateOpen, StateClosed
  <2> HIDE DEF added
  <2>3. window' = added /\ WindowSnapshot(added, now) = added.snapshot
    BY <2>1, <1>o
  <2> QED BY <2>1, <2>2, <2>3
<1>13. ASSUME NEW p \in Permit, NEW outcome \in Class, NEW now \in Time,
             CompleteProbe(p, outcome, now)
      PROVE  Goal
  BY <1>13 DEF CompleteProbe
<1>14. ASSUME NEW p \in Permit, NEW outcome \in Class, NEW now \in Time,
             CompleteProbeReopens(p, outcome, now)
      PROVE  Goal
  BY <1>14 DEF CompleteProbeReopens, OpenLocked, TransitionLocked, StateOpen, StateClosed
<1>15. ASSUME NEW p \in Permit, NEW outcome \in Class, NEW now \in Time,
             CompleteProbeRecovers(p, outcome, now)
      PROVE  Goal
  BY <1>15, <1>f DEF CompleteProbeRecovers, CloseLocked
<1>16. ASSUME NEW p \in Permit, NEW now \in Time, ExpirePermit(p, now)
      PROVE  Goal
  BY <1>16 DEF ExpirePermit
<1>17. ASSUME NEW p \in Permit, NEW now \in Time, Cancel(p, now)
      PROVE  Goal
  BY <1>17 DEF Cancel
<1>18. ASSUME NEW m \in Mode, NEW now \in Time, SetMode(m, now)
      PROVE  Goal
  BY <1>18, <1>o DEF SetMode
<1>19. ASSUME NEW now \in Time, Reset(now)
      PROVE  Goal
  BY <1>19, <1>f DEF Reset, CloseLocked
<1>20. ASSUME NEW now \in Time, Snapshot(now)
      PROVE  Goal
  BY <1>20, <1>o DEF Snapshot
<1> QED BY <1>0, <1>1, <1>2, <1>3, <1>4, <1>5, <1>6, <1>7, <1>8, <1>9, <1>10,
           <1>11, <1>12, <1>13, <1>14, <1>15, <1>16, <1>17, <1>18, <1>19, <1>20
        DEF Next, Acquire, Complete

(***************************************************************************)
(* completeClosedLocked decides on every completion it records, and        *)
(* closeLocked and Reset throw the old evidence away: over a count window, *)
(* no closed breaker ever holds evidence that meets its opening rules.     *)
(***************************************************************************)
THEOREM ClosedBelow == Spec => []ClosedBelowThreshold
<1>1. Init => ClosedBelowThreshold
  BY EmptyWindowStaysClosed DEF Init, ClosedBelowThreshold
<1>2. IInv /\ ClosedBelowThreshold /\ [Next]_vars => ClosedBelowThreshold'
  <2> SUFFICES ASSUME IInv, ClosedBelowThreshold, [Next]_vars,
                      state' = StateClosed, ~TimeWindowed
               PROVE  ~OpeningDecision(Opening, MinimumThroughput, consecutiveFailures', window'.snapshot)
    BY DEF ClosedBelowThreshold
  <2>1. CASE UNCHANGED <<state, window, consecutiveFailures>>
    BY <2>1 DEF ClosedBelowThreshold
  <2>2. CASE window' = NewRollingWindow
    BY <2>2, EmptyWindowStaysClosed
  <2> QED BY <2>1, <2>2, EvidenceOf
<1> QED BY <1>1, <1>2, Invariance, PTL DEF Spec

-----------------------------------------------------------------------------
(* Lifetime counters *)

Handed == {p \in Permit : permit[p].status # "none"}
Completed == {p \in Permit : permit[p].status = "completed"}

\* Needed beside LifetimeAccounting, for any set of permits: only finitely
\* many of them have been handed out.
Counted == IsFiniteSet(Handed) /\ LifetimeAccounting

\* The counters LifetimeAccounting is about, but not "rejected".
SameCounts == \A k \in {"admitted", "completed"} \cup Class : totals'[k] = totals[k]

\* The counters are different ones, and outcomes are counters.
LEMMA CountersDiffer ==
  /\ {"admitted", "completed", "rejected"} \cup Class = Counter
  /\ \A k \in Class : k \notin {"admitted", "completed", "rejected"}
  /\ Success # Failure /\ Success # Ignored /\ Failure # Ignored
  /\ Class = {Success, Failure, Ignored}
BY DEF Counter, Class, Success, Failure, Ignored

\* A step that hands out nothing and completes nothing.
LEMMA UncountedStep ==
  ASSUME Counted, SameCounts,
         \A q \in Permit : /\ permit'[q].status = "none" <=> permit[q].status = "none"
                           /\ permit'[q].status = "completed" <=> permit[q].status = "completed"
  PROVE  Counted'
<1>1. Handed' = Handed /\ Completed' = Completed
  BY DEF Handed, Completed
<1>2. IsFiniteSet(Handed)'
  BY <1>1 DEF Counted
<1>3. LifetimeAccounting'
  BY <1>1, CountersDiffer DEF Counted, LifetimeAccounting, SameCounts, Handed, Completed
<1> QED BY <1>2, <1>3 DEF Counted

\* admitLocked counts the permit it hands out, whatever lazy expiry did first.
LEMMA AdmitCounted ==
  ASSUME IInv, Counted, NEW p \in Permit, permit[p].status = "none",
         permit'[p].status = "active",
         \A q \in Permit : q # p =>
           /\ permit'[q].status = "none" <=> permit[q].status = "none"
           /\ permit'[q].status = "completed" <=> permit[q].status = "completed",
         totals' = [totals EXCEPT !["admitted"] = @ + 1]
  PROVE  Counted'
<1>1. Handed' = Handed \cup {p} /\ p \notin Handed /\ Completed' = Completed
  BY DEF Handed, Completed
<1>2. IsFiniteSet(Handed \cup {p}) /\ Cardinality(Handed \cup {p}) = Cardinality(Handed) + 1
  BY <1>1, FS_AddElement DEF Counted
<1>3. /\ totals'["admitted"] = totals["admitted"] + 1
      /\ \A k \in {"completed"} \cup Class : totals'[k] = totals[k]
  BY CountersDiffer DEF IInv, TypeOK
<1>4. LifetimeAccounting'
  BY <1>1, <1>2, <1>3, CountersDiffer DEF Counted, LifetimeAccounting, Handed, Completed
<1> QED BY <1>1, <1>2, <1>4 DEF Counted

\* recordLifetimeLocked counts a completion once, under its outcome.
LEMMA CompletionCounted ==
  ASSUME IInv, Counted, NEW p \in Permit, NEW outcome \in Class,
         permit[p].status \in {"active", "expired"},
         SetStatus(p, "completed"), RecordLifetime(outcome)
  PROVE  Counted'
<1>1. /\ permit'[p].status = "completed"
      /\ \A q \in Permit : q # p => permit'[q] = permit[q]
  BY DEF SetStatus, IInv, TypeOK, PermitRecord
<1>2. Handed' = Handed /\ Completed' = Completed \cup {p} /\ p \notin Completed
  BY <1>1 DEF Handed, Completed
<1>3. IsFiniteSet(Completed)
  BY FS_Subset DEF Counted, Handed, Completed
<1>4. Cardinality(Completed \cup {p}) = Cardinality(Completed) + 1
  BY <1>2, <1>3, FS_AddElement
<1>5. /\ totals \in [Counter -> Nat]
      /\ \A k \in Counter : totals'[k] = totals[k] + One(k \in {"completed", outcome})
  BY DEF RecordLifetime, IInv, TypeOK
<1>6. totals'["admitted"] = totals["admitted"] /\ totals'["completed"] = totals["completed"] + 1
  BY <1>5, CountersDiffer DEF One
<1>7. \A k \in Class : totals'[k] = IF k = outcome THEN totals[k] + 1 ELSE totals[k]
  BY <1>5, CountersDiffer DEF One
<1>8. totals'[Success] + totals'[Failure] + totals'[Ignored]
        = totals[Success] + totals[Failure] + totals[Ignored] + 1
  <2>1. totals[Success] \in Nat /\ totals[Failure] \in Nat /\ totals[Ignored] \in Nat
    BY <1>5, CountersDiffer
  <2>2. CASE outcome = Success
    BY <1>7, <2>1, <2>2, CountersDiffer
  <2>3. CASE outcome = Failure
    BY <1>7, <2>1, <2>3, CountersDiffer
  <2>4. CASE outcome = Ignored
    BY <1>7, <2>1, <2>4, CountersDiffer
  <2> QED BY <2>2, <2>3, <2>4, CountersDiffer
<1>9. /\ totals["admitted"] = Cardinality(Handed) /\ totals["completed"] = Cardinality(Completed)
      /\ totals["completed"] = totals[Success] + totals[Failure] + totals[Ignored]
  BY DEF Counted, LifetimeAccounting, Handed, Completed
<1>10. LifetimeAccounting'
  <2>1. totals'["admitted"] = Cardinality(Handed')
    BY <1>2, <1>6, <1>9
  <2>2. totals'["completed"] = Cardinality(Completed')
    BY <1>2, <1>4, <1>6, <1>9
  <2>3. totals'["completed"] = totals'[Success] + totals'[Failure] + totals'[Ignored]
    BY <1>6, <1>8, <1>9
  <2> QED BY <2>1, <2>2, <2>3 DEF LifetimeAccounting, Handed, Completed
<1> QED BY <1>2, <1>10 DEF Counted

\* One step of any operation keeps the counters right.
LEMMA CountedStep ==
  ASSUME IInv, Counted, [Next]_vars
  PROVE  Counted'
<1>t. totals \in [Counter -> Nat] /\ permit \in [Permit -> PermitRecord]
  BY DEF IInv, TypeOK
<1>r. RejectLocked => SameCounts
  BY <1>t, CountersDiffer DEF RejectLocked, SameCounts
<1>u. totals' = totals => SameCounts
  BY DEF SameCounts
<1>e. ASSUME NEW now, permit' = PermitAfterExpiry(Due(now)), SameCounts
      PROVE  Counted'
  <2>1. \A q \in Permit :
          /\ permit'[q].status = "none" <=> permit[q].status = "none"
          /\ permit'[q].status = "completed" <=> permit[q].status = "completed"
    BY <1>e, ExpiryIdentity, DueIsCurrent
  <2> QED BY <1>e, <2>1, UncountedStep
<1>k. ASSUME UNCHANGED permit, SameCounts PROVE Counted'
  BY <1>k, UncountedStep
<1>s. ASSUME NEW p \in Permit, NEW s \in {"expired", "canceled"}, permit[p].status = "active",
             SetStatus(p, s), SameCounts
      PROVE  Counted'
  <2>1. \A q \in Permit :
          /\ permit'[q].status = "none" <=> permit[q].status = "none"
          /\ permit'[q].status = "completed" <=> permit[q].status = "completed"
    BY <1>s, StatusIdentity
  <2> QED BY <1>s, <2>1, UncountedStep
<1>0. CASE UNCHANGED vars
  BY <1>0, <1>u, <1>k DEF vars
<1>1. ASSUME NEW c \in Caller, NEW p \in Permit, NEW now \in Time, NEW execution \in BOOLEAN,
             AcquireDisabled(c, p, now, execution)
      PROVE  Counted'
  <2>1. /\ permit[p].status = "none" /\ permit'[p].status = "active"
        /\ \A q \in Permit : q # p => permit'[q] = permit[q]
        /\ totals' = [totals EXCEPT !["admitted"] = @ + 1]
    BY <1>1, <1>t DEF AcquireDisabled, Admit
  <2> QED BY <2>1, AdmitCounted
<1>2. ASSUME NEW c \in Caller, NEW p \in Permit, NEW now \in Time, NEW execution \in BOOLEAN,
             AcquireClosed(c, p, now, execution)
      PROVE  Counted'
  <2>1. /\ permit[p].status = "none" /\ permit'[p].status = "active"
        /\ \A q \in Permit : q # p => permit'[q] = permit[q]
        /\ totals' = [totals EXCEPT !["admitted"] = @ + 1]
    BY <1>2, <1>t DEF AcquireClosed, Admit
  <2> QED BY <2>1, AdmitCounted
<1>3. ASSUME NEW c \in Caller, NEW p \in Permit, NEW now \in Time, NEW execution \in BOOLEAN,
             AcquireFirstProbe(c, p, now, execution)
      PROVE  Counted'
  <2>1. /\ permit[p].status = "none" /\ permit'[p].status = "active"
        /\ \A q \in Permit : q # p => permit'[q] = permit[q]
        /\ totals' = [totals EXCEPT !["admitted"] = @ + 1]
    BY <1>3, <1>t DEF AcquireFirstProbe, Admit
  <2> QED BY <2>1, AdmitCounted
<1>4. ASSUME NEW c \in Caller, NEW p \in Permit, NEW now \in Time, NEW execution \in BOOLEAN,
             AcquireProbe(c, p, now, execution)
      PROVE  Counted'
  <2>1. DOMAIN PermitAfterExpiry(Due(now)) = Permit
    BY DEF PermitAfterExpiry
  <2>2. /\ permit[p].status = "none" /\ permit'[p].status = "active"
        /\ \A q \in Permit : q # p => permit'[q] = PermitAfterExpiry(Due(now))[q]
        /\ totals' = [totals EXCEPT !["admitted"] = @ + 1]
    BY <1>4, <2>1 DEF AcquireProbe, Admit
  <2>3. \A q \in Permit : q # p =>
          /\ permit'[q].status = "none" <=> permit[q].status = "none"
          /\ permit'[q].status = "completed" <=> permit[q].status = "completed"
    BY <2>2, ExpiryIdentity, DueIsCurrent
  <2> QED BY <2>2, <2>3, AdmitCounted
<1>5. ASSUME NEW c \in Caller, NEW now \in Time, RejectOutright(c, now)
      PROVE  Counted'
  BY <1>5, <1>r, <1>k DEF RejectOutright
<1>6. ASSUME NEW c \in Caller, NEW now \in Time, RejectExhausted(c, now)
      PROVE  Counted'
  BY <1>6, <1>r, <1>e DEF RejectExhausted
<1>7. ASSUME NEW c \in Caller, NEW now \in Time, Wait(c, now)
      PROVE  Counted'
  BY <1>7, <1>u, <1>e DEF Wait
<1>8. ASSUME NEW c \in Caller, WaitTimeout(c)
      PROVE  Counted'
  BY <1>8, <1>r, <1>k DEF WaitTimeout
<1>9. ASSUME NEW c \in Caller, WaitCanceled(c)
      PROVE  Counted'
  BY <1>9, <1>u, <1>k DEF WaitCanceled
<1>10. ASSUME NEW p \in Permit, NEW outcome \in Class, CompleteExpiredExecution(p, outcome)
      PROVE  Counted'
  BY <1>10, CompletionCounted DEF CompleteExpiredExecution
<1>11. ASSUME NEW p \in Permit, NEW outcome \in Class, NEW now \in Time,
             CompleteHealthless(p, outcome, now)
      PROVE  Counted'
  BY <1>11, CompletionCounted DEF CompleteHealthless, Completable
<1>12. ASSUME NEW p \in Permit, NEW outcome \in Class, NEW slow \in BOOLEAN, NEW now \in Time,
             CompleteClosed(p, outcome, slow, now)
      PROVE  Counted'
  BY <1>12, CompletionCounted DEF CompleteClosed, Completable
<1>13. ASSUME NEW p \in Permit, NEW outcome \in Class, NEW now \in Time,
             CompleteProbe(p, outcome, now)
      PROVE  Counted'
  BY <1>13, CompletionCounted DEF CompleteProbe, ProbeCompletion, Completable
<1>14. ASSUME NEW p \in Permit, NEW outcome \in Class, NEW now \in Time,
             CompleteProbeReopens(p, outcome, now)
      PROVE  Counted'
  BY <1>14, CompletionCounted DEF CompleteProbeReopens, ProbeCompletion, Completable
<1>15. ASSUME NEW p \in Permit, NEW outcome \in Class, NEW now \in Time,
             CompleteProbeRecovers(p, outcome, now)
      PROVE  Counted'
  BY <1>15, CompletionCounted DEF CompleteProbeRecovers, ProbeCompletion, Completable
<1>16. ASSUME NEW p \in Permit, NEW now \in Time, ExpirePermit(p, now)
      PROVE  Counted'
  BY <1>16, <1>u, <1>s DEF ExpirePermit
<1>17. ASSUME NEW p \in Permit, NEW now \in Time, Cancel(p, now)
      PROVE  Counted'
  BY <1>17, <1>u, <1>s DEF Cancel
<1>18. ASSUME NEW m \in Mode, NEW now \in Time, SetMode(m, now)
      PROVE  Counted'
  BY <1>18, <1>u, <1>k DEF SetMode
<1>19. ASSUME NEW now \in Time, Reset(now)
      PROVE  Counted'
  BY <1>19, <1>u, <1>k DEF Reset
<1>20. ASSUME NEW now \in Time, Snapshot(now)
      PROVE  Counted'
  BY <1>20, <1>u, <1>e, <1>k DEF Snapshot
<1> QED BY <1>0, <1>1, <1>2, <1>3, <1>4, <1>5, <1>6, <1>7, <1>8, <1>9, <1>10,
           <1>11, <1>12, <1>13, <1>14, <1>15, <1>16, <1>17, <1>18, <1>19, <1>20
        DEF Next, Acquire, Complete

\* A new breaker has counted nothing.
LEMMA InitCounted == Init => Counted
<1> SUFFICES ASSUME Init PROVE Counted
  OBVIOUS
<1>1. Handed = {} /\ Completed = {}
  BY DEF Init, NoPermit, Handed, Completed
<1>2. \A k \in Counter : totals[k] = 0
  BY DEF Init
<1>3. /\ totals["admitted"] = 0 /\ totals["completed"] = 0
      /\ totals[Success] = 0 /\ totals[Failure] = 0 /\ totals[Ignored] = 0
  BY <1>2, CountersDiffer
<1>4. IsFiniteSet(Handed) /\ Cardinality(Handed) = 0 /\ Cardinality(Completed) = 0
  BY <1>1, FS_EmptySet
<1>5. LifetimeAccounting
  BY <1>3, <1>4 DEF LifetimeAccounting, Handed, Completed
<1> QED BY <1>4, <1>5 DEF Counted

(***************************************************************************)
(* The lifetime counters of a Snapshot: every permit handed out is counted *)
(* once and every completion once, under one outcome, also when it comes   *)
(* after expiry or in a later generation.                                  *)
(***************************************************************************)
THEOREM LifetimeCounted == Spec => []LifetimeAccounting
<1>1. IInv /\ Counted /\ [Next]_vars => Counted'
  BY CountedStep
<1>2. Counted => LifetimeAccounting
  BY DEF Counted
<1> QED BY <1>1, <1>2, InitCounted, Invariance, PTL DEF Spec

=============================================================================
