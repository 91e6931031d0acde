-------------------------- MODULE ArithmeticProofs --------------------------
(***************************************************************************)
(* Theorems about the machine numbers of the schedule and of the time      *)
(* window, for every width of words and mantissas.                         *)
(***************************************************************************)
EXTENDS Schedule, BucketID, Induction

-----------------------------------------------------------------------------
(* Powers and roundings *)

\* What the recursion of Power defines.
LEMMA PowerIs ==
  /\ Power[0] = 1
  /\ \A e \in Nat : Power[e] \in Nat \ {0} /\ Power[e + 1] = 2 * Power[e]
<1> DEFINE Loop(g) == [e \in Nat |-> IF e = 0 THEN 1 ELSE 2 * g[e - 1]]
           Step == [k \in Nat |-> [n \in Int |-> 2 * n]]
           Positive == {e \in Nat : Power[e] \in Nat \ {0}}
<1>1. PICK g : Iterates(g, Int, 1, Step)
  <2>1. Step \in [Nat -> [Int -> Int]]
    OBVIOUS
  <2>2. 1 \in Int
    OBVIOUS
  <2> HIDE DEF Step
  <2> QED BY <2>1, <2>2, Iteration
<1>2. g \in [Nat -> Int] /\ g[0] = 1 /\ \A k \in Nat : g[k + 1] = Step[k][g[k]]
  <2> HIDE DEF Step
  <2> QED BY <1>1 DEF Iterates
<1>3. g = Loop(g)
  <2>1. ASSUME NEW k \in Nat PROVE g[k] = Loop(g)[k]
    <3>1. CASE k = 0
      BY <3>1, <1>2
    <3>2. CASE k > 0
      <4>1. k - 1 \in Nat /\ (k - 1) + 1 = k /\ g[k - 1] \in Int
        BY <3>2, <1>2
      <4>2. g[(k - 1) + 1] = Step[k - 1][g[k - 1]]
        BY <4>1, <1>2
      <4> QED BY <3>2, <4>1, <4>2
    <3> QED BY <3>1, <3>2
  <2> QED BY <2>1, <1>2
<1>4. Power = CHOOSE f : f = Loop(f)
  BY DEF Power
<1>5. Power = Loop(Power)
  <2> HIDE DEF Loop
  <2> QED BY <1>3, <1>4, Zenon
<1>6. Power[0] = 1
  BY <1>5
<1>7. ASSUME NEW e \in Nat PROVE Power[e + 1] = 2 * Power[e]
  <2>1. e + 1 \in Nat /\ e + 1 # 0 /\ (e + 1) - 1 = e
    OBVIOUS
  <2>2. Power[e + 1] = Loop(Power)[e + 1]
    BY <1>5, Zenon
  <2> QED BY <2>1, <2>2
<1>8. \A e \in Nat : e \in Positive
  <2>1. 0 \in Positive
    BY <1>6
  <2>2. ASSUME NEW e \in Positive PROVE e + 1 \in Positive
    BY <1>7
  <2>3. Positive \in SUBSET Nat
    OBVIOUS
  <2> HIDE DEF Positive
  <2> QED BY <2>1, <2>2, <2>3, SetInduction
<1> QED BY <1>6, <1>7, <1>8

\* The library's Min is the least element.
LEMMA MinIs ==
  ASSUME NEW T \in SUBSET Nat, T # {}
  PROVE  Min(T) \in T /\ \A y \in T : Min(T) <= y
<1>1. \E x \in T : \A y \in T : x <= y
  BY LeastElement
<1>2. Min(T) = CHOOSE x \in T : \A y \in T : x <= y
  BY DEF Min
<1> QED BY <1>1, <1>2, Zenon

\* Of two integers it is the lesser.
LEMMA MinOfTwo ==
  ASSUME NEW a \in Int, NEW b \in Int
  PROVE  Min({a, b}) = IF a <= b THEN a ELSE b
<1> DEFINE least == IF a <= b THEN a ELSE b
<1>1. Min({a, b}) = CHOOSE x \in {a, b} : \A y \in {a, b} : x <= y
  BY DEF Min
<1>2. least \in {a, b} /\ \A y \in {a, b} : least <= y
  OBVIOUS
<1>3. \A x \in {a, b} : (\A y \in {a, b} : x <= y) => x = least
  OBVIOUS
<1> HIDE DEF least
<1>4. Min({a, b}) = least
  BY <1>1, <1>2, <1>3, Zenon
<1> QED BY <1>4 DEF least

\* Rounding and the conversions from it give integers.
LEMMA ProductType ==
  ASSUME converts \in Int, NEW d \in Int, NEW factor \in Int
  PROVE  ToDuration(Product(d, factor)) \in Int
<1>1. DurationBits \in Nat /\ MantissaBits \in Nat
  BY ScheduleAssumption
<1>2. Units \subseteq Nat \ {0} /\ LargestUnit \in Nat \ {0} /\ Mantissas \in Nat
  BY <1>1, PowerIs DEF Units, LargestUnit, Mantissas
<1>3. MaxDuration \in Int
  <2>1. DurationBits - 1 \in Nat
    BY ScheduleAssumption
  <2> QED BY <2>1, PowerIs DEF MaxDuration
<1>4. ASSUME NEW n \in Int PROVE Round(n) \in Int
  <2> DEFINE T == {u \in Units : n < Mantissas * u} \cup {LargestUnit}
             unit == Min(T)
             q == n \div unit
             r == n % unit
  <2>1. T \in SUBSET Nat /\ T # {} /\ \A u \in T : u \in Nat \ {0}
    BY <1>2
  <2>2. unit \in Nat \ {0}
    <3>1. unit \in T
      <4> HIDE DEF T
      <4> QED BY <2>1, MinIs
    <3> QED BY <2>1, <3>1
  <2>3. Round(n) =
          unit * (IF 2 * r > unit \/ (2 * r = unit /\ q % 2 = 1) THEN q + 1 ELSE q)
    BY DEF Round
  <2> HIDE DEF unit
  <2>4. q \in Int /\ r \in Int
    BY <2>2
  <2> HIDE DEF q, r
  <2> QED BY <2>2, <2>3, <2>4
<1>5. Product(d, factor) \in Int
  BY <1>4 DEF Product
<1> QED BY <1>3, <1>5 DEF ToDuration, One

-----------------------------------------------------------------------------
(* The schedule *)

\* What the loop of openDurationLocked makes of the interval before.
NextScheduled(previous) ==
  LET next == ToDuration(Product(previous, policy.Multiplier))
  IN IF policy.Multiplier = One THEN policy.Initial
     ELSE IF previous = policy.Maximum \/ next <= previous THEN policy.Maximum
     ELSE Min({next, policy.Maximum})

\* The values of a configuration that a breaker was made with.
Configured == policy \in Policies /\ converts \in Int

\* A valid policy.
LEMMA PolicyType ==
  ASSUME Configured
  PROVE  /\ policy.Initial \in Nat /\ policy.Multiplier \in Nat /\ policy.Maximum \in Nat
         /\ policy.Initial <= policy.Maximum
<1>1. /\ policy.Initial \in Durations /\ policy.Maximum \in Durations
      /\ policy.Multiplier \in Multipliers /\ policy.Initial <= policy.Maximum
  BY DEF Configured, Policies
<1>2. Durations \subseteq Nat /\ Multipliers \subseteq Nat
  <2>1. DurationBits - 1 \in Nat
    BY ScheduleAssumption
  <2>2. MaxDuration \in Int
    BY <2>1, PowerIs DEF MaxDuration
  <2> QED BY <2>2, ScheduleAssumption
<1> QED BY <1>1, <1>2

\* The loop stays between Initial and Maximum, and grows until it is capped.
LEMMA NextScheduledGrows ==
  ASSUME Configured, NEW d \in policy.Initial..policy.Maximum
  PROVE  /\ NextScheduled(d) \in policy.Initial..policy.Maximum
         /\ policy.Multiplier > One => NextScheduled(d) > d \/ NextScheduled(d) = policy.Maximum
<1> DEFINE next == ToDuration(Product(d, policy.Multiplier))
<1>1. /\ policy.Initial \in Nat /\ policy.Multiplier \in Nat /\ policy.Maximum \in Nat
      /\ policy.Initial <= policy.Maximum
  BY PolicyType
<1>2. next \in Int
  <2>1. d \in Int /\ policy.Multiplier \in Int /\ converts \in Int
    BY <1>1 DEF Configured
  <2> QED BY <2>1, ProductType
<1>3. NextScheduled(d) =
        IF policy.Multiplier = One THEN policy.Initial
        ELSE IF d = policy.Maximum \/ next <= d THEN policy.Maximum
        ELSE Min({next, policy.Maximum})
  BY DEF NextScheduled
<1> HIDE DEF next
<1>4. Min({next, policy.Maximum}) = IF next <= policy.Maximum THEN next ELSE policy.Maximum
  BY <1>1, <1>2, MinOfTwo
<1> QED BY <1>1, <1>2, <1>3, <1>4 DEF One

\* The recursion of Scheduled, unfolded once.
LEMMA ScheduledIs ==
  ASSUME Configured, NEW n \in 1..MaxOpenings
  PROVE  /\ n = 1 => Scheduled(n) = policy.Initial
         /\ n > 1 => Scheduled(n) = NextScheduled(Scheduled(n - 1))
<1> DEFINE Loop(g) ==
             [k \in 1..MaxOpenings |->
                IF k = 1 \/ policy.Multiplier = One THEN policy.Initial
                ELSE LET previous == g[k - 1]
                         next == ToDuration(Product(previous, policy.Multiplier))
                     IN IF previous = policy.Maximum \/ next <= previous THEN policy.Maximum
                        ELSE Min({next, policy.Maximum})]
           Step == [k \in Nat |-> [d \in Int |-> NextScheduled(d)]]
           F == CHOOSE f : f = Loop(f)
<1>1. policy.Initial \in Int /\ policy.Multiplier \in Int /\ policy.Maximum \in Int
  BY PolicyType
<1>2. ASSUME NEW d \in Int PROVE NextScheduled(d) \in Int
  <2> DEFINE next == ToDuration(Product(d, policy.Multiplier))
  <2>1. next \in Int
    BY <1>1, ProductType DEF Configured
  <2>2. NextScheduled(d) =
          IF policy.Multiplier = One THEN policy.Initial
          ELSE IF d = policy.Maximum \/ next <= d THEN policy.Maximum
          ELSE Min({next, policy.Maximum})
    BY DEF NextScheduled
  <2> HIDE DEF next
  <2>3. Min({next, policy.Maximum}) \in Int
    BY <1>1, <2>1, MinOfTwo
  <2> QED BY <1>1, <2>2, <2>3
<1>3. PICK g : Iterates(g, Int, policy.Initial, Step)
  <2>1. Step \in [Nat -> [Int -> Int]]
    BY <1>2
  <2> HIDE DEF Step
  <2> QED BY <1>1, <2>1, Iteration
<1>4. /\ g \in [Nat -> Int] /\ g[0] = policy.Initial
      /\ \A k \in Nat : g[k + 1] = Step[k][g[k]]
  <2> HIDE DEF Step
  <2> QED BY <1>3 DEF Iterates
<1> DEFINE h == [k \in 1..MaxOpenings |-> g[k - 1]]
<1>5. h = Loop(h)
  <2>1. ASSUME NEW k \in 1..MaxOpenings PROVE h[k] = Loop(h)[k]
    <3>1. CASE k = 1
      BY <3>1, <1>4
    <3>2. CASE k > 1
      <4>1. k - 2 \in Nat /\ (k - 2) + 1 = k - 1 /\ g[k - 2] \in Int
        BY <3>2, <1>4
      <4>2. k - 1 \in 1..MaxOpenings /\ (k - 1) - 1 = k - 2
        BY <3>2, ScheduleAssumption
      <4>3. g[(k - 2) + 1] = Step[k - 2][g[k - 2]]
        BY <4>1, <1>4
      <4>4. g[k - 1] = NextScheduled(g[k - 2])
        BY <4>1, <4>3
      <4>5. h[k] = g[k - 1] /\ h[k - 1] = g[k - 2]
        BY <4>2
      <4>6. h[k] = NextScheduled(h[k - 1])
        BY <4>4, <4>5
      <4> HIDE DEF h
      <4> QED BY <3>2, <4>6 DEF NextScheduled
    <3> QED BY <3>1, <3>2
  <2> QED BY <2>1
<1>6. F = Loop(F)
  <2> HIDE DEF Loop, h
  <2> QED BY <1>5, Zenon
<1>7. \A k : Scheduled(k) = F[k]
  BY DEF Scheduled
<1> HIDE DEF F
<1>8. n = 1 => F[n] = policy.Initial
  BY <1>6
<1>9. ASSUME n > 1 PROVE F[n] = NextScheduled(F[n - 1])
  <2>1. F[n] = Loop(F)[n]
    BY <1>6, Zenon
  <2> QED BY <1>9, <2>1 DEF NextScheduled
<1> QED BY <1>7, <1>8, <1>9

\* Every interval of the schedule lies between Initial and Maximum.
LEMMA ScheduledBounds ==
  ASSUME Configured, NEW n \in 1..MaxOpenings
  PROVE  Scheduled(n) \in policy.Initial..policy.Maximum
<1> DEFINE Good == {k \in Nat : k \in 1..MaxOpenings =>
                                   Scheduled(k) \in policy.Initial..policy.Maximum}
<1>1. 0 \in Good
  OBVIOUS
<1>2. ASSUME NEW k \in Good PROVE k + 1 \in Good
  <2>1. SUFFICES ASSUME k + 1 \in 1..MaxOpenings
                 PROVE  Scheduled(k + 1) \in policy.Initial..policy.Maximum
    OBVIOUS
  <2>2. CASE k = 0
    BY <2>1, <2>2, ScheduledIs, PolicyType
  <2>3. CASE k > 0
    <3>1. k \in 1..MaxOpenings /\ k + 1 > 1 /\ (k + 1) - 1 = k
      BY <2>1, <2>3, ScheduleAssumption
    <3>2. Scheduled(k + 1) = NextScheduled(Scheduled(k))
      BY <2>1, <3>1, ScheduledIs
    <3>3. Scheduled(k) \in policy.Initial..policy.Maximum
      BY <3>1
    <3> QED BY <3>2, <3>3, NextScheduledGrows
  <2> QED BY <2>2, <2>3
<1>3. \A k \in Nat : k \in Good
  <2>1. Good \in SUBSET Nat
    OBVIOUS
  <2> HIDE DEF Good
  <2> QED BY <1>1, <1>2, <2>1, SetInduction
<1> QED BY <1>3

\* The interval in force is the one the schedule has for the opening.
InSchedule ==
  /\ Configured
  /\ openCount \in 0..MaxOpenings
  /\ \A n \in 1..MaxOpenings : openCount = n => scheduled = Scheduled(n)

\* Init and every opening and closing keep to the schedule.
LEMMA InScheduleKept == Spec => []InSchedule
<1>1. Init => InSchedule
  <2>1. MinDuration \in Int /\ MaxDuration \in Int
    <3>1. DurationBits - 1 \in Nat
      BY ScheduleAssumption
    <3> QED BY <3>1, PowerIs DEF MinDuration, MaxDuration
  <2> QED BY <2>1, ScheduleAssumption DEF Init, InSchedule, Configured
<1>2. InSchedule /\ [Next]_vars => InSchedule'
  <2> SUFFICES ASSUME InSchedule, [Next]_vars PROVE InSchedule'
    OBVIOUS
  <2>1. UNCHANGED <<converts, policy>> => Configured'
    BY DEF InSchedule, Configured, Policies
  <2>2. ASSUME UNCHANGED <<converts, policy>>, NEW n PROVE Scheduled(n)' = Scheduled(n)
    BY <2>2 DEF Scheduled, ToDuration
  <2>3. ASSUME NEW sixteenths \in 0..jitter, Open(sixteenths) PROVE InSchedule'
    <3>1. /\ openCount' = openCount + 1 /\ openCount < MaxOpenings
          /\ scheduled' = Scheduled(openCount + 1) /\ UNCHANGED <<converts, policy>>
      BY <2>3 DEF Open
    <3>2. openCount' \in 0..MaxOpenings
      BY <3>1, ScheduleAssumption DEF InSchedule
    <3>3. ASSUME NEW n \in 1..MaxOpenings, openCount' = n PROVE scheduled' = Scheduled(n)'
      BY <2>2, <3>1, <3>3
    <3> QED BY <2>1, <3>1, <3>2, <3>3 DEF InSchedule
  <2>4. CASE Close
    BY <2>1, <2>4, ScheduleAssumption DEF Close, InSchedule
  <2>5. CASE UNCHANGED vars
    BY <2>1, <2>2, <2>5 DEF vars, InSchedule
  <2> QED BY <2>3, <2>4, <2>5 DEF Next
<1> QED BY <1>1, <1>2, PTL DEF Spec

(***************************************************************************)
(* openDurationLocked, with the roundings and conversions of the machine:  *)
(* whatever the widths, the policy and the platform, the intervals of      *)
(* consecutive openings grow until they are at the cap, and stay in range. *)
(***************************************************************************)
THEOREM ScheduleAlwaysGrows == Spec => ScheduleGrows
<1> DEFINE Grows ==
             openCount' = openCount + 1 =>
               /\ scheduled' \in policy.Initial..policy.Maximum
               /\ openCount > 0 /\ policy.Multiplier > One =>
                    scheduled' > scheduled \/ scheduled' = policy.Maximum
<1>1. InSchedule /\ [Next]_vars => [Grows]_vars
  <2> SUFFICES ASSUME InSchedule, Next, openCount' = openCount + 1 PROVE Grows
    OBVIOUS
  <2>1. openCount \in Nat /\ Configured
    BY ScheduleAssumption DEF InSchedule
  <2>2. PICK sixteenths \in 0..jitter : Open(sixteenths)
    BY <2>1 DEF Next, Close
  <2>3. openCount + 1 \in 1..MaxOpenings /\ scheduled' = Scheduled(openCount + 1)
    BY <2>1, <2>2, ScheduleAssumption DEF Open
  <2>4. scheduled' \in policy.Initial..policy.Maximum
    BY <2>1, <2>3, ScheduledBounds
  <2>5. ASSUME openCount > 0, policy.Multiplier > One
        PROVE  scheduled' > scheduled \/ scheduled' = policy.Maximum
    <3>1. openCount \in 1..MaxOpenings /\ openCount + 1 > 1 /\ (openCount + 1) - 1 = openCount
      BY <2>1, <2>5 DEF InSchedule
    <3>2. scheduled' = NextScheduled(scheduled)
      BY <2>1, <2>3, <2>5, <3>1, ScheduledIs DEF InSchedule
    <3>3. scheduled \in policy.Initial..policy.Maximum
      BY <2>1, <2>5, <3>1, ScheduledBounds DEF InSchedule
    <3> QED BY <2>1, <2>5, <3>2, <3>3, NextScheduledGrows
  <2> QED BY <2>4, <2>5
<1> QED BY <1>1, InScheduleKept, PTL DEF Spec, ScheduleGrows

-----------------------------------------------------------------------------
(* Jitter *)

\* The powers of two up to sixteen.
LEMMA SmallPowers ==
  /\ Power[4] = 16
  /\ \A e \in Nat : Power[e] <= 16 => Power[e] \in {1, 2, 4, 8, 16}
<1> DEFINE Large == {e \in Nat : Power[e + 5] >= 32}
<1>1. /\ Power[0 + 1] = 2 * Power[0] /\ Power[1 + 1] = 2 * Power[1]
      /\ Power[2 + 1] = 2 * Power[2] /\ Power[3 + 1] = 2 * Power[3]
      /\ Power[4 + 1] = 2 * Power[4] /\ Power[0] = 1
  BY PowerIs
<1>2. /\ Power[0] = 1 /\ Power[1] = 2 /\ Power[2] = 4
      /\ Power[3] = 8 /\ Power[4] = 16 /\ Power[5] = 32
  BY <1>1
<1>3. \A e \in Nat : e \in Large
  <2>1. 0 \in Large
    BY <1>2
  <2>2. ASSUME NEW e \in Large PROVE e + 1 \in Large
    <3>1. e + 5 \in Nat /\ (e + 5) + 1 = (e + 1) + 5
      OBVIOUS
    <3>2. Power[(e + 5) + 1] = 2 * Power[e + 5] /\ Power[e + 5] \in Nat
      BY <3>1, PowerIs
    <3> QED BY <3>1, <3>2
  <2>3. Large \in SUBSET Nat
    OBVIOUS
  <2> HIDE DEF Large
  <2> QED BY <2>1, <2>2, <2>3, SetInduction
<1>4. ASSUME NEW e \in Nat, Power[e] <= 16 PROVE Power[e] \in {1, 2, 4, 8, 16}
  <2>1. CASE e >= 5
    <3>1. e - 5 \in Nat /\ (e - 5) + 5 = e
      BY <2>1
    <3>2. Power[(e - 5) + 5] >= 32
      BY <1>3, <3>1
    <3>3. Power[e] \in Nat /\ Power[e] >= 32
      BY <3>1, <3>2, PowerIs
    <3> QED BY <1>4, <3>3
  <2>2. CASE e < 5
    BY <1>2, <2>2
  <2> QED BY <2>1, <2>2
<1> QED BY <1>2, <1>4

\* What rounding does with a number of at most MantissaBits + 4 bits.
LEMMA RoundIs ==
  ASSUME NEW x \in Nat, x < Mantissas * One
  PROVE  \E unit \in {1, 2, 4, 8, 16} :
           /\ x < Mantissas => unit = 1
           /\ \E q \in Nat, r \in 0..(unit - 1), up \in {0, 1} :
                x = unit * q + r /\ (r = 0 => up = 0) /\ Round(x) = unit * (q + up)
<1> DEFINE T == {u \in Units : x < Mantissas * u} \cup {LargestUnit}
           unit == Min(T)
           q == x \div unit
           r == x % unit
           up == IF 2 * r > unit \/ (2 * r = unit /\ q % 2 = 1) THEN 1 ELSE 0
<1>1. DurationBits \in Nat /\ DurationBits >= 4 /\ MantissaBits \in Nat
  BY ScheduleAssumption
<1>2. Units \subseteq Nat \ {0} /\ LargestUnit \in Units /\ Mantissas \in Nat
  <2>1. 2 * DurationBits \in 0..(2 * DurationBits)
    BY <1>1
  <2> QED BY <1>1, <2>1, PowerIs DEF Units, LargestUnit, Mantissas
<1>3. T \in SUBSET Nat /\ T \subseteq Units
  BY <1>2
<1>4. 16 \in T /\ (x < Mantissas => 1 \in T)
  <2>1. 0 \in 0..(2 * DurationBits) /\ 4 \in 0..(2 * DurationBits)
    BY <1>1
  <2>2. 1 \in Units /\ 16 \in Units
    BY <2>1, PowerIs, SmallPowers DEF Units
  <2> QED BY <1>2, <2>2 DEF One
<1>5. unit \in T /\ \A y \in T : unit <= y
  <2> HIDE DEF T
  <2> QED BY <1>3, <1>4, MinIs
<1> HIDE DEF T, unit
<1>6. unit \in {1, 2, 4, 8, 16} /\ (x < Mantissas => unit = 1)
  <2>1. unit \in Units /\ unit <= 16 /\ unit \in Nat \ {0} /\ (x < Mantissas => unit <= 1)
    BY <1>2, <1>3, <1>4, <1>5
  <2>2. PICK e \in Nat : unit = Power[e]
    BY <1>1, <2>1 DEF Units
  <2>3. unit \in {1, 2, 4, 8, 16}
    BY <2>1, <2>2, SmallPowers
  <2> QED BY <2>1, <2>3
<1>7. q \in Nat /\ r \in 0..(unit - 1) /\ x = unit * q + r
  <2>1. CASE unit = 1
    BY <2>1
  <2>2. CASE unit = 2
    BY <2>2
  <2>3. CASE unit = 4
    BY <2>3
  <2>4. CASE unit = 8
    BY <2>4
  <2>5. CASE unit = 16
    BY <2>5
  <2> QED BY <1>6, <2>1, <2>2, <2>3, <2>4, <2>5
<1>8. Round(x) = unit * (IF 2 * r > unit \/ (2 * r = unit /\ q % 2 = 1) THEN q + 1 ELSE q)
  BY DEF Round, unit, T
<1>9. up \in {0, 1} /\ (r = 0 => up = 0) /\ Round(x) = unit * (q + up)
  <2> HIDE DEF q, r
  <2>1. unit \in Nat /\ unit > 0
    BY <1>6
  <2>2. up \in {0, 1} /\ (r = 0 => up = 0)
    BY <1>7, <2>1
  <2>3. (IF 2 * r > unit \/ (2 * r = unit /\ q % 2 = 1) THEN q + 1 ELSE q) = q + up
    BY <1>7
  <2> QED BY <1>8, <2>2, <2>3
<1> HIDE DEF q, r, up
<1> QED BY <1>6, <1>7, <1>9

\* A duration that the mantissa holds loses nothing, and its product with a
\* factor of at most one is rounded to no more than the duration.
LEMMA RoundsBelow ==
  ASSUME NEW d \in Nat, d < Mantissas, NEW factor \in 0..One
  PROVE  Product(d, factor) \in Nat /\ Product(d, factor) <= One * d
<1>1. Mantissas \in Nat
  BY PowerIs, ScheduleAssumption DEF Mantissas
<1>2. Round(d) = d
  BY <1>1, RoundIs DEF One
<1> DEFINE x == d * factor
<1>3. x \in Nat /\ x <= One * d /\ x < Mantissas * One
  <2>1. d * factor \in Nat /\ d * factor <= d * 16
    BY DEF One
  <2> QED BY <1>1, <2>1 DEF One
<1> HIDE DEF x
<1>4. PICK unit \in {1, 2, 4, 8, 16} :
        \E q \in Nat, r \in 0..(unit - 1), up \in {0, 1} :
          x = unit * q + r /\ (r = 0 => up = 0) /\ Round(x) = unit * (q + up)
  BY <1>3, RoundIs
<1>5. PICK q \in Nat, r \in 0..(unit - 1), up \in {0, 1} :
        x = unit * q + r /\ (r = 0 => up = 0) /\ Round(x) = unit * (q + up)
  BY <1>4
<1>6. Round(x) \in Nat /\ Round(x) <= 16 * d
  <2>1. CASE unit = 1
    BY <1>3, <1>5, <2>1 DEF One
  <2>2. CASE unit = 2
    BY <1>3, <1>5, <2>2 DEF One
  <2>3. CASE unit = 4
    BY <1>3, <1>5, <2>3 DEF One
  <2>4. CASE unit = 8
    BY <1>3, <1>5, <2>4 DEF One
  <2>5. CASE unit = 16
    BY <1>3, <1>5, <2>5 DEF One
  <2> QED BY <2>1, <2>2, <2>3, <2>4, <2>5
<1> QED BY <1>2, <1>6 DEF Product, One, x

\* The interval in force: never empty, and not longer than the schedule says
\* while a float holds what the schedule says.
ShortensExact ==
  openCount > 0 =>
    /\ currentOpenDuration >= 1
    /\ scheduled < Mantissas => currentOpenDuration <= scheduled

Shortened == jitter \in Jitters /\ ShortensExact

(***************************************************************************)
(* jitterDuration, with the roundings and conversions of the machine: an   *)
(* open interval is never empty, on either platform, and jitter only       *)
(* shortens the intervals that a float holds exactly (below 2^53           *)
(* nanoseconds, 104 days).  JitterOnlyShortens, without that condition, is *)
(* what run schedule_jitter refutes.                                       *)
(***************************************************************************)
THEOREM JitterShortensExact == Spec => []ShortensExact
<1>1. Init => Shortened
  BY DEF Init, Shortened, ShortensExact
<1>2. InSchedule /\ Shortened /\ [Next]_vars => Shortened'
  <2> SUFFICES ASSUME InSchedule, Shortened, [Next]_vars PROVE Shortened'
    OBVIOUS
  <2>1. ASSUME NEW sixteenths \in 0..jitter, Open(sixteenths) PROVE Shortened'
    <3> DEFINE d == Scheduled(openCount + 1)
               jittered == ToDuration(Product(d, One - sixteenths))
    <3>1. /\ scheduled' = d /\ jitter' = jitter /\ openCount + 1 \in 1..MaxOpenings
          /\ currentOpenDuration' =
               IF jitter = 0 THEN d ELSE IF jittered <= 0 THEN 1 ELSE jittered
      BY <2>1, ScheduleAssumption DEF Open, JitterDuration, InSchedule
    <3>2. jitter \in 0..15 /\ sixteenths \in 0..15 /\ One - sixteenths \in 0..One
      BY ScheduleAssumption DEF Shortened, One
    <3>3. d \in Nat /\ d >= 1 /\ d <= MaxDuration /\ MaxDuration \in Nat
      <4>1. d \in policy.Initial..policy.Maximum
        BY <3>1, ScheduledBounds DEF InSchedule
      <4>2. DurationBits - 1 \in Nat
        BY ScheduleAssumption
      <4>3. MaxDuration \in Nat
        BY <4>2, PowerIs DEF MaxDuration
      <4>4. policy.Initial \in 1..MaxDuration /\ policy.Maximum \in 1..MaxDuration
        <5>1. policy.Initial \in Durations /\ policy.Maximum \in Durations
          BY DEF InSchedule, Configured, Policies
        <5> QED BY <5>1, ScheduleAssumption
      <4> HIDE DEF d
      <4> QED BY <4>1, <4>3, <4>4
    <3>4. jittered \in Int
      <4>1. converts \in Int /\ One - sixteenths \in Int
        BY <3>2 DEF InSchedule, Configured, One
      <4> HIDE DEF d
      <4> QED BY <3>3, <4>1, ProductType
    <3>5. ASSUME d < Mantissas PROVE jittered <= d
      <4>1. Product(d, One - sixteenths) \in Nat /\ Product(d, One - sixteenths) <= One * d
        <5> HIDE DEF d
        <5> QED BY <3>2, <3>3, <3>5, RoundsBelow
      <4>2. Product(d, One - sixteenths) \div One <= d
        <5> DEFINE x == Product(d, One - sixteenths)
        <5> HIDE DEF x, d
        <5>1. x \in Nat /\ x <= 16 * d /\ d \in Nat
          BY <3>3, <4>1 DEF x, One
        <5>2. x \div 16 <= d
          BY <5>1
        <5> QED BY <5>2 DEF x, One
      <4> HIDE DEF d
      <4>3. Product(d, One - sixteenths) \div One \in Int
        BY <4>1 DEF One
      <4> QED BY <3>3, <4>2, <4>3 DEF ToDuration
    <3> HIDE DEF d, jittered
    <3>6. /\ currentOpenDuration' >= 1
          /\ d < Mantissas => currentOpenDuration' <= d
      BY <3>1, <3>3, <3>4, <3>5
    <3> QED BY <3>1, <3>6 DEF Shortened, ShortensExact, Mantissas
  <2>2. CASE Close
    BY <2>2 DEF Close, Shortened, ShortensExact
  <2>3. CASE UNCHANGED vars
    BY <2>3 DEF vars, Shortened, ShortensExact
  <2> QED BY <2>1, <2>2, <2>3 DEF Next
<1>3. Shortened => ShortensExact
  BY DEF Shortened
<1> QED BY <1>1, <1>2, <1>3, InScheduleKept, PTL DEF Spec

-----------------------------------------------------------------------------
(* Division *)

\* Division with remainder.
LEMMA DivIs ==
  ASSUME NEW x \in Int, NEW d \in Nat \ {0}
  PROVE  /\ x \div d \in Int /\ x % d \in 0..(d - 1)
         /\ x = d * (x \div d) + (x % d)
<1>1. x \div d \in Int /\ x % d \in Int /\ x % d \in 0..(d - 1)
  OBVIOUS
<1>2. x = d * (x \div d) + (x % d)
  OBVIOUS
<1> QED BY <1>1, <1>2

\* A product with a positive number is not less than it.
LEMMA Multiple ==
  ASSUME NEW d \in Nat, NEW k \in Int
  PROVE  /\ d * k \in Int
         /\ k > 0 => d * k >= d
         /\ k >= 0 => d * k >= 0
         /\ k < 0 => d * k <= -d
OBVIOUS

\* The quotient and the remainder are the only ones.
LEMMA DivUnique ==
  ASSUME NEW x \in Int, NEW d \in Nat \ {0}, NEW q \in Int, NEW r \in 0..(d - 1),
         x = d * q + r
  PROVE  x \div d = q /\ x % d = r
<1> DEFINE Q == x \div d
           R == x % d
<1>1. Q \in Int /\ R \in 0..(d - 1) /\ x = d * Q + R
  BY DivIs
<1> HIDE DEF Q, R
<1>2. d * (Q - q) = r - R
  BY <1>1
<1>3. Q - q = 0
  <2>1. CASE Q - q > 0
    <3>1. d * (Q - q) >= d
      BY <1>1, <2>1, Multiple
    <3> QED BY <1>1, <1>2, <3>1
  <2>2. CASE Q - q < 0
    <3>1. d * (Q - q) <= -d
      BY <1>1, <2>2, Multiple
    <3> QED BY <1>1, <1>2, <3>1
  <2> QED BY <1>1, <2>1, <2>2
<1>4. Q = q
  BY <1>1, <1>3
<1>5. R = r
  BY <1>1, <1>4
<1> QED BY <1>4, <1>5 DEF Q, R

-----------------------------------------------------------------------------
(* Words *)

\* The range of words, and that a second of nanoseconds fits.
LEMMA WordsAre ==
  /\ MaxInt \in Nat \ {0} /\ MinInt = -MaxInt - 1 /\ Base = 2 * MaxInt + 2
  /\ NanosecondsPerSecond \in 1..MaxInt
<1>1. WordBits - 2 \in Nat /\ WordBits - 1 \in Nat
      /\ (WordBits - 2) + 1 = WordBits - 1 /\ (WordBits - 1) + 1 = WordBits
  BY BucketIDAssumption
<1> DEFINE a == Power[WordBits - 2]
           b == Power[WordBits - 1]
           c == Power[WordBits]
<1>2. a \in Nat \ {0} /\ b \in Nat
  BY <1>1, PowerIs
<1>3. b = 2 * a
  <2>1. Power[(WordBits - 2) + 1] = 2 * Power[WordBits - 2]
    BY <1>1, PowerIs
  <2> QED BY <1>1, <2>1
<1>4. c = 2 * b
  <2>1. Power[(WordBits - 1) + 1] = 2 * Power[WordBits - 1]
    BY <1>1, PowerIs
  <2> QED BY <1>1, <2>1
<1>5. MaxInt = b - 1 /\ MinInt = -b /\ Base = c /\ NanosecondsPerSecond \in 1..(b - 1)
  BY BucketIDAssumption DEF MaxInt, MinInt, Base
<1> HIDE DEF a, b, c
<1> QED BY <1>2, <1>3, <1>4, <1>5

\* A number that fits is its own conversion.
LEMMA UintIs ==
  ASSUME NEW x \in 0..(Base - 1)
  PROVE  Uint(x) = x
<1>1. Base \in Nat \ {0} /\ x \in Int /\ x = Base * 0 + x
  BY WordsAre
<1>2. x % Base = x
  BY <1>1, DivUnique
<1> QED BY <1>2 DEF Uint

\* The same for signed words.
LEMMA SignedIs ==
  ASSUME NEW x \in MinInt..MaxInt
  PROVE  Signed(x) = x
<1>1. Base \in Nat \ {0} /\ MinInt \in Int /\ x - MinInt \in 0..(Base - 1)
  BY WordsAre
<1>2. (x - MinInt) % Base = x - MinInt
  BY <1>1, UintIs DEF Uint
<1> QED BY <1>1, <1>2 DEF Signed

\* The integer that the two words of an identity are.
Magnitude(id) == id.high * Base + id.low

\* Identities in which zero has no sign.
Proper(id) == id \in ID /\ (id.negative => id.high > 0 \/ id.low > 0)

\* The identities the window computes: there is room to add a count.
Canonical(id) == Proper(id) /\ id.high <= MaxInt + 1

\* A magnitude is a number, and determines its words and their order.
LEMMA MagnitudeOrder ==
  ASSUME NEW h \in Nat, NEW l \in 0..(Base - 1), NEW i \in Nat, NEW m \in 0..(Base - 1)
  PROVE  /\ h * Base + l \in Nat
         /\ h < i => h * Base + l < i * Base + m
         /\ h = i => (h * Base + l) - (i * Base + m) = l - m
<1>1. Base \in Nat \ {0} /\ l \in Nat /\ m \in Nat
  BY WordsAre
<1>2. h * Base \in Nat /\ i * Base \in Nat
  BY <1>1
<1>3. ASSUME h < i PROVE h * Base + l < i * Base + m
  <2>1. Base * (i - h) >= Base
    BY <1>1, <1>3, Multiple
  <2>2. i * Base - h * Base = Base * (i - h)
    BY <1>1
  <2> QED BY <1>1, <1>2, <2>1, <2>2
<1>4. ASSUME h = i PROVE (h * Base + l) - (i * Base + m) = l - m
  BY <1>1, <1>2, <1>4
<1> QED BY <1>1, <1>2, <1>3, <1>4

\* The integer an identity stands for.
LEMMA ValueIs ==
  ASSUME NEW id \in ID
  PROVE  /\ Magnitude(id) \in Nat
         /\ Value(id) = IF id.negative THEN -Magnitude(id) ELSE Magnitude(id)
<1>1. id.high \in Nat /\ id.low \in 0..(Base - 1)
  BY WordsAre DEF ID
<1>2. Magnitude(id) \in Nat
  BY <1>1, MagnitudeOrder DEF Magnitude
<1>3. Value(id) = (IF id.negative THEN -1 ELSE 1) * Magnitude(id)
  BY DEF Value, Magnitude
<1> QED BY <1>2, <1>3

-----------------------------------------------------------------------------
(* From a timestamp to its bucket *)

\* bucketIDFromInt64 is the identity of every signed word, the least included.
LEMMA Int64Is ==
  ASSUME NEW v \in MinInt..MaxInt
  PROVE  Canonical(BucketIDFromInt64(v)) /\ Value(BucketIDFromInt64(v)) = v
<1> DEFINE id == BucketIDFromInt64(v)
<1>1. MaxInt \in Nat /\ MinInt = -MaxInt - 1 /\ Base = 2 * MaxInt + 2
  BY WordsAre
<1>2. CASE v >= 0
  <2>1. Uint(v) = v
    BY <1>1, <1>2, UintIs
  <2>2. id = [negative |-> FALSE, high |-> 0, low |-> v]
    BY <1>2, <2>1 DEF BucketIDFromInt64
  <2> HIDE DEF id
  <2>3. Canonical(id)
    BY <1>1, <1>2, <2>2 DEF Canonical, Proper, ID
  <2>4. Value(id) = v
    BY <1>1, <1>2, <2>2 DEF Value
  <2> QED BY <2>3, <2>4 DEF id
<1>3. CASE v < 0
  <2>1. -(v + 1) \in 0..(Base - 1) /\ -(v + 1) + 1 = -v /\ -v \in 1..(Base - 1)
    BY <1>1, <1>3
  <2>2. Uint(-(v + 1)) = -(v + 1)
    BY <2>1, UintIs
  <2>3. Uint(Uint(-(v + 1)) + 1) = -v
    <3>1. Uint(-v) = -v
      BY <1>1, <2>1, UintIs
    <3> QED BY <2>1, <2>2, <3>1
  <2>4. ~(v >= 0)
    BY <1>1, <1>3
  <2>5. id = [negative |-> TRUE, high |-> 0, low |-> -v]
    BY <2>3, <2>4 DEF BucketIDFromInt64
  <2> HIDE DEF id
  <2>6. Canonical(id)
    BY <1>1, <1>3, <2>1, <2>5 DEF Canonical, Proper, ID
  <2>7. Value(id) = v
    BY <1>1, <1>3, <2>5 DEF Value
  <2> QED BY <2>6, <2>7 DEF id
<1> QED BY <1>1, <1>2, <1>3

\* The seconds at the ends of the signed words of nanoseconds.
LEMMA EndsAre ==
  /\ MinimumSecond \in Int /\ MinimumNanosecond \in 0..(NanosecondsPerSecond - 1)
  /\ MinInt = NanosecondsPerSecond * MinimumSecond + MinimumNanosecond
  /\ MaximumSecond \in Int /\ MaximumNanosecond \in 0..(NanosecondsPerSecond - 1)
  /\ MaxInt = NanosecondsPerSecond * MaximumSecond + MaximumNanosecond
<1>1. MinInt \in Int /\ MaxInt \in Int /\ NanosecondsPerSecond \in Nat \ {0}
  BY WordsAre
<1> QED BY <1>1, DivIs DEF MinimumSecond, MinimumNanosecond, MaximumSecond, MaximumNanosecond

\* Where unixNanoseconds is used, it fits a word and is exact.
LEMMA UnixNanosecondsIs ==
  ASSUME NEW at \in Timestamp, ExactUnixNanoseconds(at)
  PROVE  Instant(at) \in MinInt..MaxInt /\ UnixNanoseconds(at) = Instant(at)
<1> DEFINE N == NanosecondsPerSecond
           s == at.seconds
           n == at.nanoseconds
           low == MinimumSecond
           high == MaximumSecond
           p == N * s
           pl == N * low
           ph == N * high
<1>1. /\ MaxInt \in Nat /\ MinInt = -MaxInt - 1 /\ N \in 1..MaxInt
      /\ s \in Int /\ n \in 0..(N - 1) /\ s \in low..high
  BY WordsAre, EndsAre DEF Timestamp, ExactUnixNanoseconds
<1>2. /\ low \in Int /\ MinimumNanosecond \in 0..(N - 1)
      /\ high \in Int /\ MaximumNanosecond \in 0..(N - 1)
      /\ MinInt = pl + MinimumNanosecond /\ MaxInt = ph + MaximumNanosecond
  BY EndsAre
<1>3. Instant(at) = p + n
  BY <1>1 DEF Instant
<1>4. /\ p \in Int /\ pl \in Int /\ ph \in Int
      /\ s > low => p >= pl + N
      /\ s < high => p <= ph - N
  <2>1. p \in Int /\ pl \in Int /\ ph \in Int
    BY <1>1, <1>2
  <2>2. p - pl = N * (s - low) /\ ph - p = N * (high - s)
    BY <1>1, <1>2
  <2>3. ASSUME s > low PROVE N * (s - low) >= N
    BY <1>1, <1>2, <2>3, Multiple
  <2>4. ASSUME s < high PROVE N * (high - s) >= N
    BY <1>1, <1>2, <2>4, Multiple
  <2> HIDE DEF p, pl, ph
  <2> QED BY <1>1, <1>2, <2>1, <2>2, <2>3, <2>4
<1>5. s = low => p = pl
  OBVIOUS
<1>6. s = high => p = ph
  OBVIOUS
<1>7. /\ s = low => n >= MinimumNanosecond
      /\ s = high => n <= MaximumNanosecond
  BY DEF ExactUnixNanoseconds
<1>8. UnixNanoseconds(at) =
        IF s = low THEN MinInt + (n - MinimumNanosecond)
        ELSE IF s = high THEN MaxInt - (MaximumNanosecond - n)
        ELSE Signed(Signed(p) + n)
  BY <1>1 DEF UnixNanoseconds
<1> HIDE DEF p, pl, ph, s, n, low, high, N
<1>9. CASE s = low
  <2>1. low < high \/ low = high
    BY <1>1, <1>2
  <2>2. p + n = MinInt + (n - MinimumNanosecond) /\ MinInt <= p + n
    BY <1>1, <1>2, <1>4, <1>5, <1>7, <1>9
  <2>3. p + n <= MaxInt
    BY <1>1, <1>2, <1>4, <1>5, <1>6, <1>7, <1>9, <2>1
  <2> QED BY <1>1, <1>2, <1>3, <1>4, <1>8, <1>9, <2>2, <2>3
<1>10. CASE s # low /\ s = high
  BY <1>1, <1>2, <1>3, <1>4, <1>6, <1>7, <1>8, <1>10
<1>11. CASE s # low /\ s # high
  <2>1. p \in MinInt..MaxInt /\ p + n \in MinInt..MaxInt
    BY <1>1, <1>2, <1>4, <1>11
  <2>2. Signed(p) = p /\ Signed(p + n) = p + n
    BY <2>1, SignedIs
  <2> QED BY <1>3, <1>8, <1>11, <2>1, <2>2
<1> QED BY <1>9, <1>10, <1>11

\* The correction of Go's truncating division is the floor, and fits a word.
LEMMA QuoFloor ==
  ASSUME NEW x \in MinInt..MaxInt, NEW d \in Nat \ {0}
  PROVE  /\ (IF x < 0 /\ Rem(x, d) # 0 THEN Signed(Quo(x, d) - 1) ELSE Quo(x, d)) = x \div d
         /\ x \div d \in MinInt..MaxInt
         /\ x < 0 => x \div d < 0
<1>1. MaxInt \in Nat /\ MinInt = -MaxInt - 1 /\ x \in Int
  BY WordsAre
<1>2. CASE x >= 0
  <2> DEFINE q == x \div d
             r == x % d
  <2>1. q \in Int /\ r \in 0..(d - 1) /\ x = d * q + r
    BY <1>1, DivIs
  <2>2. Quo(x, d) = q
    BY <1>1, <1>2 DEF Quo
  <2> HIDE DEF q, r
  <2>3. q >= 0
    <3>1. q < 0 => d * q <= -d
      BY <2>1, Multiple
    <3> QED BY <1>1, <1>2, <2>1, <3>1
  <2>4. q <= d * q
    <3>1. d * q - q = (d - 1) * q /\ d - 1 \in Nat
      BY <2>1
    <3>2. (d - 1) * q >= 0
      BY <2>1, <2>3, <3>1, Multiple
    <3>3. d * q \in Int
      BY <2>1
    <3> QED BY <2>1, <3>1, <3>2, <3>3
  <2>5. q \in MinInt..MaxInt
    <3>1. d * q \in Int
      BY <2>1
    <3> QED BY <1>1, <2>1, <2>3, <2>4, <3>1
  <2> QED BY <1>1, <1>2, <2>2, <2>5 DEF q
<1>3. CASE x < 0
  <2> DEFINE y == -x
             q == y \div d
             r == y % d
  <2>1. y \in Int /\ q \in Int /\ r \in 0..(d - 1) /\ y = d * q + r /\ y > 0 /\ x = -y
    BY <1>1, <1>3, DivIs
  <2>2. Quo(x, d) = -q
    BY <1>3 DEF Quo
  <2> HIDE DEF q, r, y
  <2> DEFINE p == d * q
  <2>3. p \in Int /\ y = p + r
    BY <2>1
  <2>4. Rem(x, d) = -r
    <3>1. Rem(x, d) = x - (-q) * d
      BY <2>2 DEF Rem
    <3>2. (-q) * d = -p
      BY <2>1
    <3> QED BY <2>1, <2>3, <3>1, <3>2
  <2>5. q >= 0 /\ q <= p
    <3>1. q < 0 => d * q <= -d
      BY <2>1, Multiple
    <3>2. q >= 0
      BY <2>1, <2>3, <3>1
    <3>3. d * q - q = (d - 1) * q /\ d - 1 \in Nat
      BY <2>1
    <3>4. (d - 1) * q >= 0
      BY <2>1, <3>2, <3>3, Multiple
    <3> QED BY <2>1, <2>3, <3>2, <3>3, <3>4
  <2>6. CASE r = 0
    <3>1. x = d * (-q) + 0 /\ 0 \in 0..(d - 1) /\ -q \in Int
      <4>1. d * (-q) = -p
        BY <2>1
      <4> QED BY <2>1, <2>3, <2>6, <4>1
    <3>2. x \div d = -q
      BY <1>1, <3>1, DivUnique
    <3>3. -q \in MinInt..MaxInt /\ -q < 0
      <4>1. q # 0
        <5>1. q = 0 => p = 0
          BY <2>1
        <5> QED BY <2>1, <2>3, <2>6, <5>1
      <4> QED BY <1>1, <2>1, <2>3, <2>5, <2>6, <4>1
    <3> QED BY <2>1, <2>2, <2>4, <2>6, <3>2, <3>3
  <2>7. CASE r # 0
    <3>1. x = d * (-q - 1) + (d - r) /\ d - r \in 0..(d - 1) /\ -q - 1 \in Int
      <4>1. d * (-q - 1) = -p - d
        BY <2>1
      <4> QED BY <2>1, <2>3, <2>7, <4>1
    <3>2. x \div d = -q - 1
      BY <1>1, <3>1, DivUnique
    <3>3. -q - 1 \in MinInt..MaxInt /\ -q - 1 < 0
      BY <1>1, <2>1, <2>3, <2>5, <2>7
    <3>4. Signed(-q - 1) = -q - 1
      BY <3>3, SignedIs
    <3>5. Rem(x, d) # 0
      BY <2>1, <2>4, <2>7
    <3> QED BY <1>3, <2>2, <3>2, <3>3, <3>4, <3>5
  <2> QED BY <2>6, <2>7
<1> QED BY <1>1, <1>2, <1>3

\* The fast path.
LEMMA NarrowIs ==
  ASSUME NEW at \in Timestamp, NEW d \in Nat \ {0}, ExactUnixNanoseconds(at)
  PROVE  /\ Canonical(NarrowBucketIDAt(at, d))
         /\ Value(NarrowBucketIDAt(at, d)) = Instant(at) \div d
<1> DEFINE x == Instant(at)
<1>1. x \in MinInt..MaxInt /\ UnixNanoseconds(at) = x
  BY UnixNanosecondsIs
<1> HIDE DEF x
<1>2. NarrowBucketIDAt(at, d) = BucketIDFromInt64(x \div d)
  BY <1>1, QuoFloor DEF NarrowBucketIDAt
<1>3. x \div d \in MinInt..MaxInt
  BY <1>1, QuoFloor
<1> QED BY <1>2, <1>3, Int64Is DEF x

\* bits.Add64 with a carry adds, where the sum fits two words.
LEMMA AddIs ==
  ASSUME NEW h \in 0..(MaxInt + 1), NEW l \in 0..(Base - 1), NEW v \in 0..(Base - 1),
         NEW w, w.high = h, w.low = l
  PROVE  \E i \in 0..(h + 1), m \in 0..(Base - 1) :
           /\ Add128(w, v) = [high |-> i, low |-> m]
           /\ i * Base + m = h * Base + l + v
<1>1. MaxInt \in Nat \ {0} /\ Base = 2 * MaxInt + 2 /\ Base \in Nat \ {0}
  BY WordsAre
<1>2. l + v \in Int /\ h \in Nat /\ h * Base \in Int
  BY <1>1
<1>3. CASE l + v < Base
  <2>1. l + v \in 0..(Base - 1) /\ h \in 0..(Base - 1) /\ l + v = Base * 0 + (l + v)
    BY <1>1, <1>3
  <2>2. (l + v) \div Base = 0
    BY <1>1, <1>2, <2>1, DivUnique
  <2>3. Uint(l + v) = l + v /\ Uint(h + 0) = h
    BY <2>1, UintIs
  <2>4. Add128(w, v) = [high |-> h, low |-> l + v]
    BY <2>2, <2>3 DEF Add128
  <2>5. h * Base + (l + v) = h * Base + l + v
    BY <1>1, <1>2
  <2>6. h \in 0..(h + 1)
    BY <1>2
  <2> QED BY <2>1, <2>4, <2>5, <2>6
<1>4. CASE l + v >= Base
  <2>1. /\ l + v - Base \in 0..(Base - 1) /\ h + 1 \in 0..(Base - 1)
        /\ l + v = Base * 1 + (l + v - Base)
    BY <1>1, <1>4
  <2>2. (l + v) \div Base = 1 /\ (l + v) % Base = l + v - Base
    BY <1>1, <1>2, <2>1, DivUnique
  <2>3. Uint(l + v) = l + v - Base /\ Uint(h + 1) = h + 1
    BY <2>1, <2>2, UintIs DEF Uint
  <2>4. Add128(w, v) = [high |-> h + 1, low |-> l + v - Base]
    BY <2>2, <2>3 DEF Add128
  <2>5. (h + 1) * Base + (l + v - Base) = h * Base + l + v
    BY <1>1, <1>2
  <2>6. h + 1 \in 0..(h + 1)
    BY <1>2
  <2> QED BY <2>1, <2>4, <2>5, <2>6
<1> QED BY <1>1, <1>3, <1>4

\* bits.Sub64 with a borrow subtracts, where the difference is not negative.
LEMMA SubtractIs ==
  ASSUME NEW h \in 0..(MaxInt + 1), NEW l \in 0..(Base - 1), NEW v \in 0..(Base - 1),
         NEW w, w.high = h, w.low = l, h = 0 => l >= v
  PROVE  \E i \in 0..h, m \in 0..(Base - 1) :
           /\ Subtract128(w, v) = [high |-> i, low |-> m]
           /\ i * Base + m = h * Base + l - v
<1>1. MaxInt \in Nat \ {0} /\ Base = 2 * MaxInt + 2 /\ Base \in Nat \ {0}
  BY WordsAre
<1>2. l - v \in Int /\ h \in Nat /\ h * Base \in Int
  BY <1>1
<1>3. CASE l >= v
  <2>1. l - v \in 0..(Base - 1) /\ h \in 0..(Base - 1) /\ ~(l < v)
    BY <1>1, <1>3
  <2>2. Uint(l - v) = l - v /\ Uint(h - 0) = h
    BY <2>1, UintIs
  <2>3. Subtract128(w, v) = [high |-> h, low |-> l - v]
    BY <2>1, <2>2 DEF Subtract128
  <2>4. h * Base + (l - v) = h * Base + l - v
    BY <1>1, <1>2
  <2>5. h \in 0..h
    BY <1>2
  <2> QED BY <2>1, <2>3, <2>4, <2>5
<1>4. CASE l < v
  <2>1. /\ l - v + Base \in 0..(Base - 1) /\ h - 1 \in 0..(Base - 1)
    BY <1>1, <1>4
  <2>2. (l - v) % Base = l - v + Base
    <3>1. PICK q \in Int : q = -1
      OBVIOUS
    <3> DEFINE x == l - v
               y == l - v + Base
    <3>2. x = Base * q + y /\ x \in Int /\ y \in 0..(Base - 1) /\ Base \in Nat \ {0}
      BY <1>1, <2>1, <3>1
    <3> HIDE DEF x, y
    <3>3. x % Base = y
      BY <3>2, DivUnique
    <3> QED BY <3>3 DEF x, y
  <2>3. Uint(l - v) = l - v + Base /\ Uint(h - 1) = h - 1
    BY <2>1, <2>2, UintIs DEF Uint
  <2>4. Subtract128(w, v) = [high |-> h - 1, low |-> l - v + Base]
    BY <1>4, <2>3 DEF Subtract128
  <2>5. (h - 1) * Base + (l - v + Base) = h * Base + l - v
    BY <1>1, <1>2
  <2>6. h - 1 \in 0..h
    BY <1>2, <2>1
  <2> QED BY <2>1, <2>4, <2>5, <2>6
<1> QED BY <1>1, <1>3, <1>4

\* bits.Div64 after the high word is reduced: long division by one word.
LEMMA LongDivision ==
  ASSUME NEW h \in Nat, NEW l \in 0..(Base - 1), NEW d \in Nat \ {0}
  PROVE  LET division == Div64(h % d, l, d)
         IN /\ h \div d \in 0..h
            /\ division.quotient \in 0..(Base - 1)
            /\ (h \div d) * Base + division.quotient = (h * Base + l) \div d
            /\ division.remainder = (h * Base + l) % d
<1>1. Base \in Nat \ {0} /\ l \in Nat /\ h \in Int
  BY WordsAre
<1> DEFINE qh == h \div d
           rh == h % d
           t == rh * Base + l
           ql == t \div d
           rl == t % d
<1>2. qh \in Int /\ rh \in 0..(d - 1) /\ h = d * qh + rh
  BY <1>1, DivIs
<1>3. Div64(h % d, l, d) = [quotient |-> ql, remainder |-> rl]
  BY DEF Div64
<1> HIDE DEF qh, rh
<1>4. t \in Nat
  BY <1>1, <1>2
<1>5. ql \in Int /\ rl \in 0..(d - 1) /\ t = d * ql + rl
  <2> HIDE DEF t
  <2> QED BY <1>4, DivIs
<1> HIDE DEF ql, rl
<1>6. qh \in 0..h
  <2>1. qh < 0 => d * qh <= -d
    BY <1>2, Multiple
  <2>2. qh >= 0
    <3>1. d * qh \in Int
      BY <1>2
    <3> QED BY <1>1, <1>2, <2>1, <3>1
  <2>3. d * qh - qh = (d - 1) * qh /\ d - 1 \in Nat
    BY <1>2
  <2>4. (d - 1) * qh >= 0
    BY <1>2, <2>2, <2>3, Multiple
  <2>5. d * qh \in Int
    BY <1>2
  <2> QED BY <1>1, <1>2, <2>2, <2>3, <2>4, <2>5
<1>7. ql \in 0..(Base - 1)
  <2>1. ql < 0 => d * ql <= -d
    BY <1>5, Multiple
  <2>2. d * ql \in Int /\ rh * Base \in Int /\ d * Base \in Int
    BY <1>1, <1>2, <1>5
  <2>3. ql >= 0
    <3> HIDE DEF t
    <3> QED BY <1>4, <1>5, <2>1, <2>2
  <2>4. rh * Base + Base <= d * Base
    <3>1. d * Base - rh * Base = Base * (d - rh)
      BY <1>1, <1>2
    <3>2. Base * (d - rh) >= Base
      BY <1>1, <1>2, Multiple
    <3> QED BY <1>1, <1>2, <2>2, <3>1, <3>2
  <2>5. t < d * Base
    BY <1>1, <2>2, <2>4
  <2>6. ql < Base
    <3>1. SUFFICES ASSUME ql >= Base PROVE FALSE
      BY <1>1, <1>5
    <3>2. d * ql - d * Base = d * (ql - Base)
      BY <1>1, <1>5
    <3>3. d * (ql - Base) >= 0
      BY <1>1, <1>5, <3>1, Multiple
    <3> HIDE DEF t
    <3> QED BY <1>4, <1>5, <2>2, <2>5, <3>2, <3>3
  <2> QED BY <1>1, <1>5, <2>3, <2>6
<1>8. h * Base + l = d * (qh * Base + ql) + rl
  <2>1. h * Base = (d * qh) * Base + rh * Base
    BY <1>1, <1>2
  <2>2. d * (qh * Base + ql) = (d * qh) * Base + d * ql
    BY <1>1, <1>2, <1>5
  <2>3. (d * qh) * Base \in Int /\ rh * Base \in Int /\ d * ql \in Int
    BY <1>1, <1>2, <1>5
  <2>4. rh * Base + l = d * ql + rl
    BY <1>5
  <2> QED BY <1>1, <1>5, <2>1, <2>2, <2>3, <2>4
<1>9. (h * Base + l) \div d = qh * Base + ql /\ (h * Base + l) % d = rl
  <2>1. h * Base + l \in Int /\ qh * Base + ql \in Int
    BY <1>1, <1>2, <1>5
  <2> QED BY <1>5, <1>8, <2>1, DivUnique
<1> QED BY <1>3, <1>6, <1>7, <1>9 DEF qh

\* The wide path.
LEMMA WideIs ==
  ASSUME NEW at \in Timestamp, NEW d \in Nat \ {0}
  PROVE  /\ Canonical(WideBucketIDAt(at, d))
         /\ Value(WideBucketIDAt(at, d)) = Instant(at) \div d
<1> DEFINE N == NanosecondsPerSecond
           s == at.seconds
           n == at.nanoseconds
           negative == s < 0
           seconds == IF negative THEN Uint(Uint(-(s + 1)) + 1) ELSE Uint(s)
           product == Mul64(seconds, N)
           total == IF negative THEN Subtract128(product, n) ELSE Add128(product, n)
           division == Div64(total.high % d, total.low, d)
           quotient == [high |-> total.high \div d, low |-> division.quotient]
           floor == IF negative /\ division.remainder # 0 THEN Add128(quotient, 1) ELSE quotient
           a == IF negative THEN -s ELSE s
<1>1. /\ MaxInt \in Nat \ {0} /\ MinInt = -MaxInt - 1 /\ Base = 2 * MaxInt + 2
      /\ N \in 1..MaxInt /\ s \in MinInt..MaxInt /\ n \in 0..(N - 1)
  BY WordsAre DEF Timestamp
<1>2. WideBucketIDAt(at, d) = [negative |-> negative, high |-> floor.high, low |-> floor.low]
  BY DEF WideBucketIDAt
<1>3. seconds = a /\ a \in 0..(MaxInt + 1) /\ (negative => a >= 1)
  <2>1. CASE negative
    <3>1. -(s + 1) \in 0..(Base - 1) /\ -(s + 1) + 1 = -s /\ -s \in 0..(Base - 1)
      BY <1>1, <2>1
    <3>2. Uint(-(s + 1)) = -(s + 1) /\ Uint(-s) = -s
      BY <3>1, UintIs
    <3>3. seconds = -s
      BY <2>1, <3>1, <3>2
    <3> QED BY <1>1, <2>1, <3>3
  <2>2. CASE ~negative
    <3>1. s \in 0..(Base - 1)
      BY <1>1, <2>2
    <3>2. Uint(s) = s
      BY <3>1, UintIs
    <3> QED BY <1>1, <2>2, <3>2
  <2> QED BY <2>1, <2>2
<1>4. Instant(at) = IF negative THEN -(a * N) + n ELSE a * N + n
  <2>1. (-s) * N = -(s * N)
    BY <1>1
  <2>2. s * N \in Int
    BY <1>1
  <2> QED BY <1>1, <2>1, <2>2 DEF Instant
<1> HIDE DEF seconds, a
<1> DEFINE p == a * N
           ph == p \div Base
           pl == p % Base
<1>5. p \in Nat /\ p <= (MaxInt + 1) * MaxInt /\ (negative => p >= N)
  <2>1. p \in Nat
    BY <1>1, <1>3
  <2>2. (MaxInt + 1) * MaxInt - a * N = MaxInt * ((MaxInt + 1) - a) + a * (MaxInt - N)
    BY <1>1, <1>3
  <2>3. MaxInt * ((MaxInt + 1) - a) >= 0 /\ a * (MaxInt - N) >= 0
    BY <1>1, <1>3, Multiple
  <2>4. MaxInt * ((MaxInt + 1) - a) \in Int /\ a * (MaxInt - N) \in Int
        /\ (MaxInt + 1) * MaxInt \in Int
    BY <1>1, <1>3
  <2>5. negative => N * a >= N
    BY <1>1, <1>3, Multiple
  <2>6. N * a = a * N
    BY <1>1, <1>3
  <2> QED BY <1>1, <2>1, <2>2, <2>3, <2>4, <2>5, <2>6
<1>6. product = [high |-> ph, low |-> pl]
  BY <1>3 DEF Mul64
<1>7. Instant(at) = IF negative THEN -p + n ELSE p + n
  BY <1>4
<1> HIDE DEF p, product
<1>8. ph \in Int /\ pl \in 0..(Base - 1) /\ p = Base * ph + pl
  <2>1. p \in Int /\ Base \in Nat \ {0}
    BY <1>1, <1>5
  <2> QED BY <2>1, DivIs
<1> HIDE DEF ph, pl
<1>9. ph \in 0..(MaxInt - 1)
  <2>1. Base * ph \in Int /\ Base \in Nat /\ pl \in Int
    BY <1>1, <1>8
  <2>2. ph < 0 => Base * ph <= -Base
    BY <1>1, <1>8, Multiple
  <2>3. ph >= 0
    BY <1>1, <1>5, <1>8, <2>1, <2>2
  <2>4. ph < MaxInt
    <3>1. SUFFICES ASSUME ph >= MaxInt PROVE FALSE
      BY <1>1, <1>8
    <3>2. Base * ph = Base * MaxInt + Base * (ph - MaxInt)
      BY <1>1, <1>8
    <3>3. Base * (ph - MaxInt) >= 0
      BY <1>1, <1>8, <3>1, Multiple
    <3>4. Base * MaxInt = (MaxInt + 1) * MaxInt + (MaxInt + 1) * MaxInt
      BY <1>1
    <3>5. (MaxInt + 1) * MaxInt \in Int /\ (MaxInt + 1) * MaxInt > 0
      BY <1>1, Multiple
    <3>6. Base * (ph - MaxInt) \in Int /\ Base * MaxInt \in Int
      BY <1>1, <1>8
    <3> QED BY <1>1, <1>5, <1>8, <2>1, <3>2, <3>3, <3>4, <3>5, <3>6
  <2> QED BY <1>1, <1>8, <2>3, <2>4
<1> DEFINE T == IF negative THEN p - n ELSE p + n
<1>10. PICK i \in 0..MaxInt, m \in 0..(Base - 1) :
         total = [high |-> i, low |-> m] /\ i * Base + m = T
  <2>1. n \in 0..(Base - 1) /\ ph \in 0..(MaxInt + 1) /\ ph * Base = Base * ph
    BY <1>1, <1>8, <1>9
  <2>2. product.high = ph /\ product.low = pl
    BY <1>6
  <2>3. CASE negative
    <3>1. ph = 0 => pl >= n
      <4>1. ph = 0 => Base * ph = 0
        BY <1>1, <1>8
      <4> QED BY <1>1, <1>5, <1>8, <2>3, <4>1
    <3>2. PICK i \in 0..ph, m \in 0..(Base - 1) :
            /\ Subtract128(product, n) = [high |-> i, low |-> m]
            /\ i * Base + m = ph * Base + pl - n
      BY <1>8, <2>1, <2>2, <3>1, SubtractIs
    <3>3. i \in 0..MaxInt
      BY <1>1, <1>9
    <3>4. i * Base + m = T
      <4>1. ph * Base + pl = p
        BY <1>8, <2>1
      <4>2. ph * Base \in Int /\ pl \in Int /\ n \in Int
        BY <1>1, <1>8
      <4> QED BY <2>3, <3>2, <4>1, <4>2
    <3> QED BY <2>3, <3>2, <3>3, <3>4
  <2>4. CASE ~negative
    <3>1. PICK i \in 0..(ph + 1), m \in 0..(Base - 1) :
            /\ Add128(product, n) = [high |-> i, low |-> m]
            /\ i * Base + m = ph * Base + pl + n
      BY <1>8, <2>1, <2>2, AddIs
    <3>2. i \in 0..MaxInt
      BY <1>1, <1>9
    <3>3. i * Base + m = T
      BY <1>8, <2>1, <2>4, <3>1
    <3> QED BY <2>4, <3>1, <3>2, <3>3
  <2> QED BY <2>3, <2>4
<1>11. T \in Nat /\ (negative => T > 0) /\ Instant(at) = IF negative THEN -T ELSE T
  BY <1>1, <1>5, <1>7
<1> DEFINE q == T \div d
           r == T % d
           qh == i \div d
           ql == division.quotient
<1>12. /\ qh \in 0..i /\ ql \in 0..(Base - 1) /\ qh * Base + ql = q
       /\ division.remainder = r
  <2>1. i \in Nat /\ total.high = i /\ total.low = m
    BY <1>1, <1>10
  <2> HIDE DEF total, T
  <2> QED BY <1>10, <2>1, LongDivision
<1>13. quotient = [high |-> qh, low |-> ql]
  <2>1. total.high = i
    BY <1>10
  <2> HIDE DEF total, division
  <2> QED BY <2>1
<1>14. q \in Int /\ r \in 0..(d - 1) /\ T = d * q + r
  <2> HIDE DEF T
  <2> QED BY <1>11, DivIs
<1> HIDE DEF T, q, r, qh, ql, division, quotient, total, negative
<1> DEFINE up == negative /\ r # 0
           e == IF up THEN q + 1 ELSE q
<1>15. PICK fh \in 0..(i + 1), fl \in 0..(Base - 1) :
         floor = [high |-> fh, low |-> fl] /\ fh * Base + fl = e
  <2>1. i \in Nat /\ i \in 0..(MaxInt + 1)
    BY <1>1
  <2>2. CASE up
    <3>1. qh \in 0..(MaxInt + 1) /\ 1 \in 0..(Base - 1)
      BY <1>1, <1>12
    <3>2. quotient.high = qh /\ quotient.low = ql
      BY <1>13
    <3>3. PICK fh \in 0..(qh + 1), fl \in 0..(Base - 1) :
            /\ Add128(quotient, 1) = [high |-> fh, low |-> fl]
            /\ fh * Base + fl = qh * Base + ql + 1
      BY <1>12, <3>1, <3>2, AddIs
    <3>4. fh \in 0..(i + 1)
      BY <1>12, <2>1
    <3> QED BY <1>12, <2>2, <3>3, <3>4
  <2>3. CASE ~up
    BY <1>12, <1>13, <2>1, <2>3
  <2> QED BY <2>2, <2>3
<1> HIDE DEF floor
<1>16. Instant(at) \div d = IF negative THEN -e ELSE e
  <2>1. CASE ~negative
    BY <1>11, <2>1 DEF q
  <2>2. CASE negative /\ r = 0
    <3>1. -T = d * (-q) + 0 /\ 0 \in 0..(d - 1) /\ -q \in Int /\ -T \in Int
      BY <1>11, <1>14, <2>2
    <3>2. (-T) \div d = -q
      BY <3>1, DivUnique
    <3> QED BY <1>11, <2>2, <3>2
  <2>3. CASE negative /\ r # 0
    <3>1. -T = d * (-q - 1) + (d - r) /\ d - r \in 0..(d - 1) /\ -q - 1 \in Int /\ -T \in Int
      <4>1. d * (-q - 1) = -(d * q) - d /\ d * q \in Int
        BY <1>14
      <4> QED BY <1>11, <1>14, <2>3, <4>1
    <3>2. (-T) \div d = -q - 1
      BY <3>1, DivUnique
    <3>3. -(q + 1) = -q - 1
      BY <1>14
    <3> QED BY <1>11, <2>3, <3>2, <3>3
  <2> QED BY <2>1, <2>2, <2>3
<1> DEFINE id == [negative |-> negative, high |-> fh, low |-> fl]
<1>17. WideBucketIDAt(at, d) = id
  BY <1>2, <1>15
<1>18. negative => fh > 0 \/ fl > 0
  <2>1. SUFFICES ASSUME negative, fh = 0, fl = 0 PROVE FALSE
    BY <1>1, <1>10
  <2>2. e = 0
    <3>1. 0 * Base + 0 = 0
      BY <1>1
    <3> QED BY <1>15, <2>1, <3>1
  <2>3. q >= 0
    <3>1. qh \in Nat /\ ql \in Nat /\ qh * Base \in Nat
      BY <1>1, <1>12
    <3> QED BY <1>12, <3>1
  <2>4. q = 0 /\ r = 0
    BY <1>14, <2>1, <2>2, <2>3
  <2>5. T = 0
    BY <1>14, <2>4
  <2> QED BY <1>11, <2>1, <2>5
<1>19. negative \in BOOLEAN
  BY DEF negative
<1>20. Canonical(id)
  <2>1. fh \in 0..(Base - 1) /\ fh <= MaxInt + 1
    BY <1>1
  <2> QED BY <1>18, <1>19, <2>1 DEF Canonical, Proper, ID
<1>21. Value(id) = IF negative THEN -e ELSE e
  <2>1. Magnitude(id) = e
    BY <1>15 DEF Magnitude
  <2>2. id \in ID /\ id.negative = negative
    BY <1>20 DEF Canonical, Proper
  <2> HIDE DEF id, e
  <2> QED BY <2>1, <2>2, ValueIs
<1> QED BY <1>16, <1>17, <1>20, <1>21

\* bucketIDAt is the floor, on either path.
LEMMA BucketIDIs ==
  ASSUME NEW at \in Timestamp, NEW d \in Nat \ {0}
  PROVE  /\ Canonical(BucketIDAt(at, d))
         /\ Value(BucketIDAt(at, d)) = Instant(at) \div d
BY NarrowIs, WideIs DEF BucketIDAt

-----------------------------------------------------------------------------
(* What the window does with identities *)

\* compareMagnitude orders magnitudes.
LEMMA CompareMagnitudeIs ==
  ASSUME NEW id \in ID, NEW other \in ID
  PROVE  /\ CompareMagnitude(id, other) \in {-1, 0, 1}
         /\ (CompareMagnitude(id, other) = -1) <=> Magnitude(id) < Magnitude(other)
         /\ (CompareMagnitude(id, other) = 1) <=> Magnitude(id) > Magnitude(other)
         /\ Magnitude(id) = Magnitude(other) => id.high = other.high /\ id.low = other.low
<1> DEFINE h == id.high
           l == id.low
           i == other.high
           m == other.low
           x == h * Base + l
           y == i * Base + m
<1>1. /\ h \in Nat /\ l \in 0..(Base - 1) /\ i \in Nat /\ m \in 0..(Base - 1)
      /\ l \in Nat /\ m \in Nat
  BY WordsAre DEF ID
<1>2. /\ x \in Nat /\ y \in Nat
      /\ h < i => x < y
      /\ i < h => y < x
      /\ h = i => x - y = l - m
  BY <1>1, MagnitudeOrder
<1>3. Magnitude(id) = x /\ Magnitude(other) = y
  BY DEF Magnitude
<1>4. CompareMagnitude(id, other) =
        IF h < i \/ (h = i /\ l < m) THEN -1
        ELSE IF h > i \/ (h = i /\ l > m) THEN 1 ELSE 0
  BY DEF CompareMagnitude
<1>5. id.high = h /\ id.low = l /\ other.high = i /\ other.low = m
  OBVIOUS
<1> HIDE DEF h, l, i, m, x, y
<1>6. CASE h < i
  BY <1>1, <1>2, <1>3, <1>4, <1>5, <1>6
<1>7. CASE h > i
  BY <1>1, <1>2, <1>3, <1>4, <1>5, <1>7
<1>8. CASE h = i
  BY <1>1, <1>2, <1>3, <1>4, <1>5, <1>8
<1> QED BY <1>1, <1>6, <1>7, <1>8

\* compare and == agree with the integers.
LEMMA CompareIs ==
  ASSUME NEW id, Proper(id), NEW other, Proper(other)
  PROVE  /\ Value(id) \in Int /\ Value(other) \in Int
         /\ (id = other) <=> Value(id) = Value(other)
         /\ (Compare(id, other) = 1) <=> Value(id) > Value(other)
         /\ (Compare(id, other) = -1) <=> Value(id) < Value(other)
<1> DEFINE x == Magnitude(id)
           y == Magnitude(other)
           c == CompareMagnitude(id, other)
<1>1. id \in ID /\ other \in ID
  BY DEF Proper
<1>2. /\ x \in Nat /\ Value(id) = IF id.negative THEN -x ELSE x
      /\ y \in Nat /\ Value(other) = IF other.negative THEN -y ELSE y
  BY <1>1, ValueIs
<1>3. c \in {-1, 0, 1} /\ ((c = -1) <=> x < y) /\ ((c = 1) <=> x > y)
  BY <1>1, CompareMagnitudeIs
<1>4. x = y => id.high = other.high /\ id.low = other.low
  BY <1>1, CompareMagnitudeIs
<1>5. id.negative \in BOOLEAN /\ other.negative \in BOOLEAN
  BY <1>1 DEF ID
<1>6. (id.negative => x > 0) /\ (other.negative => y > 0)
  <2>1. ASSUME NEW k, Proper(k), k.negative PROVE Magnitude(k) > 0
    <3>1. k.high \in Nat /\ k.low \in Nat /\ Base \in Nat \ {0} /\ (k.high > 0 \/ k.low > 0)
      BY <2>1, WordsAre DEF Proper, ID
    <3>2. k.high * Base \in Nat /\ (k.high > 0 => k.high * Base > 0)
      BY <3>1
    <3> QED BY <3>1, <3>2 DEF Magnitude
  <2> QED BY <2>1
<1>7. Compare(id, other) = IF id.negative # other.negative THEN (IF id.negative THEN -1 ELSE 1)
                           ELSE IF id.negative THEN -c ELSE c
  BY DEF Compare
<1>8. (id = other) <=> id.negative = other.negative /\ id.high = other.high /\ id.low = other.low
  BY <1>1 DEF ID
<1>9. id = other => x = y
  OBVIOUS
<1> HIDE DEF x, y, c
<1>10. CASE id.negative # other.negative
  BY <1>2, <1>3, <1>5, <1>6, <1>7, <1>8, <1>10
<1>11. CASE id.negative = other.negative
  <2>1. (id = other) <=> x = y
    BY <1>4, <1>8, <1>9, <1>11
  <2> QED BY <1>2, <1>3, <1>5, <1>7, <1>11, <2>1
<1> QED BY <1>10, <1>11

\* subtract subtracts, across zero and across words.
LEMMA SubtractValue ==
  ASSUME NEW id, Canonical(id), NEW v \in 0..MaxInt
  PROVE  Proper(Subtract(id, v)) /\ Value(Subtract(id, v)) = Value(id) - v
<1> DEFINE h == id.high
           l == id.low
<1>1. MaxInt \in Nat \ {0} /\ Base = 2 * MaxInt + 2
  BY WordsAre
<1>2. /\ id \in ID /\ h \in 0..(MaxInt + 1) /\ l \in 0..(Base - 1) /\ v \in 0..(Base - 1)
      /\ id.negative \in BOOLEAN /\ (id.negative => h > 0 \/ l > 0)
  BY <1>1 DEF Canonical, Proper, ID
<1>3. Magnitude(id) \in Nat /\ Value(id) = IF id.negative THEN -Magnitude(id) ELSE Magnitude(id)
  BY <1>2, ValueIs
<1>4. Magnitude(id) = h * Base + l /\ h * Base \in Nat
  BY <1>1, <1>2 DEF Magnitude
<1>5. CASE id.negative
  <2>1. PICK i \in 0..(h + 1), m \in 0..(Base - 1) :
          Add128(id, v) = [high |-> i, low |-> m] /\ i * Base + m = h * Base + l + v
    BY <1>2, AddIs
  <2> DEFINE sum == [negative |-> TRUE, high |-> i, low |-> m]
  <2>2. Subtract(id, v) = sum
    BY <1>5, <2>1 DEF Subtract
  <2>3. sum \in ID
    BY <1>1, <1>2 DEF ID
  <2>4. Magnitude(sum) = h * Base + l + v
    BY <2>1 DEF Magnitude
  <2>5. Value(sum) = -Magnitude(sum)
    BY <2>3, ValueIs
  <2>6. Value(sum) = Value(id) - v
    <3> HIDE DEF sum
    <3> QED BY <1>1, <1>2, <1>3, <1>4, <1>5, <2>4, <2>5
  <2>7. i > 0 \/ m > 0
    <3>1. SUFFICES ASSUME i = 0, m = 0 PROVE FALSE
      BY <1>1, <1>2
    <3>2. i * Base + m = 0
      BY <1>1, <3>1
    <3>3. h > 0 => h * Base > 0
      BY <1>1, <1>2
    <3> QED BY <1>1, <1>2, <1>4, <1>5, <2>1, <3>2, <3>3
  <2>8. Proper(sum)
    BY <2>3, <2>7 DEF Proper
  <2> QED BY <2>2, <2>6, <2>8
<1>6. CASE ~id.negative /\ h = 0 /\ l < v
  <2> DEFINE id2 == [negative |-> TRUE, high |-> 0, low |-> v - l]
  <2>1. Subtract(id, v) = id2
    BY <1>6 DEF Subtract
  <2>2. Proper(id2)
    BY <1>1, <1>2, <1>6 DEF Proper, ID
  <2>3. Value(id2) = l - v
    BY <1>1, <1>2 DEF Value
  <2>4. Value(id) = l
    BY <1>1, <1>2, <1>3, <1>4, <1>6
  <2> QED BY <2>1, <2>2, <2>3, <2>4
<1>7. CASE ~id.negative /\ ~(h = 0 /\ l < v)
  <2>1. h = 0 => l >= v
    BY <1>1, <1>2, <1>7
  <2>2. PICK i \in 0..h, m \in 0..(Base - 1) :
          Subtract128(id, v) = [high |-> i, low |-> m] /\ i * Base + m = h * Base + l - v
    BY <1>2, <2>1, SubtractIs
  <2> DEFINE difference == [negative |-> FALSE, high |-> i, low |-> m]
  <2>3. Subtract(id, v) = difference
    BY <1>7, <2>2 DEF Subtract
  <2>4. difference \in ID /\ Proper(difference)
    BY <1>1, <1>2 DEF ID, Proper
  <2>5. Value(difference) = i * Base + m
    BY <2>4, ValueIs DEF Magnitude
  <2>6. Value(difference) = Value(id) - v
    <3> HIDE DEF difference
    <3> QED BY <1>1, <1>2, <1>3, <1>4, <1>7, <2>2, <2>5
  <2> QED BY <2>3, <2>4, <2>6
<1> QED BY <1>2, <1>5, <1>6, <1>7

\* index is the remainder of the floor division, also before the epoch.
LEMMA IndexIs ==
  ASSUME NEW id \in ID, NEW c \in Nat \ {0}
  PROVE  Index(id, c) = Value(id) % c
<1> DEFINE x == Magnitude(id)
           q == x \div c
           r == x % c
<1>1. x \in Nat /\ Value(id) = IF id.negative THEN -x ELSE x
  BY ValueIs
<1>2. Div64(id.high % c, id.low, c).remainder = r
  <2>1. id.high \in Nat /\ id.low \in 0..(Base - 1)
    BY WordsAre DEF ID
  <2> QED BY <2>1, LongDivision DEF Magnitude
<1>3. Index(id, c) = IF id.negative /\ r # 0 THEN c - r ELSE r
  BY <1>2 DEF Index
<1> HIDE DEF x
<1>4. q \in Int /\ r \in 0..(c - 1) /\ x = c * q + r /\ -x \in Int
  BY <1>1, DivIs
<1>5. CASE ~id.negative
  BY <1>1, <1>3, <1>5
<1> HIDE DEF q, r
<1>6. CASE id.negative /\ r = 0
  <2>1. -x = c * (-q) + 0 /\ -q \in Int /\ 0 \in 0..(c - 1)
    BY <1>4, <1>6
  <2>2. (-x) % c = 0
    BY <1>4, <2>1, DivUnique
  <2> QED BY <1>1, <1>3, <1>6, <2>2
<1>7. CASE id.negative /\ r # 0
  <2>1. -x = c * (-q - 1) + (c - r) /\ -q - 1 \in Int /\ c - r \in 0..(c - 1)
    <3>1. c * (-q - 1) = -(c * q) - c /\ c * q \in Int
      BY <1>4
    <3> QED BY <1>1, <1>4, <1>7, <3>1
  <2>2. (-x) % c = c - r
    BY <1>4, <2>1, DivUnique
  <2> QED BY <1>1, <1>3, <1>7, <2>2
<1> QED BY <1>5, <1>6, <1>7

-----------------------------------------------------------------------------
(* The progress of one window *)

\* The floor does not decrease.
LEMMA FloorMonotone ==
  ASSUME NEW d \in Nat \ {0}, NEW x \in Int, NEW y \in Int, x <= y
  PROVE  x \div d <= y \div d
<1> DEFINE p == x \div d
           q == y \div d
<1>1. /\ p \in Int /\ x % d \in 0..(d - 1) /\ x = d * p + (x % d)
      /\ q \in Int /\ y % d \in 0..(d - 1) /\ y = d * q + (y % d)
  BY DivIs
<1> HIDE DEF p, q
<1>2. SUFFICES ASSUME p > q PROVE FALSE
  BY <1>1 DEF p, q
<1>3. d * p - d * q = d * (p - q) /\ d * p \in Int /\ d * q \in Int
  BY <1>1
<1>4. d * (p - q) >= d
  BY <1>1, <1>2, Multiple
<1> QED BY <1>1, <1>3, <1>4

\* Integers less than c apart have different remainders.
LEMMA Apart ==
  ASSUME NEW c \in Nat \ {0}, NEW x \in Int, NEW y \in Int,
         x % c = y % c, x - y < c, y - x < c
  PROVE  x = y
<1> DEFINE p == x \div c
           q == y \div c
           r == x % c
<1>1. p \in Int /\ q \in Int /\ r \in Int /\ x = c * p + r /\ y = c * q + r
  BY DivIs
<1> HIDE DEF p, q, r
<1>2. x - y = c * (p - q)
  BY <1>1
<1>3. CASE p > q
  <2>1. c * (p - q) >= c
    BY <1>1, <1>3, Multiple
  <2> QED BY <1>2, <2>1
<1>4. CASE p < q
  <2>1. c * (p - q) <= -c
    BY <1>1, <1>4, Multiple
  <2> QED BY <1>2, <2>1
<1>5. CASE p = q
  BY <1>1, <1>5
<1> QED BY <1>1, <1>3, <1>4, <1>5

\* The latest identity is one that bucketIDAt computes, of the latest instant.
BucketInv ==
  /\ bucketDuration \in 1..MaxInt /\ bucketCount \in 1..MaxInt
  /\ initialized \in BOOLEAN /\ latest \in Int
  /\ Canonical(lastBucketID)
  /\ initialized => Value(lastBucketID) = latest \div bucketDuration

\* A timestamp is an instant.
LEMMA InstantType ==
  ASSUME NEW at \in Timestamp
  PROVE  Instant(at) \in Int
<1>1. at.seconds \in Int /\ at.nanoseconds \in Int /\ NanosecondsPerSecond \in Int
  BY WordsAre DEF Timestamp
<1> QED BY <1>1 DEF Instant

\* NewTime establishes it and observe keeps it.
LEMMA BucketInvAlways == BucketSpec => []BucketInv
<1>1. BucketInit => BucketInv
  <2> SUFFICES ASSUME BucketInit PROVE BucketInv
    OBVIOUS
  <2>1. Canonical(ZeroID)
    BY WordsAre DEF Canonical, Proper, ID, ZeroID
  <2>2. Canonical(lastBucketID)
    BY <2>1, Zenon DEF BucketInit
  <2>3. initialized \in BOOLEAN /\ ~initialized
    BY Zenon DEF BucketInit
  <2>4. bucketDuration \in 1..MaxInt /\ bucketCount \in 1..MaxInt /\ latest \in Int
    BY DEF BucketInit
  <2> QED BY <2>2, <2>3, <2>4 DEF BucketInv
<1>2. BucketInv /\ [BucketNext]_bucketVars => BucketInv'
  <2> SUFFICES ASSUME BucketInv, [BucketNext]_bucketVars PROVE BucketInv'
    OBVIOUS
  <2>1. CASE UNCHANGED bucketVars
    BY <2>1 DEF bucketVars, BucketInv, Canonical, Proper, ID, Value
  <2>2. ASSUME NEW at \in Timestamp, Observe(at) PROVE BucketInv'
    <3> DEFINE id == BucketIDAt(at, bucketDuration)
               x == Instant(at)
               d == bucketDuration
    <3>1. d \in Nat \ {0} /\ x \in Int /\ latest \in Int /\ Canonical(lastBucketID)
      BY InstantType, WordsAre DEF BucketInv
    <3>2. Canonical(id) /\ Value(id) = x \div d
      BY <3>1, BucketIDIs
    <3>3. Proper(id) /\ Proper(lastBucketID)
      BY <3>1, <3>2 DEF Canonical
    <3>4. (Compare(id, lastBucketID) = 1) <=> Value(id) > Value(lastBucketID)
      <4> HIDE DEF id
      <4> QED BY <3>3, CompareIs
    <3>5. /\ lastBucketID' = IF ~initialized \/ Compare(id, lastBucketID) = 1
                             THEN id ELSE lastBucketID
          /\ initialized' = TRUE
          /\ latest' = IF initialized /\ latest > x THEN latest ELSE x
          /\ bucketDuration' = d /\ bucketCount' = bucketCount
      BY <2>2 DEF Observe
    <3> HIDE DEF id, x, d
    <3>6. Canonical(lastBucketID')
      BY <3>1, <3>2, <3>5
    <3>7. Value(lastBucketID') = latest' \div d
      <4>1. CASE ~initialized
        BY <3>2, <3>5, <4>1
      <4>2. CASE initialized /\ latest > x
        <5>1. x \div d <= latest \div d /\ x \div d \in Int /\ latest \div d \in Int
          BY <3>1, <4>2, FloorMonotone
        <5>2. Value(lastBucketID) = latest \div d
          BY <4>2 DEF BucketInv, d
        <5> QED BY <3>2, <3>4, <3>5, <4>2, <5>1, <5>2
      <4>3. CASE initialized /\ ~(latest > x)
        <5>1. latest \div d <= x \div d /\ x \div d \in Int /\ latest \div d \in Int
          BY <3>1, <4>3, FloorMonotone
        <5>2. Value(lastBucketID) = latest \div d
          BY <4>3 DEF BucketInv, d
        <5> QED BY <3>2, <3>4, <3>5, <4>3, <5>1, <5>2
      <4> QED BY <4>1, <4>2, <4>3 DEF BucketInv
    <3>8. latest' \in Int /\ initialized' \in BOOLEAN
      BY <3>1, <3>5
    <3>9. bucketDuration' \in 1..MaxInt /\ bucketCount' \in 1..MaxInt
      BY <3>5 DEF BucketInv, d
    <3>10. Canonical(lastBucketID)' /\ Value(lastBucketID)' = latest' \div bucketDuration'
      BY <3>5, <3>6, <3>7 DEF Canonical, Proper, Value
    <3> QED BY <3>8, <3>9, <3>10 DEF BucketInv
  <2> QED BY <2>1, <2>2 DEF BucketNext
<1> QED BY <1>1, <1>2, PTL DEF BucketSpec

(***************************************************************************)
(* bucketIDAt, bucketIDFromInt64, unixNanoseconds and the wide path of     *)
(* window/time.go: the bucket of every timestamp is its floor, whatever    *)
(* the width of the words.                                                 *)
(***************************************************************************)
THEOREM FloorAlwaysExact == BucketSpec => []FloorExact
<1>1. BucketInv => FloorExact
  <2> SUFFICES ASSUME BucketInv, NEW at \in Timestamp
               PROVE  Value(BucketIDAt(at, bucketDuration)) = Floor(at)
    BY DEF FloorExact
  <2>1. bucketDuration \in Nat \ {0}
    BY WordsAre DEF BucketInv
  <2> QED BY <2>1, BucketIDIs DEF Floor
<1> QED BY <1>1, BucketInvAlways, PTL

(***************************************************************************)
(* compare, subtract, index and observe: what the time window does with    *)
(* bucket identities is what it would do with integers.                    *)
(***************************************************************************)
THEOREM IdentitiesAlwaysExact == BucketSpec => []IdentitiesExact
<1>1. BucketInv => IdentitiesExact
  <2> SUFFICES ASSUME BucketInv PROVE IdentitiesExact
    OBVIOUS
  <2> DEFINE d == bucketDuration
             c == bucketCount
             last == lastBucketID
             oldest == Subtract(lastBucketID, bucketCount - 1)
             Id(at) == BucketIDAt(at, bucketDuration)
  <2>1. d \in Nat \ {0} /\ c \in Nat \ {0} /\ c - 1 \in 0..MaxInt /\ Canonical(last)
    BY WordsAre DEF BucketInv
  <2>2. Proper(last) /\ Proper(oldest) /\ Value(oldest) = Value(last) - (c - 1)
    BY <2>1, SubtractValue DEF Canonical
  <2>3. Value(last) \in Int
    BY <2>2, CompareIs
  <2>4. \A at \in Timestamp : Proper(Id(at)) /\ Value(Id(at)) = Floor(at)
    BY <2>1, BucketIDIs DEF Floor, Canonical
  <2> HIDE DEF d, c, last, oldest, Id
  <2>5. ASSUME NEW at \in Timestamp, NEW other \in {last, oldest}
        PROVE  /\ (Id(at) = other) <=> Floor(at) = Value(other)
               /\ (Compare(Id(at), other) = 1) <=> Floor(at) > Value(other)
               /\ (Compare(Id(at), other) = -1) <=> Floor(at) < Value(other)
    <3>1. Proper(Id(at)) /\ Proper(other) /\ Value(Id(at)) = Floor(at)
      BY <2>2, <2>4
    <3>2. PICK id : id = Id(at)
      OBVIOUS
    <3> QED BY <3>1, <3>2, CompareIs
  <2>6. OrderExact
    BY <2>5 DEF OrderExact, Id, d, last, oldest
  <2> DEFINE live == {id \in {Id(at) : at \in Timestamp} :
                       Value(id) \in Value(oldest)..Value(last)}
  <2>7. ASSUME NEW id \in live
        PROVE  /\ Proper(id) /\ id \in ID /\ Value(id) \in Int /\ Index(id, c) = Value(id) % c
               /\ Value(id) <= Value(last) /\ Value(last) - (c - 1) <= Value(id)
    <3>1. Proper(id) /\ id \in ID
      BY <2>4 DEF Proper
    <3>2. Value(id) \in Int
      BY <3>1, CompareIs
    <3>3. Index(id, c) = Value(id) % c
      BY <2>1, <3>1, IndexIs
    <3> QED BY <2>1, <2>2, <2>3, <3>1, <3>2, <3>3
  <2>8. ASSUME NEW id \in live PROVE Index(id, c) \in 0..(c - 1)
    <3>1. Value(id) \in Int /\ Index(id, c) = Value(id) % c
      BY <2>7
    <3> QED BY <2>1, <3>1, DivIs
  <2>9. ASSUME NEW id \in live, NEW other \in live, Index(id, c) = Index(other, c)
        PROVE  id = other
    <3>1. Proper(id) /\ Proper(other) /\ Value(id) \in Int /\ Value(other) \in Int
      BY <2>7
    <3>2. Value(id) % c = Value(other) % c
      BY <2>7, <2>9
    <3>3. Value(id) - Value(other) < c /\ Value(other) - Value(id) < c
      <4>1. Value(id) <= Value(last) /\ Value(last) - (c - 1) <= Value(id)
        BY <2>7
      <4>2. Value(other) <= Value(last) /\ Value(last) - (c - 1) <= Value(other)
        BY <2>7
      <4> QED BY <2>1, <2>3, <3>1, <4>1, <4>2
    <3>4. Value(id) = Value(other)
      BY <2>1, <3>1, <3>2, <3>3, Apart
    <3> QED BY <3>1, <3>4, CompareIs
  <2>10. RingExact
    BY <2>2, <2>8, <2>9 DEF RingExact, Id, d, c, last, oldest
  <2>11. ProgressExact
    BY DEF BucketInv, ProgressExact
  <2> QED BY <2>6, <2>10, <2>11 DEF IdentitiesExact
<1> QED BY <1>1, BucketInvAlways, PTL


=============================================================================
