------------------------------- MODULE Config -------------------------------
(***************************************************************************)
(* Construction (config.go, New in breaker.go).  A caller writes a Config, *)
(* New checks its fields in a fixed order and either names the first fault *)
(* or builds a breaker from the defaulted values.  The breaker then meets  *)
(* a dependency that only fails slowly, and after it opened one that only  *)
(* succeeds, which asks whether its policies can be satisfied at all.      *)
(*                                                                         *)
(* An interface value is a record whose type says what is in it; pointers  *)
(* to policies and foreign types are "unsupported".  Ratios, multipliers   *)
(* and jitter are percentages, with NaN, which compares false with every   *)
(* number, and Inf beside them.  The numeric maxima and defaults are       *)
(* constants, so that both sides of every limit can be tried.              *)
(***************************************************************************)
EXTENDS Policy, CountWindow, TimeWindow, Sequences, FiniteSetsExt

CONSTANTS
  DefaultCountWindowSize, DefaultMinimumThroughput, DefaultHalfOpenProbeCount,
  DefaultDuration,         \* of the slow-call threshold, the interval and the TTL
  DefaultEventBuffer,
  MaxCountSize, MaxBucketCount, MaxHalfOpenProbes, MaxEventBuffer,
  MaxDuration,             \* 1<<63 - 1
  MaxNameBytes,
  MaxEdits                 \* bound on the fields a caller sets

ASSUME ConfigAssumption ==
  /\ {DefaultCountWindowSize, MaxCountSize, MaxHalfOpenProbes, MaxEventBuffer,
      MaxDuration} \subseteq Nat
  /\ DefaultMinimumThroughput \in 1..DefaultCountWindowSize
  /\ DefaultCountWindowSize <= MaxCountSize
  /\ DefaultHalfOpenProbeCount \in 1..MaxHalfOpenProbes
  /\ DefaultEventBuffer \in 1..MaxEventBuffer
  /\ DefaultDuration \in 1..MaxDuration
  /\ MaxBucketCount \in 1..MaxDuration
  /\ MaxNameBytes \in Nat \ {0} /\ MaxEdits \in Nat

-----------------------------------------------------------------------------
(* Floating-point numbers, as far as validation tells them apart *)

NaN == -1000
Inf == 1000000
Floats == {NaN, -50, 0, 50, 100, 150, Inf}

finite(value) == value \notin {NaN, Inf}
Less(x, y) == x # NaN /\ y # NaN /\ x < y

\* A ratio check that forgets that NaN fails every comparison.
InvalidRatioByOrder(value) == Less(value, 0) \/ Less(100, value)

InvalidRatio(value) == ~finite(value) \/ Less(value, 0) \/ Less(100, value)

-----------------------------------------------------------------------------
(* What a caller can write: values on both sides of every limit *)

Nil == [type |-> "nil"]
Unsupported == [type |-> "unsupported"]
TypedNil == [type |-> "typed_nil"]
Given == [type |-> "given"]

Windows ==
  {Nil, Unsupported}
    \cup [type : {"CountWindow"}, Size : {0, 1, MaxCountSize, MaxCountSize + 1}]
    \cup [type : {"TimeWindow"}, BucketDuration : {0, 1, MaxDuration},
          BucketCount : {0, 1, MaxBucketCount, MaxBucketCount + 1}]

Durations == {Nil, Unsupported}
    \cup [type : {"Fixed"}, Initial : {0, 1}]
    \cup [type : {"Exponential"}, Initial : {0, 2}, Multiplier : {NaN, 50, 150, Inf},
          Maximum : {1, 2}]

Admissions == {Nil, Unsupported, [type |-> "RejectExcessProbes"]}
    \cup [type : {"WaitForProbe"}, MaxWait : {0, 1}]

Deliveries == {Nil, Unsupported, [type |-> "Synchronous"]}
    \cup [type : {"Asynchronous"}, Buffer : {0, 1, MaxEventBuffer + 1},
          Overflow : {"newest", "oldest", "unknown"}]

\* Fields set by value; a Name is its length.
FieldChoices ==
  [Name |-> {0, 1, MaxNameBytes, MaxNameBytes + 1},
   Window |-> Windows,
   MinimumThroughput |-> {-1, 0, 1, MaxCountSize, MaxCountSize + 1},
   SlowCallDuration |-> {-1, 0, 1},
   OpenDuration |-> Durations,
   Clock |-> {Nil, TypedNil, Given},
   PermitTTL |-> {-1, 0, 1},
   HalfOpenAdmission |-> Admissions,
   Observer |-> {Nil, Given},
   EventDelivery |-> Deliveries,
   OpenDurationJitter |-> {NaN, -50, 0, 50, 100, Inf},
   Random |-> {Nil, TypedNil, Given}]

\* Fields of the two policies a Config points to.
OpeningChoices ==
  [ConsecutiveFailures |-> {0, 1, MaxCountSize + 1},
   FailureCount |-> {0, MaxCountSize, MaxCountSize + 1},
   FailureRatio |-> Floats,
   SlowCount |-> {0, MaxCountSize, MaxCountSize + 1},
   SlowRatio |-> Floats,
   Combination |-> {OpenWhenAny, OpenWhenAll, "unknown"},
   IgnoredBehavior |-> {PreserveConsecutiveFailures, ResetConsecutiveFailures, "unknown"}]

HalfOpenChoices ==
  [MaxProbes |-> {0, 1, MaxHalfOpenProbes, MaxHalfOpenProbes + 1},
   RequiredSuccesses |-> {-1, 0, 1, MaxHalfOpenProbes, MaxHalfOpenProbes + 1},
   SuccessRatio |-> Floats,
   FailureAction |-> {ReopenImmediately, ReopenAfterSample, "unknown"}]

ZeroOpening ==
  [ConsecutiveFailures |-> 0, FailureCount |-> 0, FailureRatio |-> 0,
   SlowCount |-> 0, SlowRatio |-> 0, Combination |-> OpenWhenAny,
   IgnoredBehavior |-> PreserveConsecutiveFailures]

ZeroHalfOpen ==
  [MaxProbes |-> 0, RequiredSuccesses |-> 0, SuccessRatio |-> 0,
   FailureAction |-> ReopenImmediately]

\* Config{Name: ...}: everything else has its zero value.
ZeroConfig ==
  [Name |-> 1, Window |-> Nil, MinimumThroughput |-> 0, SlowCallDuration |-> 0,
   Opening |-> Nil, OpenDuration |-> Nil, HalfOpen |-> Nil, Clock |-> Nil,
   PermitTTL |-> 0, HalfOpenAdmission |-> Nil, Observer |-> Nil,
   EventDelivery |-> Nil, OpenDurationJitter |-> 0, Random |-> Nil]

-----------------------------------------------------------------------------
(* Checks in the order of the code.  A check is <<field, fails>>.          *)

\* The rolling interval fits a Duration; asked of a positive count only.
IntervalOverflows(w) == w.BucketCount > 0 /\ w.BucketDuration > MaxDuration \div w.BucketCount

WindowChecks(w) ==
  CASE w.type = "nil" -> <<>>
    [] w.type = "CountWindow" ->
         << <<"Window.Size", w.Size <= 0>>, <<"Window.Size", w.Size > MaxCountSize>> >>
    [] w.type = "TimeWindow" ->
         << <<"Window.BucketDuration", w.BucketDuration <= 0>>,
            <<"Window.BucketCount", w.BucketCount <= 0>>,
            <<"Window.BucketCount", w.BucketCount > MaxBucketCount>>,
            <<"Window", IntervalOverflows(w)>> >>
    [] OTHER -> << <<"Window", TRUE>> >>

\* countWindowSize: zero when the window is not a count window.
CountWindowSize(w) ==
  CASE w.type = "nil" -> DefaultCountWindowSize
    [] w.type = "CountWindow" -> w.Size
    [] OTHER -> 0

OrDefault(value, default) == IF value = 0 THEN default ELSE value

\* Compares what the caller wrote, before zero becomes the default.
WindowTooSmallForRaw(c) ==
  c.Window.type # "TimeWindow" /\ c.MinimumThroughput > CountWindowSize(c.Window)

WindowTooSmall(c) ==
  /\ c.Window.type # "TimeWindow"
  /\ OrDefault(c.MinimumThroughput, DefaultMinimumThroughput) > CountWindowSize(c.Window)

\* A copied line: the slow ratio is checked under the other ratio's name.
RatioChecksMisnamed(rules) ==
  << <<"Opening.FailureRatio", InvalidRatio(rules.FailureRatio)>>,
     <<"Opening.FailureRatio", InvalidRatio(rules.SlowRatio)>> >>

RatioChecks(rules) ==
  << <<"Opening.FailureRatio", InvalidRatio(rules.FailureRatio)>>,
     <<"Opening.SlowRatio", InvalidRatio(rules.SlowRatio)>> >>

OpeningChecks(rules) ==
  IF rules = Nil THEN <<>>
  ELSE << <<"Opening.Combination", rules.Combination = "unknown">>,
          <<"Opening.IgnoredBehavior", rules.IgnoredBehavior = "unknown">> >>
       \o RatioChecks(rules)
       \o << <<"Opening", \A k \in Rules : rules[k] = 0>> >>

NormalOpening(rules) == IF rules = Nil THEN [ZeroOpening EXCEPT !.FailureRatio = 50] ELSE rules

\* A count window cannot hold more failures or slow calls than its size.
CapacityChecks(c) ==
  LET limited == c.Window.type # "TimeWindow"
  IN << <<"Opening.FailureCount",
          limited /\ NormalOpening(c.Opening).FailureCount > CountWindowSize(c.Window)>>,
        <<"Opening.SlowCount",
          limited /\ NormalOpening(c.Opening).SlowCount > CountWindowSize(c.Window)>> >>

OpenDurationChecks(d) ==
  CASE d.type = "nil" -> <<>>
    [] d.type = "Fixed" -> << <<"OpenDuration", d.Initial <= 0>> >>
    [] d.type = "Exponential" ->
         << <<"OpenDuration.Initial", d.Initial <= 0>>,
            <<"OpenDuration.Multiplier", ~finite(d.Multiplier) \/ Less(d.Multiplier, 100)>>,
            <<"OpenDuration.Maximum", d.Maximum < d.Initial>> >>
    [] OTHER -> << <<"OpenDuration", TRUE>> >>

Unreachable(p) == p.RequiredSuccesses > p.MaxProbes

HalfOpenChecks(p) ==
  IF p = Nil THEN <<>>
  ELSE << <<"HalfOpen.MaxProbes", p.MaxProbes < 1>>,
          <<"HalfOpen.MaxProbes", p.MaxProbes > MaxHalfOpenProbes>>,
          <<"HalfOpen.FailureAction", p.FailureAction = "unknown">>,
          <<"HalfOpen.SuccessRatio", InvalidRatio(p.SuccessRatio)>>,
          <<"HalfOpen", p.RequiredSuccesses > 0 /\ Less(0, p.SuccessRatio)>>,
          <<"HalfOpen", p.RequiredSuccesses <= 0 /\ p.SuccessRatio = 0>>,
          <<"HalfOpen.RequiredSuccesses", Unreachable(p)>> >>

AdmissionChecks(a) ==
  CASE a.type \in {"nil", "RejectExcessProbes"} -> <<>>
    [] a.type = "WaitForProbe" -> << <<"HalfOpenAdmission.MaxWait", a.MaxWait <= 0>> >>
    [] OTHER -> << <<"HalfOpenAdmission", TRUE>> >>

ObserverChecks(observer, delivery) ==
  IF observer = Nil THEN << <<"EventDelivery", delivery # Nil>> >>
  ELSE CASE delivery.type \in {"nil", "Synchronous"} -> <<>>
         [] delivery.type = "Asynchronous" ->
              << <<"EventDelivery.Buffer", delivery.Buffer <= 0>>,
                 <<"EventDelivery.Buffer", delivery.Buffer > MaxEventBuffer>>,
                 <<"EventDelivery.Overflow", delivery.Overflow = "unknown">> >>
         [] OTHER -> << <<"EventDelivery", TRUE>> >>

\* nilValue: a typed nil is not the nil that selects a default.
nilValue(value) == value = TypedNil

Checks(c) ==
  << <<"Name", c.Name = 0>>, <<"Name", c.Name > MaxNameBytes>> >>
    \o WindowChecks(c.Window)
    \o << <<"MinimumThroughput", c.MinimumThroughput < 0>>,
          <<"MinimumThroughput", WindowTooSmall(c)>> >>
    \o << <<"SlowCallDuration", c.SlowCallDuration < 0>> >>
    \o OpeningChecks(c.Opening)
    \o CapacityChecks(c)
    \o OpenDurationChecks(c.OpenDuration)
    \o HalfOpenChecks(c.HalfOpen)
    \o << <<"Clock", nilValue(c.Clock)>>, <<"PermitTTL", c.PermitTTL < 0>> >>
    \o AdmissionChecks(c.HalfOpenAdmission)
    \o ObserverChecks(c.Observer, c.EventDelivery)
    \o << <<"OpenDurationJitter",
            \/ ~finite(c.OpenDurationJitter)
            \/ Less(c.OpenDurationJitter, 0)
            \/ ~Less(c.OpenDurationJitter, 100)>>,
          <<"Random", nilValue(c.Random)>> >>

NoError == "none"

\* The Field of the InvalidConfigError: the first check that fails.
InvalidField(c) ==
  LET checks == Checks(c)
      failed == {i \in DOMAIN checks : checks[i][2]}
  IN IF failed = {} THEN NoError ELSE checks[Min(failed)][1]

-----------------------------------------------------------------------------
(* Defaults *)

NormalWindow(w) ==
  IF w.type = "TimeWindow" THEN w
  ELSE [type |-> "CountWindow", Size |-> CountWindowSize(w)]

NormalOpenDuration(d) ==
  CASE d.type = "nil" ->
         [Initial |-> DefaultDuration, Multiplier |-> 100, Maximum |-> DefaultDuration]
    [] d.type = "Fixed" ->
         [Initial |-> d.Initial, Multiplier |-> 100, Maximum |-> d.Initial]
    [] OTHER -> [Initial |-> d.Initial, Multiplier |-> d.Multiplier, Maximum |-> d.Maximum]

NormalHalfOpen(p) ==
  IF p = Nil
  THEN [ZeroHalfOpen EXCEPT !.MaxProbes = DefaultHalfOpenProbeCount,
                            !.RequiredSuccesses = DefaultHalfOpenProbeCount]
  ELSE p

NormalObserver(observer, delivery) ==
  CASE observer = Nil -> [mode |-> "disabled", buffer |-> 0, overflow |-> "newest"]
    [] observer # Nil /\ delivery = Nil ->
         [mode |-> "asynchronous", buffer |-> DefaultEventBuffer, overflow |-> "newest"]
    [] observer # Nil /\ delivery.type = "Synchronous" ->
         [mode |-> "synchronous", buffer |-> 0, overflow |-> "newest"]
    [] OTHER ->
         [mode |-> "asynchronous", buffer |-> delivery.Buffer, overflow |-> delivery.Overflow]

\* normalizedConfig, of a Config without a fault; the name and the borrowed
\* collaborators (clock, classifier, random source, callback) are left out.
Normalized(c) ==
  [window |-> NormalWindow(c.Window),
   minimumThroughput |-> OrDefault(c.MinimumThroughput, DefaultMinimumThroughput),
   slowCallDuration |-> OrDefault(c.SlowCallDuration, DefaultDuration),
   opening |-> NormalOpening(c.Opening),
   openDuration |-> NormalOpenDuration(c.OpenDuration),
   halfOpen |-> NormalHalfOpen(c.HalfOpen),
   permitTTL |-> OrDefault(c.PermitTTL, DefaultDuration),
   halfOpenWait |-> c.HalfOpenAdmission.type = "WaitForProbe",
   halfOpenMaxWait |-> IF c.HalfOpenAdmission.type = "WaitForProbe"
                       THEN c.HalfOpenAdmission.MaxWait ELSE 0,
   observer |-> NormalObserver(c.Observer, c.EventDelivery),
   openDurationJitter |-> c.OpenDurationJitter]

-----------------------------------------------------------------------------
(* The window's constructor, which checks again *)

\* NewCount and NewTime return an error, and newRollingWindow discards it.
ConstructorFails(w) ==
  IF w.type = "TimeWindow"
  THEN \/ w.BucketDuration <= 0
       \/ w.BucketCount <= 0 \/ w.BucketCount > MaxBucketCount
       \/ IntervalOverflows(w)
  ELSE w.Size <= 0 \/ w.Size > MaxCountSize

NewWindow(w) ==
  IF ConstructorFails(w) THEN Nil
  ELSE IF w.type = "TimeWindow" THEN NewTime(w.BucketCount) ELSE NewCount(w.Size)

-----------------------------------------------------------------------------
VARIABLES
  config,    \* the caller's Config
  edits,     \* fields set so far
  result,    \* what New returned: "pending", NoError or the field at fault
  breaker    \* the breaker, or Nil

configVars == <<config, edits, result, breaker>>

ConfigInit == config = ZeroConfig /\ edits = 0 /\ result = "pending" /\ breaker = Nil

Edit(c) ==
  /\ result = "pending" /\ edits < MaxEdits /\ c # config
  /\ config' = c /\ edits' = edits + 1
  /\ UNCHANGED <<result, breaker>>

Pointee(pointer, zero) == IF pointer = Nil THEN zero ELSE pointer

SetField(f, v) == Edit([config EXCEPT ![f] = v])
SetOpening(f, v) ==
  Edit([config EXCEPT !.Opening = [Pointee(@, ZeroOpening) EXCEPT ![f] = v]])
SetHalfOpen(f, v) ==
  Edit([config EXCEPT !.HalfOpen = [Pointee(@, ZeroHalfOpen) EXCEPT ![f] = v]])

New ==
  LET normal == Normalized(config)
  IN /\ result = "pending"
     /\ result' = InvalidField(config)
     /\ breaker' = IF result' # NoError THEN Nil
                   ELSE [config |-> normal, window |-> NewWindow(normal.window),
                         state |-> "closed", streak |-> 0, probes |-> 0]
     /\ UNCHANGED <<config, edits>>

-----------------------------------------------------------------------------
(* A dependency that only fails slowly, then one that only succeeds *)

\* Bound on the streak: no caller here writes a larger ConsecutiveFailures.
MaxStreak == MaxCountSize + 1

SlowFailure ==
  LET n == breaker.config
      streak == IF breaker.streak = MaxStreak THEN MaxStreak ELSE breaker.streak + 1
      r == [Class |-> Failure, Slow |-> TRUE]
      timed == n.window.type = "TimeWindow"
      w == IF timed
           THEN TimeAdd(breaker.window, n.window.BucketCount, n.window.BucketDuration, 1, r)
           ELSE CountAdd(breaker.window, n.window.Size, r)
      s == IF timed
           THEN TimeSnapshot(w, n.window.BucketCount, n.window.BucketDuration, 1)
           ELSE w.snapshot
      opens == OpeningDecision(n.opening, n.minimumThroughput, streak, s)
  IN /\ breaker # Nil /\ breaker.state = "closed" /\ breaker.window # Nil
     /\ breaker' = [breaker EXCEPT !.window = w, !.streak = streak,
                                   !.state = IF opens THEN "half_open" ELSE @]
     /\ UNCHANGED <<config, edits, result>>

\* The quota bounds classified probes of one half-open period.
ProbeSucceeds ==
  LET policy == breaker.config.halfOpen
      n == breaker.probes + 1
  IN /\ breaker # Nil /\ breaker.state = "half_open" /\ breaker.probes < policy.MaxProbes
     /\ breaker' = [breaker EXCEPT
                      !.probes = n,
                      !.state = IF ProbeCloses(policy, Success, n, n) THEN "recovered" ELSE @]
     /\ UNCHANGED <<config, edits, result>>

ConfigNext ==
  \/ \E f \in DOMAIN FieldChoices : \E v \in FieldChoices[f] : SetField(f, v)
  \/ \E f \in DOMAIN OpeningChoices : \E v \in OpeningChoices[f] : SetOpening(f, v)
  \/ \E f \in DOMAIN HalfOpenChoices : \E v \in HalfOpenChoices[f] : SetHalfOpen(f, v)
  \/ New
  \/ SlowFailure
  \/ ProbeSucceeds

\* The dependency keeps answering: what becomes of the breaker is its own doing.
ConfigSpec ==
  /\ ConfigInit /\ [][ConfigNext]_configVars
  /\ WF_configVars(SlowFailure) /\ WF_configVars(ProbeSucceeds)

-----------------------------------------------------------------------------
(* Properties *)

(***************************************************************************)
(* A breaker New returns meets every assumption the other modules make of  *)
(* its configuration.  In particular the window's constructor, which       *)
(* validates again and whose error newRollingWindow throws away, never     *)
(* disagrees with normalizeWindow: the breaker would hold a nil window.    *)
(***************************************************************************)
Buildable ==
  breaker # Nil =>
    LET n == breaker.config
    IN /\ breaker.window # Nil
       /\ n.minimumThroughput > 0 /\ n.slowCallDuration > 0 /\ n.permitTTL > 0
       /\ ValidOpening(n.opening)
       /\ ValidOpenDuration(n.openDuration) /\ n.openDuration.Multiplier # Inf
       \* A count that is not positive is disabled, as zero is in Breaker.
       /\ ValidHalfOpen([n.halfOpen EXCEPT !.RequiredSuccesses = IF @ < 0 THEN 0 ELSE @])
       /\ n.halfOpenWait => n.halfOpenMaxWait > 0
       /\ n.observer.mode = "asynchronous" =>
            n.observer.buffer \in 1..MaxEventBuffer /\ n.observer.overflow # "unknown"
       /\ n.openDurationJitter \in 0..99

\* Where a caller sets what the error's Field names: <<Field, field of the struct>>.
ConfigFields ==
  {<<f, f>> : f \in DOMAIN FieldChoices}
    \cup {"Window.Size", "Window.BucketDuration", "Window.BucketCount"} \X {"Window"}
    \cup {"OpenDuration.Initial", "OpenDuration.Multiplier", "OpenDuration.Maximum"}
           \X {"OpenDuration"}
    \cup {"HalfOpenAdmission.MaxWait"} \X {"HalfOpenAdmission"}
    \cup {"EventDelivery.Buffer", "EventDelivery.Overflow"} \X {"EventDelivery"}
OpeningFields ==
  {<<"Opening.FailureCount", "FailureCount">>, <<"Opening.FailureRatio", "FailureRatio">>,
   <<"Opening.SlowCount", "SlowCount">>, <<"Opening.SlowRatio", "SlowRatio">>,
   <<"Opening.Combination", "Combination">>, <<"Opening.IgnoredBehavior", "IgnoredBehavior">>}
HalfOpenFields ==
  {<<"HalfOpen.MaxProbes", "MaxProbes">>, <<"HalfOpen.RequiredSuccesses", "RequiredSuccesses">>,
   <<"HalfOpen.SuccessRatio", "SuccessRatio">>, <<"HalfOpen.FailureAction", "FailureAction">>}

\* The Configs a caller gets by changing one thing the error's Field names.
ConfigChanges(f) == {[config EXCEPT ![f] = v] : v \in FieldChoices[f]}
OpeningChanges(f) == {[config EXCEPT !.Opening[f] = v] : v \in OpeningChoices[f]}
HalfOpenChanges(f) == {[config EXCEPT !.HalfOpen[f] = v] : v \in HalfOpenChoices[f]}

Named(field, fields) == {p[2] : p \in {q \in fields : q[1] = field}}

Repairs(field) ==
  UNION (    {ConfigChanges(f) : f \in Named(field, ConfigFields)}
        \cup {OpeningChanges(f) : f \in Named(field, OpeningFields)}
        \cup {HalfOpenChanges(f) : f \in Named(field, HalfOpenFields)}
        \cup {{[config EXCEPT ![f] = Nil]} : f \in {"Opening", "HalfOpen"} \cap {field}})

(***************************************************************************)
(* The Field of an InvalidConfigError is the one to change: some value of  *)
(* that field alone makes New stop complaining about it, whatever else the *)
(* Config holds.                                                           *)
(***************************************************************************)
NamedFieldRepairs ==
  result \notin {"pending", NoError} =>
    \E c \in Repairs(result) : InvalidField(c) # result

(***************************************************************************)
(* New accepts no policy that cannot open and none that cannot recover:    *)
(* every accepted breaker opens against a dependency that only fails, and  *)
(* slowly, and then closes within its probe quota against one that only    *)
(* succeeds.                                                               *)
(***************************************************************************)
EveryConfigWorks == (breaker # Nil) ~> (breaker # Nil /\ breaker.state = "recovered")

=============================================================================
