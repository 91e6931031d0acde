# A TLA+ model of go-circuit-breaker

These modules model the circuit breaker of this repository: its state machine
and permits, the loop of a waiting caller, `Execute`, its rolling windows and the
arithmetic under them, its policies, its construction, both kinds of observer
delivery, and the test support. TLC checks them on small instances. TLAPS proves
every invariant and every safety property of steps that the passing runs check, for every
value of the constants, and that the state machine and the count window implement
their abstract specifications; what is left to TLC alone is liveness.

Run everything from this directory:

    tlc -workers 2 -config breaker_reject.cfg MCBreaker
    tlapm BreakerProofs.tla

`PROJECT.json` lists the runs, the lines of source each definition stands for,
the mutated definitions that each property rejects, and the hazards the
properties are for.

## Inventory of the system

| Part | State | Operations | What is hard | What makes it correct |
|---|---|---|---|---|
| Breaker (`breaker.go`) | state, mode, generation, window, failure streak, open schedule, probe sample, lifetime counters; all under `mu` | `Acquire`, `SetMode` and its shorthands, `Reset`, `Snapshot` | every operation samples the caller's clock before it takes `mu`; no timer moves the state, so eligibility and expiry are seen lazily by whoever comes next | state and mode change with the generation; only current recording permits touch health; probes are counted exactly |
| Permit (`breaker.go`) | generation, state, deadline, recording, execution, status | `Complete`, `Cancel`, expiry | a permit outlives resets, mode changes and samples; `Execute` permits complete after expiry | terminal once; stale permits reach only the lifetime totals |
| Admission waiting (`acquire`) | the channel captured, the absolute deadline, a timer | wait, wake, retry, time out, be cancelled | select outside the lock, broadcast by closing and replacing the channel | no lost wake-up |
| Opening policy (`policy.go`) | none | `openingDecision` | throughput gate, combinations | closed never holds evidence that should have opened |
| Open schedule (`breaker.go`) | openCount, currentOpenDuration, nextProbeAt | `openLocked`, `openDurationLocked`, `jitterDuration` | truncation, cap, order of increment and read | timing belongs to the number of consecutive openings |
| Half-open policy (`breaker.go`, `config.go`) | active, completed, successes, map of probes | `completeHalfOpenLocked` | several thresholds at their boundaries | a sample can always be decided, and is decided as soon as it can be |
| Count window (`window/count.go`) | ring, next, length, aggregate | `Add`, `Snapshot` | wrap-around, incremental aggregate | aggregate equals a recount of the last records |
| Time window (`window/time.go`) | ring of buckets, latest bucket id | `Add`, `Snapshot` (also a step) | slot reuse, gaps, backward clocks, negative ids | snapshot counts exactly the live completions |
| Observer (`observer.go`) | queue, eventMu, closed, stop and done flags, counters | dispatch, enqueue, worker, `Close`, `Shutdown` | producers, worker, callback re-entry and `Close` race | every event accounted for, nothing stranded, shutdown ends |
| Observer, synchronous (`observer.go`, `breaker.go`) | `pendingEvents` under `mu` | record, take, deliver | callbacks re-enter the breaker, goroutines race for `mu` | the committer delivers its own events, and operations return |
| Execute (`execute.go`) | one permit per call | admit, run, classify, complete | panics of operation, classifier, clock and timer, invalid classification, expiry while running | every call that got its permit ends it, once, and the totals say how |
| Rejections (`errors.go`) | cause, state, mode, generation, RetryAt | returned by `Acquire` | acted on after the breaker has moved on | what a rejection says holds as long as its generation does |
| Configuration (`config.go`) | none | `New`, `normalizeConfig` | limits, NaN, defaults that meet other fields, validation done twice | accepted policies can open and recover |
| Manual clock (`breakertest/clock.go`) | time, retained timers | `NewTimer`, `Set`, `Advance`, `Stop` | `Advance` is not atomic, `Set` sends under the lock | no timer lost, early, twice or out of order |
| Recorder (`breakertest/support.go`) | events, dropped | `Observe`, `Events`, `Reset` | one array shifted in place | keeps the newest; what a test holds does not change |
| Scripted classifier (`breakertest/support.go`) | script, cursor | `Classify` | nothing | |

The breaker calls the window and the policies under `mu`. It hands events to the
observer after it has released `mu`, in the goroutine that committed the
transition. Classifier, operation, clock, random source and observer callback
are the caller's code and run outside `mu`.

## Modules

| Module | Models |
|---|---|
| `Window` | records, the aggregate, `Snapshot.add` and `remove` |
| `CountWindow`, `TimeWindow` | the two windows as operators on a window value |
| `RollingWindow` | the `rollingWindow` interface: one window of the configured kind |
| `SlidingWindow` | abstract: the last `Size` classified records and a count of ignored ones |
| `CountWindowSpec` | a count window in use, and its refinement of `SlidingWindow` |
| `TimeWindowSpec` | a time window in use, with a history of everything recorded |
| `Policy` | opening rules, schedule, jitter, half-open verdict, accepted policies |
| `Breaker`, `MCBreaker` | the state machine over `Policy` and `RollingWindow` |
| `Circuit` | abstract: three states, a mode and a sample of at most `MaxProbes` probes |
| `BreakerCircuit`, `MCCircuit` | the refinement of `Circuit` by `Breaker` |
| `Execute`, `MCExecute` | calls of `Execute` as processes over `Breaker` |
| `Admission`, `MCAdmission` | the loop of `acquire` over a clock that advances, with timers |
| `Rejections`, `MCRejections` | `Breaker` with the rejection each caller still holds |
| `TransitionEvents` | what both kinds of delivery share |
| `Observer` | asynchronous event delivery |
| `SyncObserver` | synchronous event delivery, with re-entry |
| `MCObserver` | the delivery the configuration chose, of either kind |
| `BucketID` | bucket ids in sign and two words, at a reduced word width |
| `Schedule`, `MCSchedule` | the schedule and its jitter in rounded floats and bounded words |
| `MCArithmetic` | `Schedule` and `BucketID` side by side |
| `Config` | `New`: the checks in order, the defaults, and a trial of what was built |
| `MCConfig` | `Config`, or the window a configuration chose, of either kind |
| `ManualClock`, `Recorder`, `MCBreakertest` | the test support |
| `Words` | the powers of two that bound a machine word |
| `Induction` | lemmas: induction and iteration over sets of naturals |
| `BreakerProofs` | theorems about `Breaker` and the schedule of `Policy` |
| `ContractProofs` | theorems about `BreakerCircuit`, `Rejections`, `Execute` and `Admission` |
| `WindowProofs` | theorems about `CountWindowSpec`, `TimeWindowSpec` and `Config` |
| `ArithmeticProofs` | theorems about `Schedule` and `BucketID` |
| `BreakertestProofs` | theorems about `Recorder` and `ManualClock` |
| `ObserverProofs`, `SyncObserverProofs` | theorems about the two observers |

`Execute`, `Admission`, `Rejections` and `BreakerCircuit` extend `Breaker` and use
its actions as they are: a process composed with the breaker takes the breaker's
own critical sections as its steps. `MCConfig`, `MCArithmetic`, `MCObserver` and
`MCBreakertest` put machines that share nothing into one run: the initial state
chooses one, and the others do not move. The actions of such machines have names of
their own (`TimeInit`, `SyncNext`, `RecorderSpec`), so that one module can extend
them all.

### Breaker

One action is one critical section of `mu`. `acquire` reads `Clock.Now()` before
it locks, and so do `Complete`, `Cancel`, `SetMode`, `Reset` and `Snapshot`, so an
action takes `now` from `Time` with no relation to the instants other actions
used: goroutines that were delayed between sampling and locking, and clocks that
step back, are both included. A clock that panics makes `Complete` and `Cancel`
go on with the admission time and makes the other operations stop before the
lock. Jitter is sampled before the lock too and is any member of
`JitterSamples`.

| Code | Model |
|---|---|
| `state`, `mode`, `generation`, `consecutiveFailures`, `window` | variables of the same names |
| `openCount`, `currentOpenDuration`, `nextProbeAt` | `schedule` |
| `halfOpenActive`, `-Completed`, `-Successes`, `-Permits` | `probe` |
| `admitted`, `rejected`, `completed`, `total...` | `totals` |
| the fields of each `Permit` | `permit`; status `"none"` is one not handed out yet |
| a goroutine in the loop of `acquire` | `caller`: `"parked"` on the current channel, or `"woken"` when that channel was closed |
| `tryAcquireLocked` | `AcquireDisabled`, `AcquireClosed`, `AcquireFirstProbe`, `AcquireProbe`, `RejectOutright`, `RejectExhausted`, `Wait` |
| `completeAt` | `CompleteExpiredExecution`, `CompleteHealthless`, `CompleteClosed`, `CompleteProbe`, `CompleteProbeReopens`, `CompleteProbeRecovers`, `ExpirePermit` |
| `cancelAt` | `Cancel`, `ExpirePermit` |

A repeated terminal call, an invalid outcome, a same-mode `SetMode` and an
`Acquire` whose context has ended change nothing and are stutters.
`transitionCount` (always `generation - 1`) and `lastTransition` are reported and
never read, and are left out. Reading a time window advances it, so every
transition, and every `Snapshot`, includes `WindowObserve`; an enabled observer
(`Observed`) also reads the new window of a closing transition.

Ratios, multipliers and jitter are whole percentages compared without division.
The code divides `float64` values, which agrees at small counts. Durations are
small integers. So the jitter here is exact, and what `float64` makes of a long interval
is left to `Schedule`. The recursive schedule is a recursive function, which the provers
can unfold (see [Induction](#induction-over-data)).

### Observer

A goroutine is a client or the worker. A client commits a transition (the event
is its number), then locks `eventMu` and goes through `enqueue` one channel
operation at a time, since the worker receives without `eventMu`. The callback
may fail, commit transitions of its own and call `Close`. It does not call
`Shutdown`: the code says it must not, since the worker would wait for itself.
The overflow policy is chosen in `Init`.

One behaviour of `enqueue` is worth knowing: under `DropOldestEvent` the worker
may receive between the full-queue check and the eviction, and then an event is
evicted although a slot was free. `EventsAccounted` shows that it is counted.

### Circuit

`BreakerCircuit` maps `halfOpenPermits` to the outstanding probes and
`halfOpenCompleted` to the classified ones, and forgets clocks, windows, permits'
records and waiting callers. `Circuit` says who may move the state (the policy in
normal mode, or an operator), that a sample starts with one probe or none and
ends with the state, and that a probe leaves it classified or not at all.

### Execute

A goroutine is admitted, and then ends in one step that stands for everything up
to its last critical section: the two clock samples, the operation, the
classifier. Each of them may panic; the deferred function of `Execute` then
completes the permit with a failure, or cancels it when the classification was
invalid. The slow flag comes from the two samples, which may be any instants.

Under `WaitForProbe` a call may park in `acquire` first. A call that waited has a
timer, which `acquire` stops in a deferred function, after the turn that admitted it:
if that `Stop` panics, the caller gets the panic, `Execute` has not seen the permit and
nobody ends it (`StopPanics`). The permit then counts against its sample until
somebody comes after its deadline. `CallOwnsPermit` names this as the one exception,
and `execute_stop` shows it. The policy of the run waits, so the rejection of an
exhausted sample is not reached in it; the theorem has both, and `breaker_reject`
has it for two-step calls.

### Admission

`Breaker` lets every critical section work with any instant. `Admission` restricts
the waiting loop to the instants it really has: a clock that only advances, read
before the lock; a timer created after the lock was given up; a select between the
timer, the captured channel and the context. Time stops at the largest instant
of `Time`, and a caller enters only while its wait still fits before it and while
a permit, a rejection and a generation are left for it (`Room`), so no caller is
stopped by a bound.

One behaviour is worth knowing. Expiry is lazy, so a caller parked behind a probe
that was abandoned is not woken when that probe's time to live ends: unless
somebody acquires or takes a snapshot it waits its full `MaxWait`. `WaitEnds`
holds all the same.

A behaviour is of one of two scenarios. In `"any"` the other goroutines do what
they like. In `"recovery"` the dependency failed once and works again, so probes
succeed within a tick, and callers come back when `RetryAt` says so; there the
breaker must close again. `NoEarlyTimeout` is about the first: in the second a wait
may outlast the horizon, where the clock stands still.

### Rejections

Each caller keeps its last `RejectionError`. A step is a step of `Breaker`; those
that reject also store the error. A timeout's error is built from the state the
breaker has when the timer fires, which need not be half-open any more; the run
has a policy that does not wait, so this last case is modelled and not checked.

### SyncObserver

A goroutine is a stack of operations, each inside a callback of the one below. An
operation commits under `mu`, takes what is pending when it unlocks, and delivers
it without the lock; the callback may call the breaker again. `Snapshot`, and an
`acquire` that finds its context ended, unlock without taking (`UnlockPlainly`). They
record no event themselves, so nothing is lost as long as no other operation left
one behind: `PendingIsTheHolders`.

### BucketID and Schedule

Both are the arithmetic of the code with words of any width; TLC takes narrow ones,
where it can try every instant and bucket duration, and seven interval lengths around
the width of the mantissa, its powers of two and the largest duration. `BucketID` has words of 5 bits and seconds of 7 nanoseconds, so that the
fast path, the wide path, the borrow and both signs occur; its properties compare
each step with floor division of mathematical integers, and say that `TimeWindow`
may use integers. `Schedule` has durations of 7 bits and floats with a mantissa of
4 bits, so that durations above the mantissa, products that do not grow and
products beyond the largest duration all occur. An out-of-range conversion yields
the smallest duration or the largest, as on amd64 and on arm64. The widths are
constants: the theorems hold for words and mantissas of any width, hence for 64 and
53 bits.

### Config

A caller sets fields of a `Config` one at a time, each to values on both sides of
every limit, and calls `New`. `Checks` is the sequence of checks in the order of
the code, and the first that fails is the error's `Field`. Interface values are
records with a type, so nil, typed nil, pointers and foreign types differ; NaN
compares false with everything. What was built then meets a dependency that only
fails slowly, and after it opened one that only succeeds.

### ManualClock and Recorder

Operations of the clock are atomic under its lock, except that `Advance` reads and
sets in two critical sections. A send needs room in the timer's channel. The
stable sort of `Set` is modelled by what it promises, `Sorted`: the sequences that
hold the same timers, ordered by deadline and then by place. `SortsAlways` shows that
there is one whatever is pending, so the relation never disables `Set`. The
recorder is modelled with the array behind its slice, because `Observe` and `Reset`
reuse it.

## Runs

| Run | Instance | Distinct states | Shows |
|---|---|---|---|
| `config` | 3 fields set; count window: ring of 3, at most 2 ignored; time window: instants -4..5, buckets of 2, ring of 2, 3 completions | 424,251 | what `New` accepts is what the other modules assume; errors name a field that repairs them; every accepted configuration opens and recovers; the count ring implements `SlidingWindow` and its aggregate never drifts; time snapshots match the history |
| `arithmetic` | 5-bit words, 7 nanoseconds a second; 7-bit durations, 4-bit mantissas, 6 openings | 37,775 | bucket ids are exact floors, ordered and spread over the ring as integers are; intervals are capped, and grow until the cap |
| `breaker_reject` | 3 permits, 1 caller, instants 1..2, 5 generations, 2 required successes, reopen at once, counters in the view | 216,984 | epochs, probe accounting, isolation of stale permits, no leftover evidence, lifetime accounting |
| `breaker_wait` | 4 permits, 2 waiting callers, 5 generations, ratio over 2 probes, reopen after the sample | 91,940 | quota, decidable samples, wake-ups, `Breaker` implements `Circuit` |
| `breaker_time` | 2 permits, 1 caller and its last rejection, instants 1..3, time window, exponential schedule with jitter, all-rules combination, observed | 259,569 | open timing; RetryAt is kept, and the generation fences what a rejection says |
| `admission` | 2 callers, 4 permits, instants 1..4, MaxWait 2, both scenarios | 269,082 | a wait ends, not early, and its deadline is absolute; a breaker whose dependency works again closes |
| `execute` | 2 goroutines, 3 permits, 4 generations, waiting for probes | about 88,700 | every call ends its own permit, unless its timer panicked, and the totals match how calls ended |
| `observer` | 2 clients; asynchronous: the worker, buffer 2, 4 events, both overflow policies; synchronous: 3 nested operations, 3 transitions | 53,029 | accounting, room for the blocking send, nothing stranded; `Close` ends the worker, `Shutdown` returns, events settle; pending events are the lock holder's, committers deliver, operations return |
| `breakertest` | 2 goroutines in `Advance`, 3 timers, 3 instants; a recorder of 3, 8 deliveries | 512,838 | timers retained, fired and notified exactly; the newest events are kept and slices handed out do not change |

Three runs show where a document and the code disagree, and are expected to find a
violation.

- `schedule_jitter` checks `JitterOnlyShortens`, which is `docs/policies.md:117`,
  "never exceeds the configured schedule". TLC finds a duration with more bits than
  the mantissa, which is rounded up before a sample near zero shortens it
  (`breaker.go:657`); with 53 bits that takes an interval of more than 2^53 ns, about
  104 days. `JitterShortensExact` proves that it takes no less.
- `execute_stop` checks `ProbesHeld`: `docs/assurance.md:100` lists a stranded
  half-open permit after a panic of "`Clock`, `Timer`, or `Random`" as fixed. TLC finds
  a call that waited, is admitted to a probe, and panics in the deferred `timer.Stop()`
  (`breaker.go:153`). Lazy expiry frees the slot, at the permit's deadline.
- `execute_totals` checks `EveryCallCounted`: `docs/design.md:133` says that "every
  terminal `Execute` increments exactly one lifetime outcome total", while a call
  whose classifier returns an unknown outcome is cancelled (`execute.go:71`) and
  counted by none, as the table at `docs/design.md:70` and `EndingsCounted` have it.

### Bounds

`Permit` bounds admissions, `MaxGeneration` transitions, `MaxRejected`
rejections, `MaxIgnored`, `MaxAdds`, `MaxEvents` and `MaxTransitions` the histories. One permit
opens the breaker and two fill a sample of two; the fourth of `breaker_wait` is
the replacement that a woken caller acquires. Generation 1 is closed, 2 open, 3
half-open, and 4 and 5 are what follows: recovery, reopening, a second sample,
a mode change and its release, a reset in the middle. With a time to live of 1
and two instants a permit can be live, at its deadline, and expired by a sample
that another goroutine took. The ring sizes make every run wrap around. Five
bucket ids share two slots, so three of them alias, and some lie more than a
window apart and on both sides of the epoch.

The breaker runs use symmetry over permits and a view. A permit that can change
no more has the same future whatever its other fields are; the counters are read
by nothing but the `MaxRejected` bound, which is out of reach in `breaker_wait`,
`breaker_time` and `execute`. `breaker_reject` keeps the counters in its view and
stops after one rejection. `breaker_wait` also merges stale permits of different
epochs, which none of its properties tells apart. In `execute` calls are told apart
only up to symmetry; which of the states that look alike TLC meets first varies a
little, and so does its count.

The recovery scenario of `admission` has one opening and needs at most four
rejections: each of two callers may be refused with a sample from before the
opening, and time out once.

`config` sets three fields because the checks that relate fields relate two
(window and throughput, window and a count rule, quota and threshold) and a
third field chooses between all and any of two rules, or adds a second fault, so
that the order of the checks matters. The reduced maxima of `config`
keep every limit and the next value beyond it; the defaults keep their order
with the maxima (`ConfigAssumption`). Three timers of `breakertest` are the least
for which a removal from the middle can reorder two of equal deadline.

Deadlock checking is on except in `admission`, where time reaches its horizon, and
in `config`, where construction is over. The breaker can always
be asked for a snapshot, so it shows something only in `observer`.

### Fairness

The safety runs of the breaker assume none. `Observer` assumes weak fairness for
each step of a goroutine that can go on (the scheduler), strong fairness for
taking `eventMu` (`sync.Mutex` hands over to a waiter that starves) and strong
fairness for the callback's return (the caller bounds its callbacks, as the
code's comment on `Observer` requires). Nobody has to commit a transition, to
call `Close` or to cancel a context.

`SyncObserver` assumes the same for goroutines, for `mu` and for callbacks; in
`MCObserver` each kind of delivery has its own fairness.
`Admission` assumes that time passes and that a caller which can take a step of the
loop does; nobody has to complete a probe or to call. Its recovery scenario adds that the
dependency works again, that its calls finish, and that callers come back when
`RetryAt` says so: a breaker nobody calls stays open, since nothing but a call
moves it. The trial of `Config` assumes only that the dependency keeps answering.

## Proofs

| Theorem | Module | States |
|---|---|---|
| `TypeCorrect` | `BreakerProofs` | `Spec => []TypeOK` |
| `EpochsDecide` | `BreakerProofs` | `Spec => []EpochDeterminesState` |
| `ProbesAccounted` | `BreakerProofs` | `Spec => []ProbeAccounting` |
| `QuotaKept` | `BreakerProofs` | `Spec => []ProbeQuota` |
| `NeverWedged` | `BreakerProofs` | `Spec => []NoProbeWedge` |
| `WakeupsKept` | `BreakerProofs` | `Spec => []NoLostWakeup` |
| `EpochsStep` | `BreakerProofs` | `Spec => EpochStep` |
| `HealthIsolated` | `BreakerProofs` | `Spec => HealthIsolation` |
| `OpenTimingKept` | `BreakerProofs` | `Spec => []OpenTiming` |
| `ClosedBelow` | `BreakerProofs` | `Spec => []ClosedBelowThreshold` |
| `LifetimeCounted` | `BreakerProofs` | `Spec => []LifetimeAccounting` |
| `ScheduleBounds` | `BreakerProofs` | every scheduled interval lies in `Initial..Maximum` |
| `Refinement` | `ContractProofs` | `Spec => ImplementsCircuit` |
| `RejectionsFenced` | `ContractProofs` | `RSpec => []GenerationFences` |
| `RetryAtHolds` | `ContractProofs` | `RSpec => RetryAtKept` |
| `RingSlides` | `WindowProofs` | `Spec => ImplementsSlidingWindow` |
| `AggregateExact` | `WindowProofs` | `Spec => []AggregateMatchesRecount` |
| `SnapshotExact` | `WindowProofs` | `TimeSpec => []SnapshotMatchesHistory` |
| `NewAlwaysBuilds` | `WindowProofs` | `ConfigSpec => []Buildable` |
| `NamedFieldAlwaysRepairs` | `WindowProofs` | `ConfigSpec => []NamedFieldRepairs` |
| `ScheduleAlwaysGrows` | `ArithmeticProofs` | `Spec => ScheduleGrows` |
| `JitterShortensExact` | `ArithmeticProofs` | `Spec => []ShortensExact`: no jittered interval is empty, and none that a float holds grows |
| `FloorAlwaysExact` | `ArithmeticProofs` | `BucketSpec => []FloorExact` |
| `IdentitiesAlwaysExact` | `ArithmeticProofs` | `BucketSpec => []IdentitiesExact` |
| `RecorderAlwaysExact` | `BreakertestProofs` | `RecorderSpec => []RecorderExact` |
| `TimersAlwaysExact` | `BreakertestProofs` | `Spec => []TimersExact` |
| `NotifiesAlwaysInOrder` | `BreakertestProofs` | `Spec => []NotifiesInOrder` |
| `SortsAlways` | `BreakertestProofs` | a sorted sequence exists for any pending timers |
| `PermitsOwned` | `ContractProofs` | `ExecuteSpec => []CallOwnsPermit` |
| `CallsCounted` | `ContractProofs` | `ExecuteSpec => []EndingsCounted` |
| `TimeoutsNotEarly` | `ContractProofs` | `AdmissionSpec => NoEarlyTimeout` |
| `WaitIsAbsolute` | `ContractProofs` | `AdmissionSpec => AbsoluteDeadline` |
| `ResendNeverBlocks` | `ObserverProofs` | `Spec => []ResendHasRoom` |
| `WorkerDrains` | `ObserverProofs` | `Spec => []NothingStranded` |
| `EventsCounted` | `ObserverProofs` | `Spec => []EventsAccounted` |
| `PendingTaken` | `SyncObserverProofs` | `SyncSpec => []PendingIsTheHolders` |
| `DeliveryExact` | `SyncObserverProofs` | `SyncSpec => []DeliveredByCommitter` |

### Assumptions

The theorems about the breaker rest on `BreakerAssumption` and `WindowAssumption`,
which say what `normalizeConfig` accepts. There are no bounds on the sets:
`Permit`, `Caller` and `Time` are arbitrary, and so are the policies. `Admission`
also has a first and a last instant of `Time` (its horizon), a positive `MaxWait` if
the policy waits, and permits that are numbers. `Execute` has a positive
`SlowCallDuration` and nothing else: its policy may wait or reject. The observers have a worker that is no client, a buffer
of at least one event, finitely many goroutines, and a `Free` that is not a
goroutine; the last says only that an unlocked mutex differs from a locked one.

The windows have rings of at least one slot; instants are any integers. The words of
`BucketID` have at least two bits and a second has fewer nanoseconds than the largest
signed word. The mantissas of `Schedule` have at least four bits and no more than a
duration has; multipliers are at least one and jitter is below one, as `New` checks.
`ConfigAssumption` relates the defaults of `config.go` to the limits they must keep.
The clock and the recorder have any clients, any instants and any positive capacity.

### Induction over data

The library's induction theorems take an operator as a parameter, which the
installed provers cannot instantiate. `Induction` goes round this with sets in
place of operators: `LeastElement`, that a set of naturals has a least member, from
the well-founded ordering of the library; `SetInduction`, that a set which holds 0
and successors holds every natural; and `Iteration`, that every step function has
its sequence of iterates. The last is what a recursive function needs to be
unfolded: `Power`, the loop of `openDurationLocked` and the sum over buckets are
each shown to satisfy their recursion before anything else is said of them.

### The half-open sample: `IInv`

`TypeOK` carries `FiniteProbes` along, since a set of probes that grows by one
permit at a time is finite even when `Permit` is not. The five invariants of
the half-open sample are proved together:

- a permit of the current generation was admitted in the current state and
  records health exactly in normal mode;
- `halfOpenPermits` is exactly the set of active recording probes of the current
  sample and `halfOpenActive` is its size;
- active and classified probes never exceed `MaxProbes`;
- a sample in half-open has not used its quota and not met its threshold;
- a parked caller waits for a probe that is outstanding.

None is inductive alone. Releasing a slot subtracts one for each released probe,
which keeps the count right only if the map is right; the map is right when a
permit of the current generation has the current state, which is the epoch
invariant; a caller parks only when the quota is spent, and an outstanding probe
exists then only because the classified part of the quota is not used up, which
is the wedge invariant. `IInv` is their conjunction. The argument has one step
for each action of `Next`; most of them are an instance of one of three lemmas:
a new generation (`NewEpochStep`), permits that end within one (`TerminalStep`)
and a step that leaves the sample alone (`UnchangedSample`). That a policy
accepted by `normalizeHalfOpen` cannot wedge is used in `CompleteProbeStep`: with
`RequiredSuccesses` and `ReopenImmediately`, every classified probe is a success,
and there are no more than `MaxProbes` of those before the threshold is met.

### Epochs, timing, evidence and counters

This part of `BreakerProofs` builds on `IInv`. Its first lemma, `EpochOf`, says of every action
that it leaves state, mode, generation and open timing alone or begins the next
generation; `EpochsStep` follows, and the proofs about rejections use it again.
`HealthIsolated` goes through the actions that end a permit: those that touch
health ask for a current recording permit, which is what the property excludes.
`OpenTimingKept` is inductive with `IInv`. `ClosedBelow` rests on how a count window
and the failure streak can change while closed (`EvidenceOf`): they stay, start
afresh, or a completion adds to them after `openingDecision` has said no. For
`LifetimeCounted` the permits handed out are shown to be finite along the way
(`Counted`), so that handing one out adds one to their number. `ScheduleBounds` is by
induction over the loop of the schedule, which multiplies and caps; it is what
makes the intervals of `OpenTiming` positive for every accepted policy.

### The contract: `Circuit` and rejections

`Refinement` is proved step by step, with `IInv` as the invariant: admission within
a sample maps to the circuit's admission because the quota holds, a completion
that does not decide maps to `Classify` or `GiveUp` because `NoProbeWedge` holds
after it, lazy expiry of several probes maps to one `GiveUp` of all of them, and
everything about windows, clocks and callers maps to a stutter.

`Fenced` adds to `GenerationFences` that no rejection names a generation of the
future. That makes it inductive: a step within an epoch changes nothing a
rejection reports, by `EpochOf`, and a step that begins one leaves every older
rejection behind. `RetryAtHolds` then compares the sample of the refused caller with
the time the fence keeps.

### The count window

`Ring` says that a ring which is not full has filled from slot 0, and that no slot
holds an ignored record. With it, `SlotOf` computes where the i-th oldest record is
without the remainder, and `RecentMoves` shows that adding a record appends it to
the retained ones and drops their head exactly when the ring is full: a step of
`SlidingWindow`. The aggregate needs no induction over the records: `TallyAdds` and
`TallyRemoves` say what a recount gains from the record that arrives and loses with
the one that leaves, which are the same amounts as `Snapshot.add` and `remove` use.

### The time window

`TimeInv` has three parts. `Progress`: the latest bucket id is the largest any call
has presented. `Owned`: a slot in use counts exactly the completions of one bucket,
which has that place in the ring. `Replaced`: only a later bucket ever takes a slot
from the bucket of a completion. The last is where backward clocks are decided: a
completion of an old bucket lands in the latest one, so that it cannot evict newer
evidence. `Congruent` says that two ids less than one turn apart share no slot, so
each live bucket still owns its slot, or nothing was recorded in it, and the sum of
the live buckets is the recount of the history.

### Construction

The checks of `New` are a sequence, and `ChecksOf` says that its faults are the
faults of its parts: one lemma for each part names the fields at fault and what a
part without a fault satisfies. `ConfigInv` says that a `Config` was written
field by field, that the error is that of its first failing check, and that a
breaker fits (`Fits`) what `Buildable` asks. It stays inductive through the trial,
which changes the window of the breaker but not its kind. For
`NamedFieldAlwaysRepairs` every fault has one reason (`FaultReason`) and every reason
a value that removes it. The order of the checks is needed once: `MinimumThroughput`
set to 1 is accepted because the window, which is checked before it, has a size of
at least one by then.

### Machine numbers

`InSchedule` says that the interval in force is the one the recursion gives for the
number of openings. Bounds and growth (`NextScheduledGrows`) need nothing of a
rounded product but that it converts to an integer (`ProductType`), because the loop
caps every product and takes `Maximum` when one does not grow; so they hold at every
width, and after an out-of-range conversion too. Jitter needs more, since it is applied
after the cap. A duration that the mantissa holds converts exactly; its product has at
most four bits more, so it is rounded to a multiple of 1, 2, 4, 8 or 16 sixteenths
(`RoundIs`), and the duration itself is such a multiple, which the rounding cannot pass
(`RoundsBelow`). `BucketInv` says that the identity
kept by the window is canonical and stands for the floor of the latest instant.
Below it are the operations on sign and two words: `QuoFloor` for the fast path,
`AddIs`, `SubtractIs` and `LongDivision` for the wide one, `CompareIs` and `IndexIs`
for what the ring does with them. Each says which integer the result stands for.

### The test support

`RecorderInv` says which event every place in use holds, for every place of the
array. `ClockInv` says that the slice of the clock holds exactly the timers that
wait, those of equal deadline in the order of creation (`KeepsWaiting`), and that a
timer has fired exactly if the clock reached its deadline while it waited. The order
survives a `Stop` because `Removed` closes the gap, and a `Set` because the sort is
stable. The two sections of `Advance` need no invariant of their own: `Set` keeps
`ClockInv` whatever instant it is given.

### Execute

`Calls` is `CallOwnsPermit` strengthened by `Ownership`, and `EndingsCounted`. The
parts that make it inductive: no two running calls share a permit, a permit has
no ending before its call has one, and every deadline comes from an instant that
was sampled, since a cancellation after a failed clock read goes back to it. Every
step of `Execute` is shown to be a step of `Breaker` (`ExecutingIsAStep`), so all
theorems about `Breaker` hold for it too. That a permit is lost to a timer only under
`WaitForProbe` is `StrandedWaiting`: elsewhere nobody is ever in the wait loop
(`NobodyWaits`), so nobody has a timer to stop.

### The waiting loop

`Loop` relates the caller's wait deadline to the sample the call began with
(`Deadlines`), says that no sample lies in the future (`Samplings`), and that clock
and remaining timer together reach the deadline (`Timers`). A turn may have read
the clock before other callers moved it on, and the timer is created later still;
`Timers` holds because both delays only make it fire later. What the rest of the
breaker can do to a caller is one lemma (`OthersWakeOnly`): wake it, and nothing
else.

### The observers

`Control` of `ObserverProofs` says who is inside the critical section of `eventMu`
and what the holder may rely on. The worker receives without the mutex, so the
holder may rely only on facts that a receive keeps: that there is room after an
eviction (`ResendNeverBlocks`), that `Close` has not closed the queue. `Places` says that queue,
dispatching goroutines, callback and delivered events never share an event; only
with that does a sum of sizes count events, and `EventsCounted` follows. The proof
has one step for each label of `enqueue`, the worker and `Close`.

`Locking` of `SyncObserverProofs` says that `pendingEvents` holds at most the event
just committed, while its committer is about to unlock and take it, so that an
operation which unlocks without taking finds nothing there, and that every frame of a
stack but the last is inside a callback. `Delivery` says where every other event is:
in exactly one frame of its committer, or delivered once. A goroutine with an
empty stack has no frame, so its events have been delivered.

### Only model-checked

Liveness under fairness, which is out of the prover's reach: `WaitEnds`,
`Recovery`, `CloseEndsWorker`, `EventsSettle`, `OperationsReturn` and
`EveryConfigWorks`. No theorem is stated about `JitterOnlyShortens`, `ProbesHeld` and
`EveryCallCounted`, which are false.

## Not modelled

- A call of `runtime.Goexit` in the operation, in the classifier or in a synchronous
  observer of `Execute`: the deferred function sees no panic, or is not there yet, and
  the permit is left to lazy expiry.
- Counters that overflow `uint64`, and `float64` ratios at counts beyond 2^53.
- `systemClock`, `systemTimer` and `standardRandom`: one-line adapters to the
  standard library. Their results are the arbitrary instants and samples of the
  models.
- `Error` and `String` methods, labels and names: formatting.
- The scripted classifier of `breakertest`: a cursor moved under one lock.
- That `New` copies the policies it is given: the models have values only, except
  for the array of `Recorder`.
- The examples, benchmarks and integration consumers of the repository.

## Plan

Done: windows and their arithmetic, policies, schedule, construction, the state
machine, waiting, administration, rejections, `Execute`, both observers, the test
support, the refinement of `Circuit`, and a theorem for every safety property.

A change of the code begins at its action or operator (`PROJECT.json` gives the
lines), then at the run that fires it, and last at the step of the proof that has
the action's name.
