------------------------------ MODULE Breaker ------------------------------
(***************************************************************************)
(* The breaker's state machine (breaker.go): admission, completion,        *)
(* cancellation and expiry of permits, lazy open-to-half-open eligibility, *)
(* bounded waiting for a probe, and administrative control.                *)
(*                                                                         *)
(* One action is one critical section of Breaker.mu.  Every operation      *)
(* samples the caller's clock (and the jitter source) before it takes the  *)
(* lock, and the clock is the caller's own, so the instant an action works *)
(* with is any element of Time: late, early and backward samples included. *)
(* A clock that panics makes Complete and Cancel use the admission time,   *)
(* another element of Time, and makes every other operation stop before it *)
(* takes the lock.  Repeating a terminal call changes nothing: a stutter.  *)
(*                                                                         *)
(* transitionCount (always generation - 1) and lastTransition are          *)
(* diagnostics that nothing reads back, and are left out.                  *)
(***************************************************************************)
EXTENDS Policy, RollingWindow, FiniteSetsExt

CONSTANTS
  Permit,              \* the permits that may be handed out: bounds admissions
  Caller,              \* goroutines in Acquire, those that may park in it
  Time,                \* instants a clock sample may have
  PermitTTL, HalfOpenWait, MaxWait, Observed,
  MinimumThroughput, Opening, HalfOpen, OpenDuration, Jitter,
  JitterSamples,       \* percentages safeRandomSample may return
  MaxGeneration,       \* bound on generation
  MaxRejected          \* bound on rejections

ASSUME BreakerAssumption ==
  /\ Time \subseteq Nat \ {0}
  /\ PermitTTL \in Nat \ {0}
  /\ HalfOpenWait \in BOOLEAN /\ MaxWait \in Nat /\ Observed \in BOOLEAN
  /\ MinimumThroughput \in Nat \ {0}
  /\ ValidOpening(Opening)
  /\ ValidHalfOpen(HalfOpen)
  /\ ValidOpenDuration(OpenDuration)
  /\ Jitter \in 0..99 /\ JitterSamples \subseteq 0..99
  /\ MaxGeneration \in Nat \ {0} /\ MaxRejected \in Nat

StateClosed == "closed"
StateOpen == "open"
StateHalfOpen == "half_open"
State == {StateClosed, StateOpen, StateHalfOpen}

ModeNormal == "normal"
ModeForceOpen == "force_open"
ModeDisabled == "disabled"
ModeIsolated == "isolated"
Mode == {ModeNormal, ModeForceOpen, ModeDisabled, ModeIsolated}

\* "none": the permit has not been handed out yet.
Status == {"none", "active", "completed", "canceled", "expired"}

\* The lifetime counters; a completion also counts under its outcome.
Counter == {"admitted", "rejected", "completed"} \cup Class

\* time.Time{}, before every instant of Time.
ZeroTime == 0

VARIABLES
  state, mode, generation,
  window, consecutiveFailures,
  schedule,   \* openCount, currentOpenDuration and nextProbeAt
  probe,      \* halfOpenActive, -Completed, -Successes and -Permits
  totals,     \* the lifetime counters
  permit,     \* every permit, by identity
  caller      \* goroutines inside acquire's wait loop

health == <<state, mode, generation, window, consecutiveFailures, schedule, probe>>
vars == <<health, totals, permit, caller>>

NoPermit == [generation |-> 0, state |-> StateClosed, deadline |-> ZeroTime,
             recording |-> FALSE, execution |-> FALSE, status |-> "none"]
NoProbes == [active |-> 0, completed |-> 0, successes |-> 0, permits |-> {}]
NoSchedule == [openCount |-> 0, duration |-> 0, nextProbeAt |-> ZeroTime]
Idle == [pc |-> "idle", deadline |-> ZeroTime]

Init ==
  /\ state = StateClosed /\ mode = ModeNormal /\ generation = 1
  /\ window = NewRollingWindow /\ consecutiveFailures = 0
  /\ schedule = NoSchedule /\ probe = NoProbes
  /\ totals = [k \in Counter |-> 0]
  /\ permit = [p \in Permit |-> NoPermit]
  /\ caller = [c \in Caller |-> Idle]

-----------------------------------------------------------------------------
(* Helpers that run under the lock *)

\* A bug that compares only the state, so that a permit outlives its sample.
BelongsToAnyGeneration(p) == permit[p].state = state

BelongsToCurrentState(p) ==
  permit[p].generation = generation /\ permit[p].state = state

BelongsToCurrentHalfOpen(p) ==
  permit[p].state = StateHalfOpen /\ BelongsToCurrentState(p)

\* signalLocked closes the channel every parked caller captured.
Signal(callers) ==
  [c \in Caller |-> IF callers[c].pc = "parked"
                    THEN [callers[c] EXCEPT !.pc = "woken"] ELSE callers[c]]

\* A bug that releases capacity without looking the permit up in the map.
ReleasedWithoutLookup(S) == {p \in S : BelongsToCurrentHalfOpen(p)}

\* releaseHalfOpenLocked for a set of permits that just became terminal.
Released(S) == {p \in S : BelongsToCurrentHalfOpen(p) /\ p \in probe.permits}

ProbeAfterRelease(S) ==
  [active |-> probe.active - Cardinality(Released(S)), completed |-> probe.completed,
   successes |-> probe.successes, permits |-> probe.permits \ Released(S)]

\* A bug that frees a probe's slot and tells nobody.
CallerAfterReleaseSilent(S) == caller

CallerAfterRelease(S) == IF Released(S) = {} THEN caller ELSE Signal(caller)

\* expireHalfOpenLocked: the probes whose deadline has passed at now.
Due(now) == {p \in probe.permits : permit[p].status = "active" /\ now >= permit[p].deadline}

PermitAfterExpiry(S) ==
  [p \in Permit |-> IF p \in S THEN [permit[p] EXCEPT !.status = "expired"] ELSE permit[p]]

\* What SetMode and transitionLocked do to the epoch, whatever else changes.
NewGeneration ==
  /\ generation < MaxGeneration
  /\ generation' = generation + 1

\* transitionLocked without the caller's mutation, the window and the event.
TransitionLocked(s) ==
  /\ NewGeneration
  /\ state' = s
  /\ probe' = NoProbes
  /\ caller' = Signal(caller)

\* The durations openDurationLocked may choose for the n-th opening.
OpenDurations(n) ==
  {JitterDuration(ScheduledDuration(OpenDuration, n), Jitter, s) : s \in JitterSamples}

\* A bug that reads the schedule before openCount is incremented.
OpenLockedStaleCount(now) ==
  /\ TransitionLocked(StateOpen)
  /\ \E d \in OpenDurations(schedule.openCount) :
       schedule' = [openCount |-> schedule.openCount + 1,
                    duration |-> d, nextProbeAt |-> now + d]

OpenLocked(now) ==
  /\ TransitionLocked(StateOpen)
  /\ \E d \in OpenDurations(schedule.openCount + 1) :
       schedule' = [openCount |-> schedule.openCount + 1,
                    duration |-> d, nextProbeAt |-> now + d]

\* A new window, already advanced when an observer event is recorded after it.
FreshWindow(now) ==
  IF Observed THEN WindowObserve(NewRollingWindow, now) ELSE NewRollingWindow

\* A bug that closes on top of the evidence that opened the breaker.
CloseLockedKeepsWindow(now) ==
  /\ TransitionLocked(StateClosed)
  /\ window' = WindowObserve(window, now)
  /\ consecutiveFailures' = 0
  /\ schedule' = NoSchedule

\* The mutation that closeLocked and Reset share.
CloseLocked(now) ==
  /\ TransitionLocked(StateClosed)
  /\ window' = FreshWindow(now)
  /\ consecutiveFailures' = 0
  /\ schedule' = NoSchedule

-----------------------------------------------------------------------------
(* Acquire *)

\* A bug that looks at the wait deadline in select only.
AttemptLate(c, now) == caller[c].pc \in {"idle", "woken"}

\* One turn of acquire's loop: the first, or a retry before the wait deadline.
Attempt(c, now) ==
  \/ caller[c].pc = "idle"
  \/ caller[c].pc = "woken" /\ now < caller[c].deadline

Return(c, callers) == caller' = [callers EXCEPT ![c] = Idle]

\* The permit handed out, on top of the permits as lazy expiry left them.
Admit(p, permits, g, s, now, recording, execution) ==
  /\ permit[p].status = "none"
  /\ permit' = [permits EXCEPT ![p] =
       [generation |-> g, state |-> s, deadline |-> now + PermitTTL,
        recording |-> recording, execution |-> execution, status |-> "active"]]
  /\ totals' = [totals EXCEPT !["admitted"] = @ + 1]

RejectLocked ==
  /\ totals["rejected"] < MaxRejected
  /\ totals' = [totals EXCEPT !["rejected"] = @ + 1]

AcquireDisabled(c, p, now, execution) ==
  /\ Attempt(c, now)
  /\ mode = ModeDisabled
  /\ Admit(p, permit, generation, state, now, FALSE, execution)
  /\ Return(c, caller)
  /\ UNCHANGED health

AcquireClosed(c, p, now, execution) ==
  /\ Attempt(c, now)
  /\ mode = ModeNormal /\ state = StateClosed
  /\ Admit(p, permit, generation, state, now, TRUE, execution)
  /\ Return(c, caller)
  /\ UNCHANGED health

\* The open interval has elapsed: one transition, and its first probe.
AcquireFirstProbe(c, p, now, execution) ==
  /\ Attempt(c, now)
  /\ mode = ModeNormal /\ state = StateOpen /\ now >= schedule.nextProbeAt
  /\ NewGeneration
  /\ state' = StateHalfOpen
  /\ probe' = [active |-> 1, completed |-> 0, successes |-> 0, permits |-> {p}]
  /\ window' = WindowObserve(window, now)
  /\ Admit(p, permit, generation + 1, StateHalfOpen, now, TRUE, execution)
  /\ Return(c, Signal(caller))
  /\ UNCHANGED <<mode, consecutiveFailures, schedule>>

\* An off-by-one at the quota.
QuotaSpentLate(now) ==
  LET after == ProbeAfterRelease(Due(now))
  IN after.completed + after.active > HalfOpen.MaxProbes

\* The probe quota once the probes due at now have expired.
QuotaSpent(now) ==
  LET after == ProbeAfterRelease(Due(now))
  IN after.completed + after.active >= HalfOpen.MaxProbes

AcquireProbe(c, p, now, execution) ==
  LET after == ProbeAfterRelease(Due(now))
  IN /\ Attempt(c, now)
     /\ mode = ModeNormal /\ state = StateHalfOpen
     /\ ~QuotaSpent(now)
     /\ Admit(p, PermitAfterExpiry(Due(now)), generation, state, now, TRUE, execution)
     /\ probe' = [active |-> after.active + 1, completed |-> after.completed,
                  successes |-> after.successes, permits |-> after.permits \cup {p}]
     /\ Return(c, CallerAfterRelease(Due(now)))
     /\ UNCHANGED <<state, mode, generation, window, consecutiveFailures, schedule>>

\* A bug that still rejects at the very instant the next probe is due.
RejectOutrightLate(c, now) ==
  /\ Attempt(c, now)
  /\ \/ mode \in {ModeForceOpen, ModeIsolated}
     \/ mode = ModeNormal /\ state = StateOpen /\ now <= schedule.nextProbeAt
  /\ RejectLocked
  /\ Return(c, caller)
  /\ UNCHANGED <<health, permit>>

\* ErrForceOpen and ErrIsolated, or ErrOpen before the next probe is due.
RejectOutright(c, now) ==
  /\ Attempt(c, now)
  /\ \/ mode \in {ModeForceOpen, ModeIsolated}
     \/ mode = ModeNormal /\ state = StateOpen /\ now < schedule.nextProbeAt
  /\ RejectLocked
  /\ Return(c, caller)
  /\ UNCHANGED <<health, permit>>

\* ErrHalfOpenExhausted.
RejectExhausted(c, now) ==
  /\ Attempt(c, now)
  /\ mode = ModeNormal /\ state = StateHalfOpen
  /\ QuotaSpent(now) /\ ~HalfOpenWait
  /\ RejectLocked
  /\ permit' = PermitAfterExpiry(Due(now))
  /\ probe' = ProbeAfterRelease(Due(now))
  /\ Return(c, CallerAfterRelease(Due(now)))
  /\ UNCHANGED <<state, mode, generation, window, consecutiveFailures, schedule>>

\* Park on the current channel; the wait deadline is fixed by the first turn.
Wait(c, now) ==
  /\ Attempt(c, now)
  /\ mode = ModeNormal /\ state = StateHalfOpen
  /\ QuotaSpent(now) /\ HalfOpenWait
  /\ permit' = PermitAfterExpiry(Due(now))
  /\ probe' = ProbeAfterRelease(Due(now))
  /\ caller' = [CallerAfterRelease(Due(now)) EXCEPT ![c] =
       [pc |-> "parked",
        deadline |-> IF caller[c].pc = "idle" THEN now + MaxWait ELSE caller[c].deadline]]
  /\ UNCHANGED <<state, mode, generation, window, consecutiveFailures, schedule, totals>>

\* ErrHalfOpenWaitTimeout: the timer fired, or a retry sampled the deadline.
WaitTimeout(c) ==
  /\ caller[c].pc # "idle"
  /\ RejectLocked
  /\ Return(c, caller)
  /\ UNCHANGED <<health, permit>>

\* The context ended: not a rejection.
WaitCanceled(c) ==
  /\ caller[c].pc # "idle"
  /\ Return(c, caller)
  /\ UNCHANGED <<health, totals, permit>>

-----------------------------------------------------------------------------
(* Complete, Cancel and expiry *)

SetStatus(p, s) == permit' = [permit EXCEPT ![p].status = s]

RecordLifetime(outcome) ==
  totals' = [k \in Counter |-> totals[k] + One(k \in {"completed", outcome})]

\* A bug that leaves the permit expired, ready to be counted again.
CompleteExpiredExecutionAgain(p, outcome) ==
  /\ permit[p].status = "expired" /\ permit[p].execution
  /\ RecordLifetime(outcome)
  /\ UNCHANGED <<health, permit, caller>>

\* An Execute permit still counts after lazy expiry took it out of its sample.
CompleteExpiredExecution(p, outcome) ==
  /\ permit[p].status = "expired" /\ permit[p].execution
  /\ SetStatus(p, "completed")
  /\ RecordLifetime(outcome)
  /\ UNCHANGED <<health, caller>>

\* Active, and not a two-step permit past its deadline.
Completable(p, now) ==
  /\ permit[p].status = "active"
  /\ permit[p].execution \/ now < permit[p].deadline

\* Stale, or admitted while disabled: lifetime totals only.
CompleteHealthless(p, outcome, now) ==
  /\ Completable(p, now)
  /\ ~permit[p].recording \/ ~BelongsToCurrentState(p)
  /\ SetStatus(p, "completed")
  /\ RecordLifetime(outcome)
  /\ probe' = IF BelongsToCurrentHalfOpen(p)
              THEN [probe EXCEPT !.permits = @ \ {p}] ELSE probe
  /\ UNCHANGED <<state, mode, generation, window, consecutiveFailures, schedule, caller>>

\* A bug that works the streak off instead of clearing it.
StreakDecays(outcome) ==
  CASE outcome = Success -> consecutiveFailures - 1
    [] outcome = Failure -> consecutiveFailures + 1
    [] outcome = Ignored -> consecutiveFailures

\* The failure streak after outcome.
Streak(outcome) ==
  CASE outcome = Success -> 0
    [] outcome = Failure -> consecutiveFailures + 1
    [] outcome = Ignored -> IF Opening.IgnoredBehavior = ResetConsecutiveFailures
                            THEN 0 ELSE consecutiveFailures

CompleteClosed(p, outcome, slow, now) ==
  LET added == WindowAdd(window, now, [Class |-> outcome, Slow |-> slow /\ outcome # Ignored])
  IN /\ Completable(p, now)
     /\ permit[p].recording /\ BelongsToCurrentState(p)
     /\ state # StateHalfOpen
     /\ SetStatus(p, "completed")
     /\ RecordLifetime(outcome)
     /\ window' = WindowObserve(added, now)
     /\ consecutiveFailures' = Streak(outcome)
     /\ IF OpeningDecision(Opening, MinimumThroughput, Streak(outcome), WindowSnapshot(added, now))
        THEN OpenLocked(now)
        ELSE UNCHANGED <<state, generation, schedule, probe, caller>>
     /\ UNCHANGED mode

\* The part of completeAt that every completion of a current probe shares.
ProbeCompletion(p, outcome, now) ==
  /\ Completable(p, now)
  /\ permit[p].recording /\ BelongsToCurrentState(p)
  /\ state = StateHalfOpen
  /\ SetStatus(p, "completed")
  /\ RecordLifetime(outcome)

CompletedWith(outcome) == probe.completed + One(outcome # Ignored)
SuccessesWith(outcome) == probe.successes + One(outcome = Success)

Reopens(outcome) ==
  outcome # Ignored /\ ProbeReopens(HalfOpen, outcome, CompletedWith(outcome), SuccessesWith(outcome))

Recovers(outcome) ==
  outcome # Ignored /\ ProbeCloses(HalfOpen, outcome, CompletedWith(outcome), SuccessesWith(outcome))

\* The sample goes on; an ignored probe frees its slot and spends no quota.
CompleteProbe(p, outcome, now) ==
  /\ ProbeCompletion(p, outcome, now)
  /\ ~Reopens(outcome) /\ ~Recovers(outcome)
  /\ probe' = [active |-> probe.active - 1, completed |-> CompletedWith(outcome),
               successes |-> SuccessesWith(outcome), permits |-> probe.permits \ {p}]
  /\ caller' = Signal(caller)
  /\ UNCHANGED <<state, mode, generation, window, consecutiveFailures, schedule>>

CompleteProbeReopens(p, outcome, now) ==
  /\ ProbeCompletion(p, outcome, now)
  /\ Reopens(outcome)
  /\ OpenLocked(now)
  /\ window' = WindowObserve(window, now)
  /\ UNCHANGED <<mode, consecutiveFailures>>

CompleteProbeRecovers(p, outcome, now) ==
  /\ ProbeCompletion(p, outcome, now)
  /\ Recovers(outcome)
  /\ CloseLocked(now)
  /\ UNCHANGED mode

\* A terminal call that finds the deadline passed: no outcome is recorded.
\* Complete does this to two-step permits, Cancel to any.
ExpirePermit(p, now) ==
  /\ permit[p].status = "active" /\ now >= permit[p].deadline
  /\ SetStatus(p, "expired")
  /\ probe' = ProbeAfterRelease({p})
  /\ caller' = CallerAfterRelease({p})
  /\ UNCHANGED <<state, mode, generation, window, consecutiveFailures, schedule, totals>>

\* Cancel, and Execute giving up a permit whose classification was invalid.
Cancel(p, now) ==
  /\ permit[p].status = "active" /\ now < permit[p].deadline
  /\ SetStatus(p, "canceled")
  /\ probe' = ProbeAfterRelease({p})
  /\ caller' = CallerAfterRelease({p})
  /\ UNCHANGED <<state, mode, generation, window, consecutiveFailures, schedule, totals>>

-----------------------------------------------------------------------------
(* Administration and observation *)

\* A bug that changes the mode within a generation.
SetModeKeepsGeneration(m, now) ==
  /\ m # mode
  /\ mode' = m
  /\ probe' = NoProbes
  /\ caller' = Signal(caller)
  /\ window' = WindowObserve(window, now)
  /\ UNCHANGED <<state, generation, consecutiveFailures, schedule, totals, permit>>

SetMode(m, now) ==
  /\ m # mode
  /\ NewGeneration
  /\ mode' = m
  /\ probe' = NoProbes
  /\ caller' = Signal(caller)
  /\ window' = WindowObserve(window, now)
  /\ UNCHANGED <<state, consecutiveFailures, schedule, totals, permit>>

\* A bug that resets the policy state and leaves the override in force.
ResetKeepsMode(now) == CloseLocked(now) /\ UNCHANGED <<mode, totals, permit>>

Reset(now) ==
  /\ CloseLocked(now)
  /\ mode' = ModeNormal
  /\ UNCHANGED <<totals, permit>>

\* Snapshot also expires overdue probes and advances a time window.
Snapshot(now) ==
  /\ window' = WindowObserve(window, now)
  /\ IF state = StateHalfOpen
     THEN /\ permit' = PermitAfterExpiry(Due(now))
          /\ probe' = ProbeAfterRelease(Due(now))
          /\ caller' = CallerAfterRelease(Due(now))
     ELSE UNCHANGED <<permit, probe, caller>>
  /\ UNCHANGED <<state, mode, generation, consecutiveFailures, schedule, totals>>

-----------------------------------------------------------------------------
Acquire(c, now) ==
  \/ \E p \in Permit, execution \in BOOLEAN :
       \/ AcquireDisabled(c, p, now, execution)
       \/ AcquireClosed(c, p, now, execution)
       \/ AcquireFirstProbe(c, p, now, execution)
       \/ AcquireProbe(c, p, now, execution)
  \/ RejectOutright(c, now)
  \/ RejectExhausted(c, now)
  \/ Wait(c, now)

Complete(p, outcome, now) ==
  \/ CompleteHealthless(p, outcome, now)
  \/ \E slow \in BOOLEAN : CompleteClosed(p, outcome, slow, now)
  \/ CompleteProbe(p, outcome, now)
  \/ CompleteProbeReopens(p, outcome, now)
  \/ CompleteProbeRecovers(p, outcome, now)

Next ==
  \/ \E c \in Caller, now \in Time : Acquire(c, now)
  \/ \E c \in Caller : WaitTimeout(c) \/ WaitCanceled(c)
  \/ \E p \in Permit, outcome \in Class :
       \/ CompleteExpiredExecution(p, outcome)
       \/ \E now \in Time : Complete(p, outcome, now)
  \/ \E p \in Permit, now \in Time : ExpirePermit(p, now) \/ Cancel(p, now)
  \/ \E m \in Mode, now \in Time : SetMode(m, now)
  \/ \E now \in Time : Reset(now) \/ Snapshot(now)

Spec == Init /\ [][Next]_vars

-----------------------------------------------------------------------------
(* Properties *)

PermitRecord ==
  [generation : Nat, state : State, deadline : Nat,
   recording : BOOLEAN, execution : BOOLEAN, status : Status]

\* Every variable of the breaker keeps its type.
TypeOK ==
  /\ state \in State /\ mode \in Mode /\ generation \in Nat \ {0}
  /\ window \in RollingWindows /\ consecutiveFailures \in Nat
  /\ schedule \in [openCount : Nat, duration : Nat, nextProbeAt : Nat]
  /\ probe \in [active : Int, completed : Nat, successes : Nat, permits : SUBSET Permit]
  /\ totals \in [Counter -> Nat]
  /\ permit \in [Permit -> PermitRecord]
  /\ caller \in [Caller -> [pc : {"idle", "parked", "woken"}, deadline : Nat]]

(***************************************************************************)
(* The identity a permit was admitted under decides what it may touch: a   *)
(* permit of the current generation was admitted in the current state, and *)
(* records health exactly when the mode is normal; no permit that records  *)
(* health was admitted while open.                                         *)
(***************************************************************************)
EpochDeterminesState ==
  \A p \in Permit : permit[p].status # "none" =>
    /\ permit[p].generation <= generation
    /\ permit[p].generation = generation =>
         permit[p].state = state /\ (permit[p].recording <=> mode = ModeNormal)
    /\ permit[p].recording => permit[p].state # StateOpen

(***************************************************************************)
(* halfOpenPermits and halfOpenActive after any interleaving of probes,    *)
(* expiries, cancellations, mode changes and resets: the map holds exactly *)
(* the active recording probes of the current sample, and the counter is   *)
(* its size, so capacity is never released twice and never leaks.          *)
(***************************************************************************)
ProbeAccounting ==
  /\ probe.permits = {p \in Permit : /\ permit[p].status = "active"
                                     /\ permit[p].recording
                                     /\ permit[p].generation = generation
                                     /\ permit[p].state = StateHalfOpen}
  /\ probe.active = Cardinality(probe.permits)

\* Outstanding and classified probes of a sample never exceed MaxProbes.
ProbeQuota == probe.active + probe.completed <= HalfOpen.MaxProbes

(***************************************************************************)
(* completeHalfOpenLocked decides as soon as a sample can be decided: a    *)
(* breaker that is still half-open has not used up its classified quota    *)
(* and has not met its success threshold, so it can always admit another   *)
(* probe once the outstanding ones end; outside half-open no sample is     *)
(* kept.                                                                   *)
(***************************************************************************)
NoProbeWedge ==
  /\ state = StateHalfOpen =>
       /\ probe.completed < HalfOpen.MaxProbes
       /\ HalfOpen.RequiredSuccesses > 0 => probe.successes < HalfOpen.RequiredSuccesses
       /\ HalfOpen.FailureAction = ReopenImmediately => probe.successes = probe.completed
  /\ probe.successes <= probe.completed
  /\ state # StateHalfOpen => probe = NoProbes

(***************************************************************************)
(* signalLocked and the channel captured in acquire: a caller is parked on *)
(* an unclosed channel only while the reason it parked still holds and an  *)
(* outstanding probe remains whose end will close it.                      *)
(***************************************************************************)
NoLostWakeup ==
  \A c \in Caller : caller[c].pc = "parked" =>
    /\ mode = ModeNormal /\ state = StateHalfOpen
    /\ probe.active + probe.completed >= HalfOpen.MaxProbes
    /\ probe.permits # {}

(***************************************************************************)
(* The counters a Snapshot reports: every permit handed out is counted     *)
(* once, every completion once under one outcome, also when an Execute     *)
(* permit completes after expiry or after its generation has passed.       *)
(***************************************************************************)
LifetimeAccounting ==
  /\ totals["admitted"] = Cardinality({p \in Permit : permit[p].status # "none"})
  /\ totals["completed"] = Cardinality({p \in Permit : permit[p].status = "completed"})
  /\ totals["completed"] = totals[Success] + totals[Failure] + totals[Ignored]

(***************************************************************************)
(* Open timing is kept exactly while a policy opening is in force, through *)
(* half-open samples and mode changes, and it is one that the schedule     *)
(* allows for this many consecutive openings.                              *)
(***************************************************************************)
OpenTiming ==
  IF state = StateClosed THEN schedule = NoSchedule
  ELSE /\ schedule.openCount > 0
       /\ schedule.duration \in OpenDurations(schedule.openCount)
       /\ schedule.nextProbeAt - schedule.duration \in Time

(***************************************************************************)
(* Over a count window, a closed breaker never holds evidence that meets   *)
(* its opening rules: no path back to closed, and no mode change on the    *)
(* way, leaves evidence behind that should have opened it.                 *)
(***************************************************************************)
ClosedBelowThreshold ==
  state = StateClosed /\ ~TimeWindowed =>
    ~OpeningDecision(Opening, MinimumThroughput, consecutiveFailures, window.snapshot)

(***************************************************************************)
(* A permit that is stale, was admitted while disabled, or had already     *)
(* expired changes no health state when it becomes terminal, whatever the  *)
(* breaker has become in the meantime (completeAt, cancelAt).              *)
(***************************************************************************)
HealthIsolation ==
  [][\A p \in Permit :
       /\ permit[p].status \in {"active", "expired"}
       /\ permit'[p].status # permit[p].status
       /\ ~permit[p].recording \/ permit[p].generation # generation \/ permit[p].status = "expired"
       => UNCHANGED health]_vars

(***************************************************************************)
(* transitionLocked, SetMode and Reset: state and mode change only with a  *)
(* new generation, one at a time; the policy never moves the state while   *)
(* an administrative mode is in force; half-open is entered only from      *)
(* open.  Only Reset leaves an administrative mode and changes the state.  *)
(***************************************************************************)
EpochStep ==
  [][/\ generation' = generation => UNCHANGED <<state, mode>>
     /\ generation' # generation => generation' = generation + 1
     /\ state' = StateHalfOpen /\ state # state' => state = StateOpen
     /\ state' # state /\ mode # ModeNormal => state' = StateClosed /\ mode' = ModeNormal]_vars

=============================================================================
