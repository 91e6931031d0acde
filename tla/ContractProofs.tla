--------------------------- MODULE ContractProofs ---------------------------
(***************************************************************************)
(* What users of the breaker rely on without seeing inside it, for every   *)
(* value of the constants: the breaker implements the abstract circuit, a  *)
(* rejection stays true for the generation it names, and an Execute call,  *)
(* whatever panics and however late it ends, gives its permit up and is    *)
(* counted under the outcome its ending stands for, and MaxWait counts     *)
(* from the first clock sample of a call, however often the caller is      *)
(* woken and parked again, and no timeout is reported before it is over.   *)
(***************************************************************************)
EXTENDS BreakerProofs, BreakerCircuit, Rejections, Execute, Admission

-----------------------------------------------------------------------------
(* The breaker implements the circuit *)

\* The circuit does not move.
LEMMA CircuitStutters ==
  ASSUME UNCHANGED <<state, mode, probe>>
  PROVE  UNCHANGED C!vars
BY DEF C!vars

\* Probes end without a verdict, one or several: a step of the circuit.
LEMMA CircuitGivesUp ==
  ASSUME IInv, NEW S \in SUBSET Permit, UNCHANGED <<state, mode>>, probe' = ProbeAfterRelease(S)
  PROVE  C!Next
<1>1. probe'.permits = probe.permits \ S /\ probe'.completed = probe.completed
  BY ReleaseAccounting
<1>2. /\ S \cap probe.permits \in SUBSET probe.permits
      /\ probe.permits \ S = probe.permits \ (S \cap probe.permits)
  OBVIOUS
<1>3. C!GiveUp(S \cap probe.permits)
  BY <1>1, <1>2 DEF C!GiveUp
<1> QED BY <1>2, <1>3 DEF C!Next

\* A permit that records health and is current was admitted in normal mode.
LEMMA RecordingIsNormal ==
  ASSUME IInv, NEW p \in Permit, permit[p].status # "none", permit[p].recording, BelongsToCurrentState(p)
  PROVE  mode = ModeNormal /\ state # StateOpen
BY DEF IInv, EpochDeterminesState, BelongsToCurrentState

\* A completion that does not decide the sample: its outcome joins, or it is ignored.
LEMMA CircuitClassifies ==
  ASSUME IInv, NEW p \in Permit, NEW outcome \in Class, NEW now \in Time,
         CompleteProbe(p, outcome, now), NoProbeWedge'
  PROVE  C!Next
<1>1. /\ UNCHANGED <<state, mode>> /\ state = StateHalfOpen
      /\ probe'.permits = probe.permits \ {p} /\ probe'.completed = CompletedWith(outcome)
  BY DEF CompleteProbe, ProbeCompletion
<1>2. p \in probe.permits
  BY DEF CompleteProbe, ProbeCompletion, Completable, BelongsToCurrentState, IInv, ProbeAccounting
<1>3. probe.completed \in Nat
  BY DEF IInv, TypeOK
<1>4. CASE outcome = Ignored
  <2>1. probe'.completed = probe.completed
    BY <1>1, <1>3, <1>4 DEF CompletedWith, One
  <2>2. {p} \in SUBSET probe.permits /\ C!GiveUp({p})
    BY <1>1, <1>2, <2>1 DEF C!GiveUp
  <2> QED BY <2>2 DEF C!Next
<1>5. CASE outcome # Ignored
  <2>1. probe'.completed = probe.completed + 1
    BY <1>1, <1>3, <1>5 DEF CompletedWith, One
  <2>2. probe'.completed < HalfOpen.MaxProbes
    BY <1>1 DEF NoProbeWedge
  <2>3. C!Classify(p)
    BY <1>1, <1>2, <2>1, <2>2 DEF C!Classify
  <2> QED BY <2>3 DEF C!Next
<1> QED BY <1>4, <1>5

\* One more probe, after lazy expiry gave up the overdue ones.
LEMMA CircuitAdmits ==
  ASSUME IInv, NEW c \in Caller, NEW p \in Permit, NEW now \in Time, NEW execution \in BOOLEAN,
         AcquireProbe(c, p, now, execution)
  PROVE  C!Next
<1> DEFINE after == ProbeAfterRelease(Due(now))
<1>1. Due(now) \in SUBSET probe.permits /\ Due(now) \in SUBSET Permit
  BY DEF Due, IInv, TypeOK
<1>2. /\ after.permits = probe.permits \ Due(now) /\ after.completed = probe.completed
      /\ after.active = Cardinality(probe.permits \ Due(now)) /\ after.active \in Nat
      /\ probe.completed \in Nat
  BY <1>1, ReleaseAccounting DEF IInv, TypeOK
<1>3. /\ mode = ModeNormal /\ state = StateHalfOpen /\ UNCHANGED <<state, mode>>
      /\ ~(after.completed + after.active >= HalfOpen.MaxProbes)
      /\ permit[p].status = "none"
      /\ probe' = [active |-> after.active + 1, completed |-> after.completed,
                   successes |-> after.successes, permits |-> after.permits \cup {p}]
  BY DEF AcquireProbe, QuotaSpent, Admit
<1>4. p \notin probe.permits
  BY <1>3 DEF IInv, ProbeAccounting
<1> HIDE DEF after
<1>5. Cardinality(probe.permits \ Due(now)) + probe.completed < HalfOpen.MaxProbes
  BY <1>2, <1>3, QuotaPositive
<1>6. probe'.permits = (probe.permits \ Due(now)) \cup {p} /\ probe'.completed = probe.completed
  BY <1>2, <1>3
<1>7. C!Cardinality(probe.permits \ Due(now)) = Cardinality(probe.permits \ Due(now))
  BY Zenon DEF C!Cardinality, Cardinality
<1>8. C!NextProbe(p, Due(now))
  BY <1>1, <1>3, <1>4, <1>5, <1>6, <1>7 DEF C!NextProbe, StateHalfOpen, ModeNormal
<1> QED BY <1>1, <1>8 DEF C!Next

\* Every operation is one step of the circuit, or none.
LEMMA CircuitStep ==
  ASSUME IInv, [Next]_vars
  PROVE  [C!Next]_(C!vars)
<1>n. NoProbes.permits = {} /\ NoProbes.completed = 0
  BY DEF NoProbes
<1>0. CASE UNCHANGED vars
  BY <1>0, CircuitStutters DEF vars, health
<1>1. ASSUME NEW c \in Caller, NEW p \in Permit, NEW now \in Time, NEW execution \in BOOLEAN,
             AcquireDisabled(c, p, now, execution)
      PROVE  [C!Next]_(C!vars)
  BY <1>1, CircuitStutters DEF AcquireDisabled, health
<1>2. ASSUME NEW c \in Caller, NEW p \in Permit, NEW now \in Time, NEW execution \in BOOLEAN,
             AcquireClosed(c, p, now, execution)
      PROVE  [C!Next]_(C!vars)
  BY <1>2, CircuitStutters DEF AcquireClosed, health
<1>3. ASSUME NEW c \in Caller, NEW p \in Permit, NEW now \in Time, NEW execution \in BOOLEAN,
             AcquireFirstProbe(c, p, now, execution)
      PROVE  [C!Next]_(C!vars)
  <2>1. /\ state = StateOpen /\ mode = ModeNormal /\ mode' = mode /\ state' = StateHalfOpen
        /\ probe'.permits = {p} /\ probe'.completed = 0
    BY <1>3 DEF AcquireFirstProbe
  <2>2. C!FirstProbe(p)
    BY <2>1 DEF C!FirstProbe, C!Become, StateOpen, StateHalfOpen, ModeNormal
  <2> QED BY <2>2 DEF C!Next
<1>4. ASSUME NEW c \in Caller, NEW p \in Permit, NEW now \in Time, NEW execution \in BOOLEAN,
             AcquireProbe(c, p, now, execution)
      PROVE  [C!Next]_(C!vars)
  BY <1>4, CircuitAdmits
<1>5. ASSUME NEW c \in Caller, NEW now \in Time, RejectOutright(c, now)
      PROVE  [C!Next]_(C!vars)
  BY <1>5, CircuitStutters DEF RejectOutright, health
<1>6. ASSUME NEW c \in Caller, NEW now \in Time, RejectExhausted(c, now)
      PROVE  [C!Next]_(C!vars)
  <2>1. Due(now) \in SUBSET Permit
    BY ExpiryIdentity
  <2> QED BY <1>6, <2>1, CircuitGivesUp DEF RejectExhausted
<1>7. ASSUME NEW c \in Caller, NEW now \in Time, Wait(c, now)
      PROVE  [C!Next]_(C!vars)
  <2>1. Due(now) \in SUBSET Permit
    BY ExpiryIdentity
  <2> QED BY <1>7, <2>1, CircuitGivesUp DEF Wait
<1>8. ASSUME NEW c \in Caller, WaitTimeout(c)
      PROVE  [C!Next]_(C!vars)
  BY <1>8, CircuitStutters DEF WaitTimeout, health
<1>9. ASSUME NEW c \in Caller, WaitCanceled(c)
      PROVE  [C!Next]_(C!vars)
  BY <1>9, CircuitStutters DEF WaitCanceled, health
<1>10. ASSUME NEW p \in Permit, NEW outcome \in Class, CompleteExpiredExecution(p, outcome)
      PROVE  [C!Next]_(C!vars)
  BY <1>10, CircuitStutters DEF CompleteExpiredExecution, health
<1>11. ASSUME NEW p \in Permit, NEW outcome \in Class, NEW now \in Time,
             CompleteHealthless(p, outcome, now)
      PROVE  [C!Next]_(C!vars)
  BY <1>11, HealthlessKeepsHealth, CircuitStutters DEF health
<1>12. ASSUME NEW p \in Permit, NEW outcome \in Class, NEW slow \in BOOLEAN, NEW now \in Time,
             CompleteClosed(p, outcome, slow, now)
      PROVE  [C!Next]_(C!vars)
  <2>1. /\ permit[p].status = "active" /\ permit[p].recording /\ BelongsToCurrentState(p)
        /\ state # StateHalfOpen /\ mode' = mode
    BY <1>12 DEF CompleteClosed, Completable
  <2>2. mode = ModeNormal /\ state = StateClosed
    BY <2>1, RecordingIsNormal DEF IInv, TypeOK, State
  <2>3. CASE OpenLocked(now)
    <3>1. state' = StateOpen /\ probe' = NoProbes
      BY <2>3 DEF OpenLocked, TransitionLocked
    <3>2. C!Trip
      BY <1>n, <2>1, <2>2, <3>1 DEF C!Trip, C!Become, StateClosed, StateOpen, ModeNormal
    <3> QED BY <3>2 DEF C!Next
  <2>4. CASE UNCHANGED <<state, generation, schedule, probe, caller>>
    BY <2>1, <2>4, CircuitStutters
  <2> QED BY <1>12, <2>3, <2>4 DEF CompleteClosed
<1>13. ASSUME NEW p \in Permit, NEW outcome \in Class, NEW now \in Time,
             CompleteProbe(p, outcome, now)
      PROVE  [C!Next]_(C!vars)
  <2>1. NoProbeWedge'
    BY SampleStep DEF SampleOK
  <2> QED BY <1>13, <2>1, CircuitClassifies
<1>14. ASSUME NEW p \in Permit, NEW outcome \in Class, NEW now \in Time,
             CompleteProbeReopens(p, outcome, now)
      PROVE  [C!Next]_(C!vars)
  <2>1. permit[p].status = "active" /\ permit[p].recording /\ BelongsToCurrentState(p)
        /\ state = StateHalfOpen
    BY <1>14 DEF CompleteProbeReopens, ProbeCompletion, Completable
  <2>2. p \in probe.permits
    BY <2>1 DEF BelongsToCurrentState, IInv, ProbeAccounting
  <2>3. mode = ModeNormal
    BY <2>1, RecordingIsNormal
  <2>4. state' = StateOpen /\ probe' = NoProbes /\ mode' = mode
    BY <1>14 DEF CompleteProbeReopens, OpenLocked, TransitionLocked
  <2>5. C!Verdict(p, "open")
    BY <1>n, <2>2, <2>3, <2>4 DEF C!Verdict, C!Become, ModeNormal, StateOpen
  <2> QED BY <2>5 DEF C!Next, StateOpen
<1>15. ASSUME NEW p \in Permit, NEW outcome \in Class, NEW now \in Time,
             CompleteProbeRecovers(p, outcome, now)
      PROVE  [C!Next]_(C!vars)
  <2>1. permit[p].status = "active" /\ permit[p].recording /\ BelongsToCurrentState(p)
        /\ state = StateHalfOpen
    BY <1>15 DEF CompleteProbeRecovers, ProbeCompletion, Completable
  <2>2. p \in probe.permits
    BY <2>1 DEF BelongsToCurrentState, IInv, ProbeAccounting
  <2>3. mode = ModeNormal
    BY <2>1, RecordingIsNormal
  <2>4. state' = StateClosed /\ probe' = NoProbes /\ mode' = mode
    BY <1>15 DEF CompleteProbeRecovers, CloseLocked, TransitionLocked
  <2>5. C!Verdict(p, "closed")
    BY <1>n, <2>2, <2>3, <2>4 DEF C!Verdict, C!Become, ModeNormal, StateClosed
  <2> QED BY <2>5 DEF C!Next, StateClosed
<1>16. ASSUME NEW p \in Permit, NEW now \in Time, ExpirePermit(p, now)
      PROVE  [C!Next]_(C!vars)
  BY <1>16, CircuitGivesUp DEF ExpirePermit
<1>17. ASSUME NEW p \in Permit, NEW now \in Time, Cancel(p, now)
      PROVE  [C!Next]_(C!vars)
  BY <1>17, CircuitGivesUp DEF Cancel
<1>18. ASSUME NEW m \in Mode, NEW now \in Time, SetMode(m, now)
      PROVE  [C!Next]_(C!vars)
  <2>1. C!Override(m)
    BY <1>18, <1>n DEF SetMode, C!Override
  <2> QED BY <2>1 DEF C!Next
<1>19. ASSUME NEW now \in Time, Reset(now)
      PROVE  [C!Next]_(C!vars)
  <2>1. C!Reset
    BY <1>19, <1>n DEF Reset, CloseLocked, TransitionLocked, C!Reset, StateClosed, ModeNormal
  <2> QED BY <2>1 DEF C!Next
<1>20. ASSUME NEW now \in Time, Snapshot(now)
      PROVE  [C!Next]_(C!vars)
  <2>1. CASE state = StateHalfOpen
    <3>1. Due(now) \in SUBSET Permit
      BY ExpiryIdentity
    <3> QED BY <1>20, <2>1, <3>1, CircuitGivesUp DEF Snapshot
  <2>2. CASE state # StateHalfOpen
    BY <1>20, <2>2, CircuitStutters DEF Snapshot
  <2> QED BY <2>1, <2>2
<1> QED BY <1>0, <1>1, <1>2, <1>3, <1>4, <1>5, <1>6, <1>7, <1>8, <1>9, <1>10,
           <1>11, <1>12, <1>13, <1>14, <1>15, <1>16, <1>17, <1>18, <1>19, <1>20
        DEF Next, Acquire, Complete

(***************************************************************************)
(* The refinement: every behaviour of the breaker is a behaviour of the    *)
(* circuit, whose sample is the probe map and the classified count.        *)
(***************************************************************************)
THEOREM Refinement == Spec => ImplementsCircuit
<1>1. Init => C!Init
  BY DEF Init, C!Init, NoProbes, StateClosed, ModeNormal
<1>2. IInv /\ [Next]_vars => [C!Next]_(C!vars)
  BY CircuitStep
<1> QED BY <1>1, <1>2, Invariance, PTL DEF Spec, ImplementsCircuit, C!Spec

-----------------------------------------------------------------------------
(* Rejections *)

\* Returning an error is part of an operation of the breaker, not a new one.
LEMMA RejectingIsAStep == [RNext]_<<vars, rejection>> => [Next]_vars
<1> SUFFICES ASSUME [RNext]_<<vars, rejection>> PROVE [Next]_vars
  OBVIOUS
<1>1. ASSUME NEW c \in Caller, NEW now \in Time, RejectOutright(c, now) PROVE Next
  BY <1>1 DEF Next, Acquire
<1>2. ASSUME NEW c \in Caller, NEW now \in Time, RejectForQuota(c, now) PROVE Next
  BY <1>2 DEF RejectForQuota, Next, Acquire
<1>3. CASE UNCHANGED <<vars, rejection>>
  BY <1>3
<1> QED BY <1>1, <1>2, <1>3 DEF RNext

\* Every behaviour with rejections is one of the breaker.
LEMMA RejectionsAreBehaviours == RSpec => Spec
<1>1. RInit => Init
  BY DEF RInit
<1> QED BY <1>1, RejectingIsAStep, PTL DEF RSpec, Spec

Causes == {ErrOpen, ErrHalfOpenExhausted, ErrHalfOpenWaitTimeout, ErrForceOpen, ErrIsolated}

RejectionErrors ==
  [Cause : Causes \cup {"none"},
   State : State, Mode : Mode, Generation : Nat, RetryAt : Nat]

(***************************************************************************)
(* GenerationFences is inductive only with the fact that no caller holds a *)
(* rejection of a generation still to come.                                *)
(***************************************************************************)
Fenced ==
  /\ rejection \in [Caller -> RejectionErrors]
  /\ \A c \in Caller : rejection[c].Generation <= generation
  /\ GenerationFences

\* A refusal leaves the epoch as the error describes it.
LEMMA RefusalFenced ==
  ASSUME IInv, Fenced, SameEpoch, NEW c \in Caller, NEW cause \in Causes, Returns(c, cause)
  PROVE  Fenced'
<1>1. /\ state \in State /\ mode \in Mode /\ generation \in Nat /\ schedule.nextProbeAt \in Nat
  BY DEF IInv, TypeOK
<1>2. rejection' = [rejection EXCEPT ![c] = RejectionError(cause)]
  BY DEF Returns
<1>3. /\ RejectionError(cause) \in RejectionErrors
      /\ RejectionError(cause).Generation = generation
      /\ RejectionError(cause).State = state /\ RejectionError(cause).Mode = mode
      /\ RejectionError(cause).RetryAt = schedule.nextProbeAt
  BY <1>1 DEF RejectionError, RejectionErrors
<1>4. /\ rejection'[c] = RejectionError(cause)
      /\ \A d \in Caller : d # c => rejection'[d] = rejection[d]
  BY <1>2 DEF Fenced
<1>5. rejection' \in [Caller -> RejectionErrors]
  BY <1>2, <1>3 DEF Fenced
<1>6. UNCHANGED <<state, mode, generation, schedule>>
  BY DEF SameEpoch
<1>7. GenerationFences'
  BY <1>3, <1>4, <1>6 DEF Fenced, GenerationFences
<1>8. \A d \in Caller : rejection'[d].Generation <= generation'
  BY <1>1, <1>3, <1>4, <1>6 DEF Fenced
<1> QED BY <1>5, <1>7, <1>8 DEF Fenced

\* Any other operation keeps the epoch or leaves every held rejection behind.
LEMMA OthersFenced ==
  ASSUME IInv, Fenced, [Next]_vars, UNCHANGED rejection
  PROVE  Fenced'
<1>1. generation \in Nat /\ \A c \in Caller : rejection[c].Generation \in Nat
  BY DEF IInv, TypeOK, Fenced, RejectionErrors
<1>2. CASE SameEpoch
  BY <1>2 DEF SameEpoch, Fenced, GenerationFences
<1>3. CASE generation' = generation + 1
  <2>1. \A c \in Caller : rejection'[c].Generation < generation'
    BY <1>1, <1>3 DEF Fenced
  <2>2. \A c \in Caller : rejection'[c].Generation # generation'
    BY <1>1, <1>3, <2>1
  <2>3. \A c \in Caller : rejection'[c].Generation <= generation'
    BY <1>1, <1>3, <2>1
  <2> QED BY <2>2, <2>3 DEF Fenced, GenerationFences
<1> QED BY <1>2, <1>3, EpochOf

\* One step of any operation, with or without an error returned.
LEMMA FencedStep ==
  ASSUME IInv, Fenced, [RNext]_<<vars, rejection>>
  PROVE  Fenced'
<1>1. ASSUME NEW c \in Caller, NEW now \in Time, RejectOutright(c, now), Returns(c, OutrightCause)
      PROVE  Fenced'
  <2>1. SameEpoch
    BY <1>1 DEF RejectOutright, health, SameEpoch
  <2>2. OutrightCause \in Causes
    BY DEF OutrightCause, Causes, ErrForceOpen, ErrIsolated, ErrOpen
  <2> QED BY <1>1, <2>1, <2>2, RefusalFenced
<1>2. ASSUME NEW c \in Caller, NEW now \in Time, RejectForQuota(c, now), Returns(c, QuotaCause)
      PROVE  Fenced'
  <2>1. SameEpoch
    BY <1>2 DEF RejectForQuota, RejectExhausted, WaitTimeout, health, SameEpoch
  <2>2. QuotaCause \in Causes
    BY DEF QuotaCause, Causes, ErrHalfOpenWaitTimeout, ErrHalfOpenExhausted
  <2> QED BY <1>2, <2>1, <2>2, RefusalFenced
<1>3. CASE Next /\ UNCHANGED rejection
  BY <1>3, OthersFenced
<1>4. CASE UNCHANGED <<vars, rejection>>
  BY <1>4, OthersFenced
<1> QED BY <1>1, <1>2, <1>3, <1>4 DEF RNext

\* The inductive invariant of the rejections holds with that of the breaker.
LEMMA FencedAlways == RSpec => [](IInv /\ Fenced)
<1>1. RInit => Fenced
  <2> SUFFICES ASSUME RInit PROVE Fenced
    OBVIOUS
  <2>1. generation = 1 /\ rejection = [c \in Caller |-> NoRejection]
    BY DEF RInit, Init
  <2> QED BY <2>1 DEF Fenced, GenerationFences, RejectionErrors, NoRejection, State, Mode, ZeroTime
<1>2. IInv /\ Fenced /\ [RNext]_<<vars, rejection>> => Fenced'
  BY FencedStep
<1> QED BY <1>1, <1>2, RejectionsAreBehaviours, Invariance, PTL DEF RSpec

(***************************************************************************)
(* rejectLocked: while the breaker is in the generation that a rejection   *)
(* names, its state, mode and next probe time are those the caller was     *)
(* told, whatever happened since.                                          *)
(***************************************************************************)
THEOREM RejectionsFenced == RSpec => []GenerationFences
<1>1. Fenced => GenerationFences
  BY DEF Fenced
<1> QED BY <1>1, FencedAlways, PTL

(***************************************************************************)
(* RetryAt: a caller that comes back at or after it, in the generation the *)
(* rejection names, is not refused by the open state again.                *)
(***************************************************************************)
THEOREM RetryAtHolds == RSpec => RetryAtKept
<1>1. IInv /\ Fenced /\ [RNext]_<<vars, rejection>> =>
        [\A c \in Caller, now \in Time :
           /\ RejectOutright(c, now) /\ mode = ModeNormal
           /\ rejection[c].Generation = generation
           => now < rejection[c].RetryAt]_<<vars, rejection>>
  <2> SUFFICES ASSUME Fenced, NEW c \in Caller, NEW now \in Time,
                      RejectOutright(c, now), mode = ModeNormal,
                      rejection[c].Generation = generation
               PROVE  now < rejection[c].RetryAt
    OBVIOUS
  <2>1. now < schedule.nextProbeAt
    BY DEF RejectOutright, ModeNormal, ModeForceOpen, ModeIsolated
  <2> QED BY <2>1 DEF Fenced, GenerationFences
<1> QED BY <1>1, FencedAlways, PTL DEF RSpec, RetryAtKept

-----------------------------------------------------------------------------
(* Execute *)

Endings == Class \cup {"none", "panic", "invalid", "unstarted", "stranded"}

Running(c) == call[c].pc # "idle"

(***************************************************************************)
(* CallOwnsPermit is inductive with these: calls do not share permits, a   *)
(* permit has no ending before its call has one, and every deadline comes  *)
(* from an instant that was sampled, which the cancellation after a failed *)
(* first clock read goes back to.  That only a policy that waits strands a *)
(* permit needs, beside it, that nobody is in the wait loop of another.    *)
(***************************************************************************)
Ownership ==
  /\ call \in [Caller -> [pc : {"idle", "admitted", "running"},
                          permit : Permit \cup {"none"}, started : Nat]]
  /\ ending \in [Permit -> Endings]
  /\ \A c \in Caller : Running(c) =>
       /\ call[c].permit \in Permit
       /\ permit[call[c].permit].status \in {"active", "expired"}
       /\ ending[call[c].permit] = "none"
  /\ \A c, d \in Caller : Running(c) /\ Running(d) /\ call[c].permit = call[d].permit => c = d
  /\ \A p \in Permit : permit[p].status = "active" => Held(p) \/ ending[p] = "stranded"
  /\ \A p \in Permit : permit[p].status = "none" => ending[p] = "none"
  /\ \A p \in Permit : permit[p].status # "none" => permit[p].deadline - PermitTTL \in Time

StrandedWaiting ==
  ~HalfOpenWait => /\ \A c \in Caller : caller[c].pc = "idle"
                   /\ \A p \in Permit : ending[p] # "stranded"

\* What a step does to a permit that it does not hand out or end itself.
LeftOrExpired(q) ==
  /\ permit'[q].deadline = permit[q].deadline
  /\ \/ permit'[q].status = permit[q].status
     \/ permit[q].status = "active" /\ permit'[q].status = "expired"

SameOutcomes == \A k \in Class : totals'[k] = totals[k]

-----------------------------------------------------------------------------
(* Steps of the calls are steps of the breaker *)

\* completeAt ends the call's permit and counts the outcome once.
LEMMA CompletingEnds ==
  ASSUME NEW c \in Caller, NEW outcome, NEW now, CompleteAt(c, outcome, now)
  PROVE  /\ SetStatus(call[c].permit, "completed") /\ RecordLifetime(outcome)
         /\ permit[call[c].permit].status \in {"active", "expired"}
BY DEF CompleteAt, CompleteExpiredExecution, CompleteHealthless, CompleteClosed, CompleteProbe,
       CompleteProbeReopens, CompleteProbeRecovers, ProbeCompletion, Completable

\* cancelAt ends it, unless lazy expiry has already, and counts nothing.
LEMMA CancelingEnds ==
  ASSUME NEW c \in Caller, NEW now, CancelAt(c, now)
  PROVE  /\ totals' = totals
         /\ \/ /\ permit[call[c].permit].status = "active"
               /\ \E s \in {"canceled", "expired"} : SetStatus(call[c].permit, s)
            \/ permit' = permit /\ permit[call[c].permit].status = "expired"
BY DEF CancelAt, Cancel, ExpirePermit, vars

\* Every step of Execute is a step of the breaker, or none.
LEMMA ExecutingIsAStep ==
  ASSUME Ownership, [ExecuteNext]_executeVars
  PROVE  [Next]_vars
<1>c. ASSUME NEW c \in Caller, Running(c), NEW outcome \in Class, NEW now \in Time,
             CompleteAt(c, outcome, now)
      PROVE  Next
  <2> DEFINE p == call[c].permit
             slow == Elapsed(now, call[c].started) >= SlowCallDuration
  <2>1. p \in Permit
    BY <1>c DEF Ownership
  <2>2. slow \in BOOLEAN
    OBVIOUS
  <2>3. \/ CompleteExpiredExecution(p, outcome) \/ CompleteHealthless(p, outcome, now)
        \/ CompleteClosed(p, outcome, slow, now) \/ CompleteProbe(p, outcome, now)
        \/ CompleteProbeReopens(p, outcome, now) \/ CompleteProbeRecovers(p, outcome, now)
    BY <1>c DEF CompleteAt
  <2> HIDE DEF p, slow
  <2> QED BY <2>1, <2>2, <2>3 DEF Next, Complete
<1>x. ASSUME NEW c \in Caller, Running(c), NEW now \in Time, CancelAt(c, now)
      PROVE  [Next]_vars
  <2>1. call[c].permit \in Permit
    BY <1>x DEF Ownership
  <2> QED BY <1>x, <2>1 DEF CancelAt, Next
<1>1. ASSUME NEW c \in Caller, NEW p \in Permit, NEW now \in Time, Acquires(c, p, now)
      PROVE  Next
  BY <1>1 DEF Acquires, Next, Acquire
<1>2. ASSUME NEW c \in Caller, NEW now \in Time, Rejected(c, now)
      PROVE  Next
  BY <1>2 DEF Rejected, Next, Acquire
<1>3. ASSUME NEW c \in Caller, NEW now \in Time, Starts(c, now)
      PROVE  UNCHANGED vars
  BY <1>3 DEF Starts
<1>4. ASSUME NEW c \in Caller, NEW now \in Time, NEW outcome \in Class, Classified(c, outcome, now)
      PROVE  Next
  BY <1>4, <1>c DEF Classified, Running
<1>5. ASSUME NEW c \in Caller, NEW now \in Time, ClassifiedInvalid(c, now)
      PROVE  [Next]_vars
  BY <1>5, <1>x DEF ClassifiedInvalid, Running
<1>6. ASSUME NEW c \in Caller, NEW now \in Time, Panics(c, now)
      PROVE  Next
  BY <1>6, <1>c DEF Panics, Running, Class
<1>7. ASSUME NEW c \in Caller, StartPanics(c)
      PROVE  [Next]_vars
  <2>1. Running(c) /\ CancelAt(c, permit[call[c].permit].deadline - PermitTTL)
    BY <1>7 DEF StartPanics, Running
  <2>2. permit[call[c].permit].deadline - PermitTTL \in Time
    BY <2>1 DEF Ownership
  <2> QED BY <2>1, <2>2, <1>x
<1>8. ASSUME NEW now \in Time, Administer(now)
      PROVE  Next
  BY <1>8 DEF Administer, Next
<1>9. ASSUME NEW c \in Caller, NEW now \in Time, Waits(c, now)
      PROVE  Next
  BY <1>9 DEF Waits, Next, Acquire
<1>10. ASSUME NEW c \in Caller, GivesUp(c)
       PROVE  Next
  BY <1>10 DEF GivesUp, Next
<1>11. CASE UNCHANGED executeVars
  BY <1>11 DEF executeVars
<1>12. ASSUME NEW c \in Caller, NEW p \in Permit, NEW now \in Time,
              Admitted(c, p, now) \/ StopPanics(c, p, now)
       PROVE  Next
  BY <1>12, <1>1 DEF Admitted, StopPanics
<1> QED BY <1>2, <1>3, <1>4, <1>5, <1>6, <1>7, <1>8, <1>9, <1>10, <1>11, <1>12 DEF ExecuteNext

-----------------------------------------------------------------------------
(* Permits and their calls *)

\* Steps that neither hand out a permit nor end a call.
LEMMA OthersKeepOwnership ==
  ASSUME IInv, Ownership, UNCHANGED <<call, ending>>, \A q \in Permit : LeftOrExpired(q)
  PROVE  Ownership'
<1>1. \A q \in Permit : permit'[q].status = "none" <=> permit[q].status = "none"
  BY DEF LeftOrExpired
<1>2. \A q \in Permit : permit'[q].status = "active" => permit[q].status = "active"
  BY DEF LeftOrExpired
<1>3. \A q \in Permit : permit[q].status \in {"active", "expired"} => permit'[q].status \in {"active", "expired"}
  BY DEF LeftOrExpired
<1>4. \A q \in Permit : permit'[q].deadline = permit[q].deadline
  BY DEF LeftOrExpired
<1> QED BY <1>1, <1>2, <1>3, <1>4 DEF Ownership, Running, Held

\* An admission: a permit nobody holds, for a goroutine that holds none.
LEMMA AdmissionOwned ==
  ASSUME IInv, Ownership, NEW c \in Caller, NEW p \in Permit, NEW now \in Time,
         call[c].pc = "idle", permit[p].status = "none",
         permit'[p].status = "active", permit'[p].deadline = now + PermitTTL,
         \A q \in Permit : q # p => LeftOrExpired(q),
         call' = [call EXCEPT ![c] = [pc |-> "admitted", permit |-> p, started |-> ZeroTime]],
         UNCHANGED ending
  PROVE  Ownership'
<1>1. /\ call'[c] = [pc |-> "admitted", permit |-> p, started |-> ZeroTime]
      /\ \A d \in Caller : d # c => call'[d] = call[d]
      /\ call' \in [Caller -> [pc : {"idle", "admitted", "running"},
                               permit : Permit \cup {"none"}, started : Nat]]
  BY DEF Ownership, ZeroTime
<1>2. Running(c)' /\ call'[c].permit = p /\ \A d \in Caller : d # c => (Running(d)' <=> Running(d))
  BY <1>1 DEF Running
<1>3. \A q \in Permit : q # p =>
        /\ permit'[q].status = "none" <=> permit[q].status = "none"
        /\ permit'[q].status = "active" => permit[q].status = "active"
        /\ permit[q].status \in {"active", "expired"} => permit'[q].status \in {"active", "expired"}
        /\ permit'[q].deadline = permit[q].deadline
  BY DEF LeftOrExpired
<1>4. \A d \in Caller : Running(d) => call[d].permit # p
  BY DEF Ownership
<1>5. permit'[p].deadline - PermitTTL \in Time
  <2>1. permit'[p].deadline - PermitTTL = now
    BY BreakerAssumption
  <2> QED BY <2>1
<1>6. \A d \in Caller : Running(d)' =>
        /\ call'[d].permit \in Permit
        /\ permit'[call'[d].permit].status \in {"active", "expired"}
        /\ ending'[call'[d].permit] = "none"
  BY <1>1, <1>2, <1>3, <1>4 DEF Ownership
<1>7. \A d, e \in Caller : Running(d)' /\ Running(e)' /\ call'[d].permit = call'[e].permit => d = e
  BY <1>1, <1>2, <1>4 DEF Ownership
<1>8. \A q \in Permit : permit'[q].status = "active" => Held(q)' \/ ending'[q] = "stranded"
  <2> SUFFICES ASSUME NEW q \in Permit, permit'[q].status = "active", ending'[q] # "stranded"
               PROVE  \E d \in Caller : Running(d)' /\ call'[d].permit = q
    BY DEF Held, Running
  <2>1. CASE q = p
    BY <1>2, <2>1
  <2>2. CASE q # p
    <3>1. PICK d \in Caller : Running(d) /\ call[d].permit = q
      BY <1>3, <2>2 DEF Ownership, Held, Running
    <3>2. d # c
      BY <3>1 DEF Running
    <3> QED BY <1>1, <1>2, <3>1, <3>2
  <2> QED BY <2>1, <2>2
<1>9. \A q \in Permit : /\ permit'[q].status = "none" => ending'[q] = "none"
                        /\ permit'[q].status # "none" => permit'[q].deadline - PermitTTL \in Time
  <2> SUFFICES ASSUME NEW q \in Permit
               PROVE  /\ permit'[q].status = "none" => ending'[q] = "none"
                      /\ permit'[q].status # "none" => permit'[q].deadline - PermitTTL \in Time
    OBVIOUS
  <2>1. CASE q = p
    BY <1>5, <2>1
  <2>2. CASE q # p
    BY <1>3, <2>2 DEF Ownership
  <2> QED BY <2>1, <2>2
<1> QED BY <1>1, <1>6, <1>7, <1>8, <1>9 DEF Ownership

\* A permit that acquire lost between the admission and its return.
LEMMA StrandedOwned ==
  ASSUME IInv, Ownership, NEW p \in Permit, NEW now \in Time,
         permit[p].status = "none", permit'[p].status = "active",
         permit'[p].deadline = now + PermitTTL, \A q \in Permit : q # p => LeftOrExpired(q),
         UNCHANGED call, ending' = [ending EXCEPT ![p] = "stranded"]
  PROVE  Ownership'
<1>1. \A q \in Permit : q # p =>
        /\ permit'[q].status = "none" <=> permit[q].status = "none"
        /\ permit'[q].status = "active" => permit[q].status = "active"
        /\ permit[q].status \in {"active", "expired"} => permit'[q].status \in {"active", "expired"}
        /\ permit'[q].deadline = permit[q].deadline
  BY DEF LeftOrExpired
<1>2. /\ ending'[p] = "stranded" /\ ending' \in [Permit -> Endings]
      /\ \A q \in Permit : q # p => ending'[q] = ending[q]
  BY DEF Ownership, Endings
<1>3. \A d \in Caller : Running(d) => call[d].permit # p
  BY DEF Ownership
<1>4. permit'[p].deadline - PermitTTL \in Time
  <2>1. permit'[p].deadline - PermitTTL = now
    BY BreakerAssumption
  <2> QED BY <2>1
<1>5. \A d \in Caller : Running(d)' =>
        /\ call'[d].permit \in Permit
        /\ permit'[call'[d].permit].status \in {"active", "expired"}
        /\ ending'[call'[d].permit] = "none"
  BY <1>1, <1>2, <1>3 DEF Ownership, Running
<1>6. \A q \in Permit : permit'[q].status = "active" => Held(q)' \/ ending'[q] = "stranded"
  BY <1>1, <1>2 DEF Ownership, Held
<1>7. \A q \in Permit : /\ permit'[q].status = "none" => ending'[q] = "none"
                        /\ permit'[q].status # "none" => permit'[q].deadline - PermitTTL \in Time
  <2> SUFFICES ASSUME NEW q \in Permit
               PROVE  /\ permit'[q].status = "none" => ending'[q] = "none"
                      /\ permit'[q].status # "none" => permit'[q].deadline - PermitTTL \in Time
    OBVIOUS
  <2>1. CASE q = p
    BY <1>4, <2>1
  <2>2. CASE q # p
    BY <1>1, <1>2, <2>2 DEF Ownership
  <2> QED BY <2>1, <2>2
<1> QED BY <1>2, <1>5, <1>6, <1>7 DEF Ownership, Running

\* A call that ends has ended its permit, and no other call's.
LEMMA EndingOwned ==
  ASSUME IInv, Ownership, NEW c \in Caller, Running(c), NEW how \in Endings, Ends(c, how),
         \A q \in Permit : q # call[c].permit => permit'[q] = permit[q],
         permit'[call[c].permit].status \in {"expired", "canceled", "completed"},
         permit'[call[c].permit].deadline = permit[call[c].permit].deadline
  PROVE  Ownership'
<1> DEFINE p == call[c].permit
<1>1. p \in Permit /\ permit[p].status # "none"
  BY DEF Ownership
<1>2. /\ call'[c] = NoCall
      /\ \A d \in Caller : d # c => call'[d] = call[d]
      /\ call' \in [Caller -> [pc : {"idle", "admitted", "running"},
                               permit : Permit \cup {"none"}, started : Nat]]
  BY DEF Ownership, Ends, NoCall, ZeroTime
<1>3. /\ ending'[p] = how /\ ending' \in [Permit -> Endings]
      /\ \A q \in Permit : q # p => ending'[q] = ending[q]
  BY <1>1 DEF Ownership, Ends
<1>4. ~Running(c)' /\ \A d \in Caller : d # c => (Running(d)' <=> Running(d))
  BY <1>2 DEF Running, NoCall
<1>5. \A d \in Caller : Running(d) /\ d # c => call[d].permit # p
  BY DEF Ownership
<1> HIDE DEF p
<1>6. /\ \A q \in Permit : q # p => permit'[q] = permit[q]
      /\ permit'[p].status \in {"expired", "canceled", "completed"}
      /\ permit'[p].deadline = permit[p].deadline
  BY DEF p
<1>7. \A d \in Caller : Running(d)' =>
        /\ call'[d].permit \in Permit
        /\ permit'[call'[d].permit].status \in {"active", "expired"}
        /\ ending'[call'[d].permit] = "none"
  BY <1>2, <1>3, <1>4, <1>5, <1>6 DEF Ownership
<1>8. \A d, e \in Caller : Running(d)' /\ Running(e)' /\ call'[d].permit = call'[e].permit => d = e
  BY <1>2, <1>4 DEF Ownership
<1>9. \A q \in Permit : permit'[q].status = "active" => Held(q)' \/ ending'[q] = "stranded"
  <2> SUFFICES ASSUME NEW q \in Permit, permit'[q].status = "active", ending'[q] # "stranded"
               PROVE  \E d \in Caller : Running(d)' /\ call'[d].permit = q
    BY DEF Held, Running
  <2>1. q # p
    BY <1>6
  <2>2. PICK d \in Caller : Running(d) /\ call[d].permit = q
    BY <1>3, <1>6, <2>1 DEF Ownership, Held, Running
  <2>3. d # c
    BY <2>1, <2>2 DEF p
  <2> QED BY <1>2, <1>4, <2>2, <2>3
<1>10. \A q \in Permit : /\ permit'[q].status = "none" => ending'[q] = "none"
                         /\ permit'[q].status # "none" => permit'[q].deadline - PermitTTL \in Time
  BY <1>1, <1>3, <1>6 DEF Ownership
<1> QED BY <1>2, <1>3, <1>7, <1>8, <1>9, <1>10 DEF Ownership

-----------------------------------------------------------------------------
(* Endings and counters *)

\* Only permits that were handed out have an ending.
LEMMA EndedFinite ==
  ASSUME Ownership, Counted, NEW hows, "none" \notin hows
  PROVE  IsFiniteSet(EndedWith(hows))
<1>1. EndedWith(hows) \subseteq Handed
  BY DEF EndedWith, Handed, Ownership
<1> QED BY <1>1, FS_Subset DEF Counted

\* An ending counts once wherever it counts.
LEMMA EndedOnce ==
  ASSUME Ownership, Counted, NEW c \in Caller, Running(c), NEW how, Ends(c, how),
         NEW hows, "none" \notin hows
  PROVE  Cardinality(EndedWith(hows)') = Cardinality(EndedWith(hows)) + One(how \in hows)
<1> DEFINE p == call[c].permit
<1>1. p \in Permit /\ ending[p] = "none" /\ ending \in [Permit -> Endings]
  BY DEF Ownership
<1>2. /\ ending'[p] = how
      /\ \A q \in Permit : q # p => ending'[q] = ending[q]
  BY <1>1 DEF Ends
<1> HIDE DEF p
<1>3. IsFiniteSet(EndedWith(hows)) /\ Cardinality(EndedWith(hows)) \in Nat
  BY EndedFinite, FS_CardinalityType
<1>4. CASE how \in hows
  <2>1. EndedWith(hows)' = EndedWith(hows) \cup {p} /\ p \notin EndedWith(hows)
    BY <1>1, <1>2, <1>4 DEF EndedWith
  <2> QED BY <1>3, <1>4, <2>1, FS_AddElement DEF One
<1>5. CASE how \notin hows
  <2>1. EndedWith(hows)' = EndedWith(hows)
    BY <1>1, <1>2, <1>5 DEF EndedWith
  <2> QED BY <1>3, <1>5, <2>1 DEF One
<1> QED BY <1>4, <1>5

\* No outcome is one of the other endings.
LEMMA EndingsDiffer ==
  /\ \A k \in Class : k \notin {"none", "panic", "invalid", "unstarted", "stranded"}
  /\ "none" \notin {Success} /\ "none" \notin {Failure, "panic"} /\ "none" \notin {Ignored}
BY DEF Class, Success, Failure, Ignored

\* A call that ended with an outcome, or panicked, is counted with it.
LEMMA OutcomeCounted ==
  ASSUME IInv, Ownership, Counted, EndingsCounted, NEW c \in Caller, Running(c),
         NEW outcome \in Class, RecordLifetime(outcome),
         NEW how, how = outcome \/ (how = "panic" /\ outcome = Failure), Ends(c, how)
  PROVE  EndingsCounted'
<1>1. \A k \in Class : totals'[k] = totals[k] + One(k = outcome)
  BY CountersDiffer DEF RecordLifetime, One
<1>2. /\ (how \in {Success}) = (Success = outcome)
      /\ (how \in {Failure, "panic"}) = (Failure = outcome)
      /\ (how \in {Ignored}) = (Ignored = outcome)
  BY EndingsDiffer, CountersDiffer
<1>3. Cardinality(EndedWith({Success})') = Cardinality(EndedWith({Success})) + One(Success = outcome)
  BY <1>2, EndedOnce, EndingsDiffer
<1>4. Cardinality(EndedWith({Failure, "panic"})') = Cardinality(EndedWith({Failure, "panic"})) + One(Failure = outcome)
  BY <1>2, EndedOnce, EndingsDiffer
<1>5. Cardinality(EndedWith({Ignored})') = Cardinality(EndedWith({Ignored})) + One(Ignored = outcome)
  BY <1>2, EndedOnce, EndingsDiffer
<1> QED BY <1>1, <1>3, <1>4, <1>5, CountersDiffer DEF EndingsCounted

\* A call without a valid outcome counts nowhere.
LEMMA NothingCounted ==
  ASSUME IInv, Ownership, Counted, EndingsCounted, NEW c \in Caller, Running(c), SameOutcomes,
         NEW how \in {"invalid", "unstarted"}, Ends(c, how)
  PROVE  EndingsCounted'
<1>1. how \notin {Success} /\ how \notin {Failure, "panic"} /\ how \notin {Ignored}
  BY EndingsDiffer, CountersDiffer
<1>2. /\ Cardinality(EndedWith({Success})) \in Nat
      /\ Cardinality(EndedWith({Failure, "panic"})) \in Nat
      /\ Cardinality(EndedWith({Ignored})) \in Nat
  BY EndedFinite, EndingsDiffer, FS_CardinalityType
<1>3. Cardinality(EndedWith({Success})') = Cardinality(EndedWith({Success}))
  BY <1>1, <1>2, EndedOnce, EndingsDiffer DEF One
<1>4. Cardinality(EndedWith({Failure, "panic"})') = Cardinality(EndedWith({Failure, "panic"}))
  BY <1>1, <1>2, EndedOnce, EndingsDiffer DEF One
<1>5. Cardinality(EndedWith({Ignored})') = Cardinality(EndedWith({Ignored}))
  BY <1>1, <1>2, EndedOnce, EndingsDiffer DEF One
<1> QED BY <1>3, <1>4, <1>5, CountersDiffer DEF EndingsCounted, SameOutcomes

-----------------------------------------------------------------------------
(* Every step *)

\* Lazy expiry, mode changes and resets touch no permit in any other way.
LEMMA ExpiryLeaves ==
  ASSUME IInv, NEW now
  PROVE  permit' = PermitAfterExpiry(Due(now)) => \A q \in Permit : LeftOrExpired(q)
<1> SUFFICES ASSUME permit' = PermitAfterExpiry(Due(now)), NEW q \in Permit PROVE LeftOrExpired(q)
  OBVIOUS
<1>1. permit'[q] = IF q \in Due(now) THEN [permit[q] EXCEPT !.status = "expired"] ELSE permit[q]
  BY DEF PermitAfterExpiry
<1>2. permit[q] \in PermitRecord /\ (q \in Due(now) => permit[q].status = "active")
  BY DEF IInv, TypeOK, Due
<1> QED BY <1>1, <1>2 DEF LeftOrExpired, PermitRecord

\* What an admission does to the permits.
LEMMA AdmittedPermits ==
  ASSUME IInv, NEW c \in Caller, NEW p \in Permit, NEW now \in Time, Acquires(c, p, now)
  PROVE  /\ permit[p].status = "none" /\ permit'[p].status = "active"
         /\ permit'[p].deadline = now + PermitTTL
         /\ \A q \in Permit : q # p => LeftOrExpired(q)
         /\ totals' = [totals EXCEPT !["admitted"] = @ + 1]
<1> DEFINE handed(permits) == \E g, s, recording :
             Admit(p, permits, g, s, now, recording, TRUE)
<1>p. permit \in [Permit -> PermitRecord]
  BY DEF IInv, TypeOK
<1>1. CASE handed(permit)
  BY <1>1, <1>p DEF Admit, LeftOrExpired
<1>2. CASE handed(PermitAfterExpiry(Due(now)))
  <2>1. DOMAIN PermitAfterExpiry(Due(now)) = Permit
    BY DEF PermitAfterExpiry
  <2>2. /\ permit[p].status = "none" /\ permit'[p].status = "active"
        /\ permit'[p].deadline = now + PermitTTL
        /\ \A q \in Permit : q # p => permit'[q] = PermitAfterExpiry(Due(now))[q]
        /\ totals' = [totals EXCEPT !["admitted"] = @ + 1]
    BY <1>2, <2>1 DEF Admit
  <2>3. ASSUME NEW q \in Permit, q # p PROVE LeftOrExpired(q)
    <3>1. permit'[q] = IF q \in Due(now) THEN [permit[q] EXCEPT !.status = "expired"] ELSE permit[q]
      BY <2>2, <2>3 DEF PermitAfterExpiry
    <3>2. permit[q] \in PermitRecord /\ (q \in Due(now) => permit[q].status = "active")
      BY DEF IInv, TypeOK, Due
    <3> QED BY <3>1, <3>2 DEF LeftOrExpired, PermitRecord
  <2> QED BY <2>2, <2>3
<1> QED BY <1>1, <1>2 DEF Acquires, AcquireDisabled, AcquireClosed, AcquireFirstProbe, AcquireProbe

Calls == Ownership /\ EndingsCounted

\* A call ends through completeAt.
LEMMA CompletionStep ==
  ASSUME IInv, Counted, Calls, NEW c \in Caller, Running(c), NEW outcome \in Class, NEW now,
         CompleteAt(c, outcome, now),
         NEW how \in Endings, how = outcome \/ (how = "panic" /\ outcome = Failure), Ends(c, how)
  PROVE  Calls'
<1>1. call[c].permit \in Permit /\ permit \in [Permit -> PermitRecord]
  BY DEF Calls, Ownership, IInv, TypeOK
<1>2. SetStatus(call[c].permit, "completed") /\ RecordLifetime(outcome)
  BY CompletingEnds
<1>3. /\ \A q \in Permit : q # call[c].permit => permit'[q] = permit[q]
      /\ permit'[call[c].permit].status = "completed"
      /\ permit'[call[c].permit].deadline = permit[call[c].permit].deadline
  BY <1>1, <1>2 DEF SetStatus, PermitRecord
<1>4. Ownership'
  BY <1>3, EndingOwned DEF Calls
<1>5. EndingsCounted'
  BY <1>2, OutcomeCounted DEF Calls
<1> QED BY <1>4, <1>5 DEF Calls

\* A call ends through cancelAt.
LEMMA CancellationStep ==
  ASSUME IInv, Counted, Calls, NEW c \in Caller, Running(c), NEW now, CancelAt(c, now),
         NEW how \in {"invalid", "unstarted"}, Ends(c, how)
  PROVE  Calls'
<1>1. call[c].permit \in Permit /\ permit \in [Permit -> PermitRecord]
  BY DEF Calls, Ownership, IInv, TypeOK
<1>2. /\ totals' = totals
      /\ \/ \E s \in {"canceled", "expired"} : SetStatus(call[c].permit, s)
         \/ permit' = permit /\ permit[call[c].permit].status = "expired"
  BY CancelingEnds
<1>3. /\ \A q \in Permit : q # call[c].permit => permit'[q] = permit[q]
      /\ permit'[call[c].permit].status \in {"canceled", "expired"}
      /\ permit'[call[c].permit].deadline = permit[call[c].permit].deadline
  BY <1>1, <1>2 DEF SetStatus, PermitRecord
<1>4. Ownership'
  BY <1>3, EndingOwned DEF Calls, Endings
<1>5. EndingsCounted'
  BY <1>2, NothingCounted DEF Calls, SameOutcomes
<1> QED BY <1>4, <1>5 DEF Calls

\* A call is lost to a panic inside acquire: its permit has an ending that counts nowhere.
LEMMA StrandedStep ==
  ASSUME IInv, Calls, NEW c \in Caller, NEW p \in Permit, NEW now \in Time, Acquires(c, p, now),
         totals' = [totals EXCEPT !["admitted"] = @ + 1] => SameOutcomes,
         ending' = [ending EXCEPT ![p] = "stranded"], UNCHANGED call
  PROVE  Calls'
<1>1. Ownership' /\ SameOutcomes /\ permit[p].status = "none"
  BY AdmittedPermits, StrandedOwned DEF Calls
<1>2. /\ ending[p] = "none" /\ ending'[p] = "stranded"
      /\ \A q \in Permit : q # p => ending'[q] = ending[q]
  BY <1>1 DEF Calls, Ownership
<1>3. /\ EndedWith({Success})' = EndedWith({Success})
      /\ EndedWith({Failure, "panic"})' = EndedWith({Failure, "panic"})
      /\ EndedWith({Ignored})' = EndedWith({Ignored})
  BY <1>2, EndingsDiffer, CountersDiffer DEF EndedWith
<1>4. EndingsCounted'
  BY <1>1, <1>3, CountersDiffer DEF Calls, EndingsCounted, SameOutcomes
<1> QED BY <1>1, <1>4 DEF Calls

\* A step in which no call begins or ends.
LEMMA OtherStep ==
  ASSUME IInv, Calls, UNCHANGED <<call, ending>>, \A q \in Permit : LeftOrExpired(q), SameOutcomes
  PROVE  Calls'
<1>1. Ownership'
  BY OthersKeepOwnership DEF Calls
<1>2. EndingsCounted'
  BY CountersDiffer DEF Calls, EndingsCounted, EndedWith, SameOutcomes
<1> QED BY <1>1, <1>2 DEF Calls

\* One step of any call, or of an operator beside it.
LEMMA CallsStep ==
  ASSUME IInv, Counted, Calls, [ExecuteNext]_executeVars
  PROVE  Calls'
<1>t. totals \in [Counter -> Nat]
  BY DEF IInv, TypeOK
<1>r. RejectLocked \/ totals' = totals \/ totals' = [totals EXCEPT !["admitted"] = @ + 1] => SameOutcomes
  BY <1>t, CountersDiffer DEF RejectLocked, SameOutcomes
<1>k. permit' = permit => \A q \in Permit : LeftOrExpired(q)
  BY DEF LeftOrExpired
<1>1. ASSUME NEW c \in Caller, NEW p \in Permit, NEW now \in Time, Admitted(c, p, now)
      PROVE  Calls'
  <2>1. /\ call[c].pc = "idle" /\ UNCHANGED ending /\ Acquires(c, p, now)
        /\ call' = [call EXCEPT ![c] = [pc |-> "admitted", permit |-> p, started |-> ZeroTime]]
    BY <1>1 DEF Admitted, Acquires
  <2>2. Ownership'
    BY <2>1, AdmittedPermits, AdmissionOwned DEF Calls
  <2>3. SameOutcomes
    BY <2>1, <1>r, AdmittedPermits
  <2>4. EndingsCounted'
    BY <2>1, <2>3, CountersDiffer DEF Calls, EndingsCounted, EndedWith, SameOutcomes
  <2> QED BY <2>2, <2>4 DEF Calls
<1>2. ASSUME NEW c \in Caller, NEW now \in Time, Rejected(c, now)
      PROVE  Calls'
  <2>1. /\ UNCHANGED <<call, ending>> /\ RejectLocked
        /\ permit' = permit \/ permit' = PermitAfterExpiry(Due(now))
    BY <1>2 DEF Rejected, RejectOutright, RejectExhausted
  <2> QED BY <2>1, <1>r, <1>k, ExpiryLeaves, OtherStep
<1>3. ASSUME NEW c \in Caller, NEW now \in Time, Starts(c, now)
      PROVE  Calls'
  <2>1. /\ call[c].pc = "admitted" /\ UNCHANGED <<permit, totals, ending>>
        /\ call' = [call EXCEPT ![c].pc = "running", ![c].started = now]
    BY <1>3 DEF Starts, vars
  <2>2. /\ call'[c].pc = "running" /\ call'[c].permit = call[c].permit
        /\ \A d \in Caller : d # c => call'[d] = call[d]
        /\ call' \in [Caller -> [pc : {"idle", "admitted", "running"},
                                 permit : Permit \cup {"none"}, started : Nat]]
    <3>1. call[c] \in [pc : {"idle", "admitted", "running"}, permit : Permit \cup {"none"}, started : Nat]
      BY DEF Calls, Ownership
    <3> DEFINE ready == [call EXCEPT ![c].pc = "running"]
    <3>2. call' = [ready EXCEPT ![c].started = now]
      BY <2>1
    <3>3. /\ ready[c].pc = "running" /\ ready[c].permit = call[c].permit
          /\ \A d \in Caller : d # c => ready[d] = call[d]
          /\ ready \in [Caller -> [pc : {"idle", "admitted", "running"},
                                   permit : Permit \cup {"none"}, started : Nat]]
      BY <3>1 DEF Calls, Ownership
    <3> HIDE DEF ready
    <3> QED BY <3>2, <3>3, BreakerAssumption
  <2>3. \A d \in Caller : call'[d].permit = call[d].permit /\ (Running(d)' <=> Running(d))
    BY <2>1, <2>2 DEF Running
  <2>4. Ownership'
    <3>1. \A q \in Permit : Held(q)' <=> Held(q)
      BY <2>3 DEF Held, Running
    <3> QED BY <2>1, <2>2, <2>3, <3>1 DEF Calls, Ownership
  <2>5. EndingsCounted'
    BY <2>1 DEF Calls, EndingsCounted, EndedWith
  <2> QED BY <2>4, <2>5 DEF Calls
<1>4. ASSUME NEW c \in Caller, NEW now \in Time, NEW outcome \in Class, Classified(c, outcome, now)
      PROVE  Calls'
  BY <1>4, CompletionStep DEF Classified, Running, Endings
<1>5. ASSUME NEW c \in Caller, NEW now \in Time, ClassifiedInvalid(c, now)
      PROVE  Calls'
  BY <1>5, CancellationStep DEF ClassifiedInvalid, Running
<1>6. ASSUME NEW c \in Caller, NEW now \in Time, Panics(c, now)
      PROVE  Calls'
  <2>1. Failure \in Class /\ "panic" \in Endings
    BY DEF Class, Endings
  <2> QED BY <1>6, <2>1, CompletionStep DEF Panics, Running
<1>7. ASSUME NEW c \in Caller, StartPanics(c)
      PROVE  Calls'
  BY <1>7, CancellationStep DEF StartPanics, Running
<1>8. ASSUME NEW now \in Time, Administer(now)
      PROVE  Calls'
  <2>1. /\ UNCHANGED <<call, ending>> /\ totals' = totals
        /\ permit' = permit \/ permit' = PermitAfterExpiry(Due(now))
    BY <1>8 DEF Administer, Snapshot, Reset, SetMode
  <2> QED BY <2>1, <1>r, <1>k, ExpiryLeaves, OtherStep
<1>9. CASE UNCHANGED executeVars
  BY <1>9, <1>r, <1>k, OtherStep DEF executeVars, vars
<1>10. ASSUME NEW c \in Caller, NEW p \in Permit, NEW now \in Time, StopPanics(c, p, now)
       PROVE  Calls'
  BY <1>10, <1>r, StrandedStep DEF StopPanics
<1>11. ASSUME NEW c \in Caller, NEW now \in Time, Waits(c, now)
       PROVE  Calls'
  <2>1. /\ UNCHANGED <<call, ending>> /\ totals' = totals
        /\ permit' = PermitAfterExpiry(Due(now))
    BY <1>11 DEF Waits, Wait
  <2> QED BY <2>1, <1>r, ExpiryLeaves, OtherStep
<1>12. ASSUME NEW c \in Caller, GivesUp(c)
       PROVE  Calls'
  <2>1. UNCHANGED <<call, ending>> /\ permit' = permit /\ (RejectLocked \/ totals' = totals)
    BY <1>12 DEF GivesUp, WaitTimeout, WaitCanceled
  <2> QED BY <2>1, <1>r, <1>k, OtherStep
<1> QED BY <1>1, <1>2, <1>3, <1>4, <1>5, <1>6, <1>7, <1>8, <1>9, <1>10, <1>11, <1>12 DEF ExecuteNext

\* Unless the policy waits, no step leaves a goroutine in the wait loop.
LEMMA NobodyWaits ==
  ASSUME TypeOK, ~HalfOpenWait, \A c \in Caller : caller[c].pc = "idle", [Next]_vars
  PROVE  \A c \in Caller : caller'[c].pc = "idle"
<1> DEFINE Quiet == \/ caller' = caller
                    \/ \E c \in Caller : caller' = [caller EXCEPT ![c] = Idle]
<1>1. Signal(caller) = caller
  BY DEF Signal, TypeOK
<1>2. \A S : CallerAfterRelease(S) = caller
  BY <1>1 DEF CallerAfterRelease
<1>3. ASSUME NEW c \in Caller, NEW now \in Time, Acquire(c, now)
      PROVE  Quiet
  BY <1>3, <1>1, <1>2 DEF Acquire, AcquireDisabled, AcquireClosed, AcquireFirstProbe, AcquireProbe,
       RejectOutright, RejectExhausted, Wait, Return
<1>4. ASSUME NEW c \in Caller, WaitTimeout(c) \/ WaitCanceled(c)
      PROVE  Quiet
  BY <1>4 DEF WaitTimeout, WaitCanceled, Return
<1>5. ASSUME NEW p \in Permit, NEW outcome \in Class, CompleteExpiredExecution(p, outcome)
      PROVE  Quiet
  BY <1>5 DEF CompleteExpiredExecution
<1>6. ASSUME NEW p \in Permit, NEW outcome \in Class, NEW now \in Time, Complete(p, outcome, now)
      PROVE  Quiet
  BY <1>6, <1>1 DEF Complete, CompleteHealthless, CompleteClosed, CompleteProbe,
       CompleteProbeReopens, CompleteProbeRecovers, OpenLocked, CloseLocked, TransitionLocked
<1>7. ASSUME NEW p \in Permit, NEW now \in Time, ExpirePermit(p, now) \/ Cancel(p, now)
      PROVE  Quiet
  BY <1>7, <1>2 DEF ExpirePermit, Cancel
<1>8. ASSUME NEW m \in Mode, NEW now \in Time, SetMode(m, now)
      PROVE  Quiet
  BY <1>8, <1>1 DEF SetMode
<1>9. ASSUME NEW now \in Time, Reset(now) \/ Snapshot(now)
      PROVE  Quiet
  BY <1>9, <1>1, <1>2 DEF Reset, CloseLocked, TransitionLocked, Snapshot
<1>10. ASSUME UNCHANGED vars PROVE Quiet
  BY <1>10 DEF vars
<1>11. Quiet
  <2> HIDE DEF Quiet
  <2> QED BY <1>3, <1>4, <1>5, <1>6, <1>7, <1>8, <1>9, <1>10 DEF Next
<1> QED BY <1>11 DEF TypeOK, Idle

\* So a panic of Timer.Stop, which follows a wait, strands nothing there.
LEMMA StrandedWaitingStep ==
  ASSUME IInv, Ownership, StrandedWaiting, [ExecuteNext]_executeVars
  PROVE  StrandedWaiting'
<1> SUFFICES ASSUME ~HalfOpenWait
             PROVE  /\ \A c \in Caller : caller'[c].pc = "idle"
                    /\ \A p \in Permit : ending'[p] # "stranded"
  BY DEF StrandedWaiting
<1>1. /\ \A c \in Caller : caller[c].pc = "idle"
      /\ \A p \in Permit : ending[p] # "stranded"
  BY DEF StrandedWaiting
<1>2. \A c \in Caller : caller'[c].pc = "idle"
  BY <1>1, ExecutingIsAStep, NobodyWaits DEF IInv
<1>e. ASSUME NEW c \in Caller, NEW how, how # "stranded", Ends(c, how)
      PROVE  \A p \in Permit : ending'[p] # "stranded"
  BY <1>e, <1>1 DEF Ends, Ownership
<1> DEFINE Unstranded == \A p \in Permit : ending'[p] # "stranded"
<1>k. UNCHANGED ending => Unstranded
  BY <1>1
<1> HIDE DEF Unstranded
<1>3. ASSUME NEW c \in Caller, NEW p \in Permit, NEW now \in Time,
             Admitted(c, p, now) \/ StopPanics(c, p, now)
      PROVE  Unstranded
  BY <1>3, <1>1, <1>k DEF Admitted, StopPanics
<1>4. ASSUME NEW c \in Caller, NEW now \in Time,
             Waits(c, now) \/ Rejected(c, now) \/ Starts(c, now)
      PROVE  Unstranded
  BY <1>4, <1>k DEF Waits, Rejected, Starts
<1>5. ASSUME NEW c \in Caller, NEW now \in Time, NEW outcome \in Class, Classified(c, outcome, now)
      PROVE  Unstranded
  BY <1>5, <1>e, EndingsDiffer DEF Classified, Unstranded
<1>6. ASSUME NEW c \in Caller, NEW now \in Time, ClassifiedInvalid(c, now) \/ Panics(c, now)
      PROVE  Unstranded
  BY <1>6, <1>e DEF ClassifiedInvalid, Panics, Unstranded
<1>7. ASSUME NEW c \in Caller, GivesUp(c) \/ StartPanics(c)
      PROVE  Unstranded
  BY <1>7, <1>e, <1>k DEF GivesUp, StartPanics, Unstranded
<1>8. ASSUME NEW now \in Time, Administer(now)
      PROVE  Unstranded
  BY <1>8, <1>k DEF Administer
<1>9. ASSUME UNCHANGED executeVars PROVE Unstranded
  BY <1>9, <1>k DEF executeVars
<1>10. Unstranded
  BY <1>3, <1>4, <1>5, <1>6, <1>7, <1>8, <1>9 DEF ExecuteNext
<1> QED BY <1>2, <1>10 DEF Unstranded

\* The inductive invariant of the calls holds with that of the breaker.
LEMMA CallsAlways == ExecuteSpec => [](IInv /\ Counted /\ Calls /\ StrandedWaiting)
<1>1. ExecuteInit => IInv /\ Counted /\ Calls /\ StrandedWaiting
  <2> SUFFICES ASSUME ExecuteInit PROVE IInv /\ Counted /\ Calls /\ StrandedWaiting
    OBVIOUS
  <2>1. IInv /\ Counted
    BY InitInvariant, InitCounted DEF ExecuteInit
  <2>2. Ownership
    BY DEF ExecuteInit, Init, NoPermit, NoCall, Ownership, Running, Endings, ZeroTime
  <2>3. EndedWith({Success}) = {} /\ EndedWith({Failure, "panic"}) = {} /\ EndedWith({Ignored}) = {}
    BY EndingsDiffer DEF ExecuteInit, EndedWith
  <2>4. totals[Success] = 0 /\ totals[Failure] = 0 /\ totals[Ignored] = 0
    BY CountersDiffer DEF ExecuteInit, Init
  <2>5. EndingsCounted
    BY <2>3, <2>4, FS_EmptySet DEF EndingsCounted
  <2>6. StrandedWaiting
    BY DEF ExecuteInit, Init, Idle, StrandedWaiting
  <2> QED BY <2>1, <2>2, <2>5, <2>6 DEF Calls
<1>2. IInv /\ Counted /\ Calls /\ StrandedWaiting /\ [ExecuteNext]_executeVars
        => (IInv /\ Counted /\ Calls /\ StrandedWaiting)'
  BY ExecutingIsAStep, InvarianceStep, CountedStep, CallsStep, StrandedWaitingStep DEF Calls
<1> QED BY <1>1, <1>2, PTL DEF ExecuteSpec

(***************************************************************************)
(* execute.go, for waiting and rejecting policies: a permit is active only *)
(* while its call runs, and a running call finds its permit active or      *)
(* lazily expired, so none is ended twice, also when the operation, the    *)
(* classifier or a clock read panics.  The only permits without a call are *)
(* those of calls whose timer panicked in acquire's deferred Stop, and     *)
(* those need WaitForProbe.                                                *)
(***************************************************************************)
THEOREM PermitsOwned == ExecuteSpec => []CallOwnsPermit
<1>1. Calls /\ StrandedWaiting => CallOwnsPermit
  BY DEF Calls, Ownership, Running, CallOwnsPermit, StrandedWaiting
<1> QED BY <1>1, CallsAlways, PTL

(***************************************************************************)
(* Every call that ended is counted once, under the outcome its ending     *)
(* stands for: a panic as a failure, a call without a classification or    *)
(* without a start not at all.                                             *)
(***************************************************************************)
THEOREM CallsCounted == ExecuteSpec => []EndingsCounted
<1>1. Calls => EndingsCounted
  BY DEF Calls
<1> QED BY <1>1, CallsAlways, PTL

-----------------------------------------------------------------------------
(* The wait of acquire, for any number of callers, permits and instants *)


\* The types of the loop.
LoopTypes ==
  /\ caller \in CallerType
  /\ clock \in Nat /\ clock <= Horizon
  /\ began \in [Caller -> Nat] /\ sample \in [Caller -> Nat]
  /\ timer \in [Caller -> 0..NoTimer]
  /\ step \in [Caller -> {"out", "lock", "timer", "select"}]

\* The wait deadline is fixed by the first sample, which is the first turn's.
Deadlines ==
  \A c \in Caller :
    /\ step[c] = "out" => caller[c].pc = "idle"
    /\ caller[c].pc # "idle" => caller[c].deadline = began[c] + MaxWait
    /\ step[c] = "lock" /\ caller[c].pc = "idle" => sample[c] = began[c]

\* Nothing a goroutine has sampled lies in the future.
Samplings ==
  \A c \in Caller :
    /\ step[c] # "out" => began[c] <= clock
    /\ step[c] = "lock" => sample[c] <= clock

\* A timer has run for no more ticks than the clock since the call began; at the
\* horizon, where the clock stands still, the wait is over.
Timers ==
  \A c \in Caller :
    /\ step[c] = "out" => timer[c] = NoTimer
    /\ scenario = "any" /\ step[c] # "out" =>
         /\ began[c] + MaxWait <= Horizon
         /\ timer[c] # NoTimer => clock + timer[c] >= began[c] + MaxWait \/ clock = Horizon

\* The inductive invariant of the loop.
Loop == LoopTypes /\ Deadlines /\ Samplings /\ Timers

\* What a step of another goroutine may do to a caller: at most wake it.
Kept(d) ==
  /\ caller'[d].deadline = caller[d].deadline
  /\ caller'[d].pc = "idle" <=> caller[d].pc = "idle"

-----------------------------------------------------------------------------
(* The breaker's effect on its callers *)

\* signalLocked wakes the parked and touches nothing else.
LEMMA SignalKeeps ==
  ASSUME NEW callers \in CallerType
  PROVE  /\ Signal(callers) \in CallerType
         /\ \A d \in Caller : /\ Signal(callers)[d].deadline = callers[d].deadline
                              /\ Signal(callers)[d].pc = "idle" <=> callers[d].pc = "idle"
BY DEF CallerType, Signal, Idle, ZeroTime

\* Releasing permits wakes callers and leaves what the loop knows of them.
LEMMA ReleaseKeeps ==
  ASSUME caller \in CallerType, NEW S
  PROVE  /\ CallerAfterRelease(S) \in CallerType
         /\ \A d \in Caller : /\ CallerAfterRelease(S)[d].deadline = caller[d].deadline
                              /\ CallerAfterRelease(S)[d].pc = "idle" <=> caller[d].pc = "idle"
BY SignalKeeps DEF CallerAfterRelease

\* Complete, Cancel, expiry, administration and snapshots.
LEMMA OthersWakeOnly ==
  ASSUME caller \in CallerType,
         \/ \E p \in Permit, outcome \in Class : Finish(p, outcome)
         \/ \E p \in Permit : Abandon(p)
         \/ AdministerWaiting
  PROVE  caller' \in CallerType /\ \A d \in Caller : Kept(d)
<1>1. \/ caller' = caller \/ caller' = Signal(caller) \/ \E S : caller' = CallerAfterRelease(S)
  <2>1. ASSUME NEW p \in Permit, NEW outcome \in Class, Finish(p, outcome)
        PROVE  caller' = caller \/ caller' = Signal(caller)
    BY <2>1 DEF Finish, Complete, CompleteHealthless, CompleteClosed, CompleteProbe,
                CompleteProbeReopens, CompleteProbeRecovers, OpenLocked, CloseLocked,
                TransitionLocked
  <2>2. ASSUME NEW p \in Permit, Abandon(p)
        PROVE  \E S : caller' = CallerAfterRelease(S)
    BY <2>2 DEF Abandon, Cancel, ExpirePermit
  <2>3. CASE AdministerWaiting
    BY <2>3 DEF AdministerWaiting, Snapshot, Reset, SetMode, CloseLocked, TransitionLocked
  <2>4. QED
    BY <2>1, <2>2, <2>3
<1>2. QED
  BY <1>1, SignalKeeps, ReleaseKeeps DEF Kept

\* A turn that ends the call: its caller is out, others are at most woken.
LEMMA ReturnsKeep ==
  ASSUME NEW c \in Caller, NEW callers \in CallerType, Return(c, callers),
         \A d \in Caller : /\ callers[d].deadline = caller[d].deadline
                           /\ callers[d].pc = "idle" <=> caller[d].pc = "idle"
  PROVE  /\ caller' \in CallerType /\ caller'[c] = Idle
         /\ \A d \in Caller : d # c => Kept(d)
BY DEF Return, CallerType, Idle, ZeroTime, Kept

\* A turn that returns leaves its caller idle and parks nobody else.
LEMMA TurnEnds ==
  ASSUME caller \in CallerType, NEW c \in Caller,
         \/ TurnAdmits(c) \/ TurnRejects(c) \/ TurnTimesOut(c) \/ TimerFires(c) \/ ContextEnds(c)
  PROVE  /\ caller' \in CallerType /\ caller'[c].pc = "idle"
         /\ \A d \in Caller : d # c => Kept(d)
<1>1. \/ Return(c, caller) \/ Return(c, Signal(caller)) \/ \E S : Return(c, CallerAfterRelease(S))
      \/ caller[c].pc = "idle" /\ caller' = caller
  BY DEF TurnAdmits, TurnRejects, TurnTimesOut, TimerFires, ContextEnds, AcquireDisabled,
         AcquireClosed, AcquireFirstProbe, AcquireProbe, RejectOutright, WaitTimeout,
         WaitCanceled, vars
<1>2. QED
  BY <1>1, ReturnsKeep, SignalKeeps, ReleaseKeeps DEF Idle, Kept

\* Parking: the deadline is the first sample's.
LEMMA TurnParks ==
  ASSUME caller \in CallerType, NEW c \in Caller, sample[c] \in Nat, Wait(c, sample[c])
  PROVE  /\ caller' \in CallerType /\ caller'[c].pc # "idle"
         /\ caller'[c].deadline = IF caller[c].pc = "idle" THEN sample[c] + MaxWait
                                                           ELSE caller[c].deadline
         /\ \A d \in Caller : d # c => Kept(d)
<1> DEFINE callers == CallerAfterRelease(Due(sample[c]))
           deadline == IF caller[c].pc = "idle" THEN sample[c] + MaxWait ELSE caller[c].deadline
<1>1. callers \in CallerType
      /\ \A d \in Caller : /\ callers[d].deadline = caller[d].deadline
                           /\ callers[d].pc = "idle" <=> caller[d].pc = "idle"
  BY ReleaseKeeps
<1>2. caller' = [callers EXCEPT ![c] = [pc |-> "parked", deadline |-> deadline]]
  BY DEF Wait
<1>3. deadline \in Nat
  BY BreakerAssumption DEF CallerType, Idle, ZeroTime
<1> HIDE DEF callers, deadline
<1>4. /\ caller' \in CallerType /\ caller'[c].pc = "parked" /\ caller'[c].deadline = deadline
      /\ \A d \in Caller : d # c => caller'[d] = callers[d]
  BY <1>1, <1>2, <1>3 DEF CallerType
<1>5. QED
  BY <1>1, <1>4 DEF Kept, deadline

-----------------------------------------------------------------------------
(* The loop *)

\* The horizon is an instant, and the first instant does not lie after it.
LEMMA Horizons == Min(Time) \in Nat /\ Horizon \in Nat /\ Min(Time) <= Horizon
<1>1. PICK first \in Time, last \in Time : \A t \in Time : first <= t /\ t <= last
  BY AdmissionAssumption
<1>2. \A t \in Time : t \in Nat
  BY BreakerAssumption
<1>3. Min(Time) \in Time /\ \A t \in Time : Min(Time) <= t
  BY <1>1 DEF Min
<1>4. Max(Time) \in Time /\ \A t \in Time : Max(Time) >= t
  <2>1. last \in Time /\ \A t \in Time : last >= t
    BY <1>1, <1>2
  <2>2. QED
    BY <2>1 DEF Max
<1>5. QED
  BY <1>2, <1>3, <1>4 DEF Horizon

\* It holds at first.
LEMMA InitLoop == AdmissionInit => Loop
<1> SUFFICES ASSUME AdmissionInit PROVE Loop
  OBVIOUS
<1>1. caller \in CallerType /\ \A c \in Caller : caller[c].pc = "idle"
  BY DEF AdmissionInit, Init, CallerType, Idle, ZeroTime
<1>2. MaxWait \in Nat
  BY BreakerAssumption
<1>3. LoopTypes
  BY <1>1, <1>2, Horizons DEF AdmissionInit, LoopTypes, ZeroTime, NoTimer
<1>4. Deadlines /\ Samplings /\ Timers
  BY <1>1 DEF AdmissionInit, Deadlines, Samplings, Timers
<1>5. QED
  BY <1>3, <1>4 DEF Loop

\* Steps that leave every goroutine where it is in the loop.
LEMMA OthersKeepLoop ==
  ASSUME Loop, UNCHANGED <<scenario, clock, step, began, sample, timer>>,
         caller' \in CallerType, \A d \in Caller : Kept(d)
  PROVE  Loop'
<1>1. LoopTypes'
  BY DEF Loop, LoopTypes
<1>2. Deadlines'
  BY DEF Loop, Deadlines, Kept
<1>3. Samplings' /\ Timers'
  BY DEF Loop, Samplings, Timers
<1>4. QED
  BY <1>1, <1>2, <1>3 DEF Loop

\* acquire returns.
LEMMA LeaveKeepsLoop ==
  ASSUME Loop, NEW c \in Caller, Leave(c), scenario' = scenario,
         caller' \in CallerType, caller'[c].pc = "idle", \A d \in Caller : d # c => Kept(d)
  PROVE  Loop'
<1>1. MaxWait \in Nat
  BY BreakerAssumption
<1>2. LoopTypes'
  BY <1>1 DEF Loop, LoopTypes, Leave, ZeroTime, NoTimer
<1>3. Deadlines'
  BY DEF Loop, LoopTypes, Deadlines, Kept, Leave
<1>4. Samplings' /\ Timers'
  BY DEF Loop, LoopTypes, Samplings, Timers, Leave
<1>5. QED
  BY <1>2, <1>3, <1>4 DEF Loop

\* The call's first clock sample.
LEMMA EnterKeepsLoop ==
  ASSUME Loop, NEW c \in Caller, Enter(c), scenario' = scenario,
         scenario = "any" => clock + MaxWait <= Horizon
  PROVE  Loop'
<1>1. caller' = caller
  BY DEF Enter, vars
<1>2. LoopTypes'
  BY <1>1 DEF Loop, LoopTypes, Enter, Sample
<1>3. Deadlines'
  BY <1>1 DEF Loop, LoopTypes, Deadlines, Enter, Sample
<1>4. Samplings'
  BY DEF Loop, LoopTypes, Samplings, Enter, Sample
<1>5. Timers'
  BY DEF Loop, LoopTypes, Timers, Enter, Sample
<1>6. QED
  BY <1>2, <1>3, <1>4, <1>5 DEF Loop

\* Time passes for the clock and for the timers alike.
LEMMA TickKeepsLoop ==
  ASSUME Loop, Tick
  PROVE  Loop'
<1>1. /\ caller' = caller /\ UNCHANGED <<scenario, step, began, sample>>
      /\ clock' = IF clock < Horizon THEN clock + 1 ELSE clock
      /\ timer' = [c \in Caller |-> IF timer[c] \in 1..MaxWait THEN timer[c] - 1 ELSE timer[c]]
      /\ MaxWait \in Nat /\ NoTimer = MaxWait + 1 /\ Horizon \in Nat
  BY BreakerAssumption, Horizons DEF Tick, vars, NoTimer
<1>2. clock' \in Nat /\ clock' <= Horizon /\ clock <= clock'
  BY <1>1 DEF Loop, LoopTypes
<1>3. \A c \in Caller : /\ timer'[c] \in 0..NoTimer /\ timer[c] \in 0..NoTimer
                        /\ timer[c] = NoTimer <=> timer'[c] = NoTimer
                        /\ timer'[c] = timer[c] \/ (timer'[c] = timer[c] - 1 /\ timer[c] > 0)
  BY <1>1 DEF Loop, LoopTypes
<1>4. LoopTypes'
  BY <1>1, <1>2, <1>3 DEF Loop, LoopTypes
<1>5. Deadlines'
  BY <1>1 DEF Loop, Deadlines
<1>6. Samplings'
  BY <1>1, <1>2 DEF Loop, LoopTypes, Samplings
<1>7. Timers'
  <2> SUFFICES ASSUME NEW c \in Caller
               PROVE  /\ step[c] = "out" => timer'[c] = NoTimer
                      /\ scenario = "any" /\ step[c] # "out" =>
                           /\ began[c] + MaxWait <= Horizon
                           /\ timer'[c] # NoTimer => \/ clock' + timer'[c] >= began[c] + MaxWait
                                                     \/ clock' = Horizon
    BY <1>1 DEF Timers, Horizon, NoTimer
  <2>1. CASE step[c] = "out"
    BY <1>3, <2>1 DEF Loop, Timers
  <2>2. CASE step[c] # "out" /\ scenario = "any" /\ timer'[c] # NoTimer
    <3>1. /\ began[c] + MaxWait <= Horizon
          /\ clock + timer[c] >= began[c] + MaxWait \/ clock = Horizon
      BY <1>3, <2>2 DEF Loop, Timers
    <3>2. clock \in Nat /\ clock <= Horizon /\ began[c] \in Nat
      BY DEF Loop, LoopTypes
    <3>3. clock' = Horizon \/ clock' = clock + 1
      BY <1>1, <3>2
    <3>4. timer[c] \in Int /\ timer'[c] \in Int /\ timer'[c] >= timer[c] - 1
      BY <1>1, <1>3
    <3>5. clock' + timer'[c] >= began[c] + MaxWait \/ clock' = Horizon
      BY <1>1, <3>1, <3>2, <3>3, <3>4
    <3>6. QED
      BY <2>2, <3>1, <3>5
  <2>3. CASE step[c] # "out" /\ scenario = "any" /\ timer'[c] = NoTimer
    BY <2>3 DEF Loop, Timers
  <2>4. QED
    BY <2>1, <2>2, <2>3
<1>8. QED
  BY <1>4, <1>5, <1>6, <1>7 DEF Loop

\* The turns that do not return: park, create the timer, wake.
LEMMA TurnKeepsLoop ==
  ASSUME Loop, NEW c \in Caller, TurnWaits(c) \/ CreateTimer(c) \/ Wakes(c),
         scenario' = scenario
  PROVE  Loop'
<1>0. MaxWait \in Nat /\ NoTimer = MaxWait + 1
  BY BreakerAssumption DEF NoTimer
<1>1. CASE TurnWaits(c)
  <2>1. /\ caller' \in CallerType /\ caller'[c].pc # "idle"
        /\ caller'[c].deadline = IF caller[c].pc = "idle" THEN sample[c] + MaxWait
                                                          ELSE caller[c].deadline
        /\ \A d \in Caller : d # c => Kept(d)
    BY <1>1, TurnParks DEF Loop, LoopTypes, TurnWaits
  <2>2. LoopTypes'
    BY <1>1, <2>1 DEF Loop, LoopTypes, TurnWaits, ZeroTime
  <2>3. caller'[c].deadline = began[c] + MaxWait
    BY <1>1, <2>1 DEF Loop, Deadlines, TurnWaits
  <2>4. Deadlines'
    BY <1>1, <2>1, <2>3 DEF Loop, LoopTypes, Deadlines, TurnWaits, Kept
  <2>5. Samplings' /\ Timers'
    BY <1>1 DEF Loop, LoopTypes, Samplings, Timers, TurnWaits
  <2>6. QED
    BY <2>2, <2>4, <2>5 DEF Loop
<1>2. CASE CreateTimer(c)
  <2>1. caller' = caller /\ UNCHANGED <<clock, began, sample>> /\ step[c] = "timer"
        /\ timer' = [timer EXCEPT ![c] = MaxWait] /\ step' = [step EXCEPT ![c] = "select"]
    BY <1>2 DEF CreateTimer, vars
  <2>2. LoopTypes'
    BY <1>0, <2>1 DEF Loop, LoopTypes
  <2>3. Deadlines'
    BY <2>1 DEF Loop, LoopTypes, Deadlines
  <2>4. Samplings'
    BY <2>1 DEF Loop, LoopTypes, Samplings
  <2>5. Timers'
    <3>1. began[c] <= clock /\ clock \in Nat /\ began[c] \in Nat
      BY <2>1 DEF Loop, LoopTypes, Samplings
    <3>2. clock + MaxWait >= began[c] + MaxWait
      BY <1>0, <3>1
    <3>3. QED
      BY <1>0, <2>1, <3>2 DEF Loop, LoopTypes, Timers, Horizon
  <2>6. QED
    BY <2>2, <2>3, <2>4, <2>5 DEF Loop
<1>3. CASE Wakes(c)
  <2>1. caller' = caller /\ UNCHANGED <<clock, began, timer>> /\ step[c] = "select"
        /\ caller[c].pc # "idle"
        /\ sample' = [sample EXCEPT ![c] = clock] /\ step' = [step EXCEPT ![c] = "lock"]
    BY <1>3 DEF Wakes, Sample, vars
  <2>2. LoopTypes'
    BY <2>1 DEF Loop, LoopTypes
  <2>3. Deadlines'
    BY <2>1 DEF Loop, LoopTypes, Deadlines
  <2>4. Samplings' /\ Timers'
    BY <2>1 DEF Loop, LoopTypes, Samplings, Timers
  <2>5. QED
    BY <2>2, <2>3, <2>4 DEF Loop
<1>4. QED
  BY <1>1, <1>2, <1>3

\* Every step keeps it.
LEMMA LoopStep == Loop /\ [AdmissionNext]_admissionVars => Loop'
<1> SUFFICES ASSUME Loop, [AdmissionNext]_admissionVars PROVE Loop'
  OBVIOUS
<1>c. caller \in CallerType
  BY DEF Loop, LoopTypes
<1>1. CASE UNCHANGED admissionVars
  <2>1. UNCHANGED <<caller, scenario, clock, step, began, sample, timer>>
    BY <1>1 DEF admissionVars, vars
  <2>2. QED
    BY <2>1, <1>c, OthersKeepLoop DEF Kept
<1>2. CASE Tick
  BY <1>2, TickKeepsLoop
<1>3. ASSUME NEW c \in Caller, ContextEnds(c), scenario' = scenario PROVE Loop'
  BY <1>3, <1>c, TurnEnds, LeaveKeepsLoop DEF ContextEnds
<1>4. ASSUME NEW c \in Caller, Enter(c), scenario' = scenario,
             scenario = "any" => clock + MaxWait <= Horizon
      PROVE  Loop'
  BY <1>4, EnterKeepsLoop
<1>5. ASSUME scenario' = scenario,
             \/ \E p \in Permit, outcome \in Class : Finish(p, outcome)
             \/ \E p \in Permit : Abandon(p)
             \/ AdministerWaiting
      PROVE  Loop'
  <2>1. UNCHANGED <<clock, step, began, sample, timer>>
    BY <1>5 DEF Finish, Abandon, AdministerWaiting
  <2>2. QED
    BY <1>5, <1>c, <2>1, OthersWakeOnly, OthersKeepLoop
<1>6. ASSUME NEW c \in Caller, CallerStep(c) PROVE Loop'
  <2>1. CASE TurnAdmits(c) \/ TurnRejects(c) \/ TurnTimesOut(c) \/ TimerFires(c)
    <3>1. Leave(c) /\ scenario' = scenario
      BY <1>6, <2>1 DEF CallerStep, TurnAdmits, TurnRejects, TurnTimesOut, TimerFires
    <3>2. QED
      BY <2>1, <3>1, <1>c, TurnEnds, LeaveKeepsLoop
  <2>2. CASE TurnWaits(c) \/ CreateTimer(c) \/ Wakes(c)
    BY <1>6, <2>2, TurnKeepsLoop DEF CallerStep
  <2>3. QED
    BY <1>6, <2>1, <2>2 DEF CallerStep
<1>7. CASE Anything
  BY <1>7, <1>3, <1>4, <1>5, AdmissionAssumption DEF Anything
<1>8. ASSUME NEW c \in Caller, ComesBack(c) PROVE Loop'
  BY <1>8, <1>4 DEF ComesBack
<1>9. ASSUME NEW p \in Permit, Works(p) PROVE Loop'
  <2>1. Success \in Class /\ Failure \in Class
    BY DEF Class
  <2>2. QED
    BY <1>9, <1>5, <2>1 DEF Works
<1>10. QED
  BY <1>1, <1>2, <1>6, <1>7, <1>8, <1>9 DEF AdmissionNext

\* It holds at every instant.
LEMMA LoopAlways == AdmissionSpec => []Loop
BY InitLoop, LoopStep, PTL DEF AdmissionSpec

(***************************************************************************)
(* ErrHalfOpenWaitTimeout is never early: a retry that reports it sampled  *)
(* the clock at the deadline, and the timer was created no earlier than    *)
(* the call began.                                                         *)
(***************************************************************************)
THEOREM TimeoutsNotEarly == AdmissionSpec => NoEarlyTimeout
<1> DEFINE Early == \A c \in Caller :
               scenario = "any" /\ (TurnTimesOut(c) \/ TimerFires(c)) => clock >= began[c] + MaxWait
<1>1. Loop => Early
  <2> SUFFICES ASSUME Loop, NEW c \in Caller, scenario = "any", TurnTimesOut(c) \/ TimerFires(c)
               PROVE  clock >= began[c] + MaxWait
    OBVIOUS
  <2>1. clock \in Nat /\ began[c] \in Nat /\ sample[c] \in Nat /\ MaxWait \in Nat
    BY BreakerAssumption DEF Loop, LoopTypes
  <2>2. CASE TurnTimesOut(c)
    BY <2>1, <2>2 DEF TurnTimesOut, Loop, Deadlines, Samplings
  <2>3. CASE TimerFires(c)
    <3>1. 0 # NoTimer
      BY <2>1 DEF NoTimer
    <3>2. /\ began[c] + MaxWait <= Horizon
          /\ clock + 0 >= began[c] + MaxWait \/ clock = Horizon
      BY <2>3, <3>1 DEF TimerFires, Loop, Timers
    <3>3. QED
      BY <2>1, <3>2
  <2>4. QED
    BY <2>2, <2>3
<1>2. QED
  BY <1>1, LoopAlways, PTL DEF NoEarlyTimeout

(***************************************************************************)
(* MaxWait is absolute: a turn that sampled the clock at or after the      *)
(* call's first sample plus MaxWait admits nobody, however often the       *)
(* caller was woken and parked again.                                      *)
(***************************************************************************)
THEOREM WaitIsAbsolute == AdmissionSpec => AbsoluteDeadline
<1> DEFINE InTime == \A c \in Caller : caller[c].pc # "idle" /\ TurnAdmits(c) =>
                       sample[c] < began[c] + MaxWait
<1>1. Loop => InTime
  BY DEF Loop, Deadlines, TurnAdmits, AcquireDisabled, AcquireClosed, AcquireFirstProbe,
         AcquireProbe, Attempt
<1>2. QED
  BY <1>1, LoopAlways, PTL DEF AbsoluteDeadline

=============================================================================
