----------------------------- MODULE Admission -----------------------------
(***************************************************************************)
(* The loop of acquire (breaker.go) over a clock that only advances, one   *)
(* step per point where another goroutine can come in between: the clock   *)
(* is read before the lock is taken, the turn under the lock works with    *)
(* that sample, the timer is created after the lock is given up, and then  *)
(* select waits for the timer, the captured channel or the context.        *)
(*                                                                         *)
(* Breaker has these critical sections with any instant at all; here the   *)
(* instants are those the loop really has, so that what a wait guarantees  *)
(* can be stated.  The Clock and its Timer are external: Now returns the   *)
(* current instant, and a timer of d fires d ticks after its creation.     *)
(***************************************************************************)
EXTENDS Breaker

CONSTANTS
  Outcomes,   \* outcomes the other goroutines report
  Modes       \* modes they may set

ASSUME AdmissionAssumption ==
  /\ Outcomes \subseteq Class /\ Modes \subseteq Mode
  /\ Permit \subseteq Nat
  /\ \E first, last \in Time : \A t \in Time : first <= t /\ t <= last
  /\ HalfOpenWait => MaxWait > 0

VARIABLES
  scenario, \* "any", or "recovery" (below)
  clock,
  step,     \* where a goroutine is in the loop; "out": not in acquire
  began,    \* the sample of a goroutine's first turn
  sample,   \* the sample of its present turn
  timer     \* ticks until its timer fires, or NoTimer

admissionVars == <<vars, scenario, clock, step, began, sample, timer>>

NoTimer == MaxWait + 1
Horizon == Max(Time)

AdmissionInit ==
  /\ Init
  /\ scenario \in {"any", "recovery"}
  /\ clock = Min(Time)
  /\ step = [c \in Caller |-> "out"]
  /\ began = [c \in Caller |-> ZeroTime]
  /\ sample = [c \in Caller |-> ZeroTime]
  /\ timer = [c \in Caller |-> NoTimer]

-----------------------------------------------------------------------------
(* The clock *)

\* Time stands still at the horizon; timers still run out.  Where the
\* dependency works again, a probe's operation takes less than a tick.
Tick ==
  /\ scenario = "recovery" => probe.permits = {}
  /\ \/ clock < Horizon
     \/ \E c \in Caller : timer[c] \in 1..MaxWait
  /\ clock' = IF clock < Horizon THEN clock + 1 ELSE clock
  /\ timer' = [c \in Caller |-> IF timer[c] \in 1..MaxWait THEN timer[c] - 1 ELSE timer[c]]
  /\ UNCHANGED <<vars, scenario, step, began, sample>>

-----------------------------------------------------------------------------
(* acquire *)

\* The clock is read for a turn.
Sample(c) ==
  /\ sample' = [sample EXCEPT ![c] = clock]
  /\ step' = [step EXCEPT ![c] = "lock"]

Enter(c) ==
  /\ step[c] = "out"
  /\ Sample(c)
  /\ began' = [began EXCEPT ![c] = clock]
  /\ UNCHANGED <<vars, clock, timer>>

\* acquire returns, and its deferred function stops the timer.
Leave(c) ==
  /\ step' = [step EXCEPT ![c] = "out"]
  /\ began' = [began EXCEPT ![c] = ZeroTime]
  /\ sample' = [sample EXCEPT ![c] = ZeroTime]
  /\ timer' = [timer EXCEPT ![c] = NoTimer]
  /\ UNCHANGED clock

Unused == {p \in Permit : permit[p].status = "none"}

\* The turn ends in a permit; which unused identity it gets does not matter.
TurnAdmits(c) ==
  /\ step[c] = "lock" /\ Unused # {}
  /\ LET p == Min(Unused)
     IN \/ AcquireDisabled(c, p, sample[c], FALSE)
        \/ AcquireClosed(c, p, sample[c], FALSE)
        \/ AcquireFirstProbe(c, p, sample[c], FALSE)
        \/ AcquireProbe(c, p, sample[c], FALSE)
  /\ Leave(c)

TurnRejects(c) ==
  /\ step[c] = "lock"
  /\ RejectOutright(c, sample[c])
  /\ Leave(c)

\* No capacity: the first such turn has no timer yet.
TurnWaits(c) ==
  /\ step[c] = "lock"
  /\ Wait(c, sample[c])
  /\ step' = [step EXCEPT ![c] = IF timer[c] = NoTimer THEN "timer" ELSE "select"]
  /\ sample' = [sample EXCEPT ![c] = ZeroTime]
  /\ UNCHANGED <<clock, began, timer>>

\* A bug that does not ask whether there is a deadline yet.
TurnTimesOutUnset(c) ==
  /\ step[c] = "lock"
  /\ sample[c] >= caller[c].deadline
  /\ RejectLocked
  /\ Return(c, caller)
  /\ Leave(c)
  /\ UNCHANGED <<health, permit>>

\* A later turn whose sample has reached the wait deadline.
TurnTimesOut(c) ==
  /\ step[c] = "lock"
  /\ caller[c].pc = "woken" /\ sample[c] >= caller[c].deadline
  /\ WaitTimeout(c)
  /\ Leave(c)

\* A bug that leaves the channel variable of select nil.
CreateTimerUnset(c) ==
  /\ step[c] = "timer"
  /\ step' = [step EXCEPT ![c] = "select"]
  /\ UNCHANGED <<vars, clock, began, sample, timer>>

CreateTimer(c) ==
  /\ step[c] = "timer"
  /\ timer' = [timer EXCEPT ![c] = MaxWait]
  /\ step' = [step EXCEPT ![c] = "select"]
  /\ UNCHANGED <<vars, clock, began, sample>>

\* select: the timer's channel.
TimerFires(c) ==
  /\ step[c] = "select" /\ timer[c] = 0
  /\ WaitTimeout(c)
  /\ Leave(c)

\* select: the captured channel, and the loop's next clock read.
Wakes(c) ==
  /\ step[c] = "select" /\ caller[c].pc = "woken"
  /\ Sample(c)
  /\ UNCHANGED <<vars, clock, began, timer>>

\* The context ended: seen under the lock or by select.
ContextEnds(c) ==
  /\ step[c] \in {"lock", "select"}
  /\ \/ WaitCanceled(c)
     \/ caller[c].pc = "idle" /\ UNCHANGED vars
  /\ Leave(c)

-----------------------------------------------------------------------------
(* Everybody else.  A terminal call samples the clock after admission.     *)

Samples(p) == {now \in Time : permit[p].deadline - PermitTTL <= now /\ now <= clock}

Finish(p, outcome) ==
  /\ \E now \in Samples(p) : Complete(p, outcome, now)
  /\ UNCHANGED <<clock, step, began, sample, timer>>

Abandon(p) ==
  /\ \E now \in Samples(p) : Cancel(p, now) \/ ExpirePermit(p, now)
  /\ UNCHANGED <<clock, step, began, sample, timer>>

\* Only where it can matter: while somebody waits.
AdministerWaiting ==
  /\ \E c \in Caller : caller[c].pc # "idle"
  /\ \/ Snapshot(clock) \/ Reset(clock)
     \/ \E m \in Modes : SetMode(m, clock)
  /\ UNCHANGED <<clock, step, began, sample, timer>>

-----------------------------------------------------------------------------
(***************************************************************************)
(* The bounds on permits, rejections and generations leave one of each for *)
(* every goroutine in acquire, and its wait ends before the horizon; the   *)
(* others keep to that, so that no goroutine is stopped by a bound.        *)
(***************************************************************************)
Inside == {c \in Caller : step[c] # "out"}

Room ==
  LET n == Cardinality(Inside)
  IN /\ n <= Cardinality(Unused)
     /\ totals["rejected"] + n <= MaxRejected
     /\ generation + n <= MaxGeneration

CallerStep(c) ==
  /\ \/ TurnAdmits(c) \/ TurnRejects(c) \/ TurnWaits(c) \/ TurnTimesOut(c)
     \/ CreateTimer(c) \/ TimerFires(c) \/ Wakes(c)
  /\ UNCHANGED scenario

\* Anybody may do anything.
Anything ==
  /\ scenario = "any"
  /\ \/ \E c \in Caller : ContextEnds(c) \/ (Enter(c) /\ clock + MaxWait <= Horizon /\ Room')
     \/ \E p \in Permit : (Abandon(p) \/ \E outcome \in Outcomes : Finish(p, outcome)) /\ Room'
     \/ AdministerWaiting /\ Room'
  /\ UNCHANGED scenario

(***************************************************************************)
(* A dependency that failed and works again: the one opening is due to     *)
(* calls of the first generation, probes succeed at once, and callers come *)
(* back when RejectionError.RetryAt says so, until it has closed again.    *)
(***************************************************************************)
ComesBack(c) ==
  /\ scenario = "recovery" /\ (generation = 1 \/ state # StateClosed)
  /\ Enter(c)
  /\ state = StateOpen => clock >= schedule.nextProbeAt
  /\ Cardinality(Unused) > Cardinality(Inside) + (IF generation = 1 THEN HalfOpen.MaxProbes ELSE 0)
  /\ UNCHANGED scenario

Works(p) ==
  /\ scenario = "recovery"
  /\ \/ permit[p].state = StateHalfOpen /\ Finish(p, Success)
     \/ permit[p].state = StateClosed /\ generation > 1 /\ Finish(p, Success)
     \/ /\ permit[p].state = StateClosed /\ generation = 1
        /\ clock + OpenDuration.Maximum <= Horizon
        /\ Finish(p, Failure)
  /\ UNCHANGED scenario

AdmissionNext ==
  \/ Tick \/ Anything
  \/ \E c \in Caller : CallerStep(c) \/ ComesBack(c)
  \/ \E p \in Permit : Works(p)

(***************************************************************************)
(* Time passes, and a goroutine that can go on does: sync.Mutex starves    *)
(* nobody, and every step of the loop but the select is always possible.   *)
(* Nobody has to call, to complete or to cancel, but in the recovery       *)
(* scenario, which is about callers that come back and operations that     *)
(* return.                                                                 *)
(***************************************************************************)
Fairness ==
  /\ WF_admissionVars(Tick)
  /\ \A c \in Caller : WF_admissionVars(CallerStep(c)) /\ WF_admissionVars(ComesBack(c))
  /\ \A p \in Permit : WF_admissionVars(Works(p))

AdmissionSpec == AdmissionInit /\ [][AdmissionNext]_admissionVars /\ Fairness

-----------------------------------------------------------------------------
(* Properties *)

(***************************************************************************)
(* acquire returns, whatever the others do and also when nobody ends the   *)
(* probe it waits for: through retries, broadcasts that lead to no         *)
(* capacity, mode changes and resets.                                      *)
(***************************************************************************)
WaitEnds == \A c \in Caller : step[c] # "out" ~> step[c] = "out"

(***************************************************************************)
(* ErrHalfOpenWaitTimeout is returned no earlier than MaxWait after the    *)
(* call began, by the timer and by a late retry alike.  (In the recovery   *)
(* scenario calls may outlast the horizon, where the clock stands still.)  *)
(***************************************************************************)
NoEarlyTimeout ==
  [][\A c \in Caller :
       scenario = "any" /\ (TurnTimesOut(c) \/ TimerFires(c)) => clock >= began[c] + MaxWait
    ]_admissionVars

(***************************************************************************)
(* MaxWait is absolute: no turn that read the clock at or after the call's *)
(* first sample plus MaxWait is admitted, however often it was woken and   *)
(* parked again in between.                                                *)
(***************************************************************************)
AbsoluteDeadline ==
  [][\A c \in Caller : caller[c].pc # "idle" /\ TurnAdmits(c) =>
       sample[c] < began[c] + MaxWait]_admissionVars

(***************************************************************************)
(* Once the dependency works again, a breaker that opened closes: a caller *)
(* that comes back is admitted as a probe or waits for one, and neither a  *)
(* wakeup nor a sample is lost on the way to enough successes.             *)
(***************************************************************************)
Recovery == scenario = "recovery" /\ state = StateOpen ~> state = StateClosed

=============================================================================
