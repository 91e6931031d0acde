------------------------------ MODULE Execute ------------------------------
(***************************************************************************)
(* Execute (execute.go) as a process over the breaker: a goroutine admits  *)
(* itself, reads the clock, runs the operation, reads the clock again,     *)
(* classifies and ends its permit, while other calls, mode changes, resets *)
(* and snapshots go on.  The operation, the classifier, the clock and the  *)
(* timer of a wait may panic wherever a call that was admitted uses them.  *)
(*                                                                         *)
(* What a goroutine does on its own between two critical sections is part  *)
(* of the step that ends in the next one: a clock sample may be any        *)
(* instant, so a sample that waited for the lock is included, and so is    *)
(* the start or admission time that stands in for a sample that panicked.  *)
(* A rejected call returns and invokes nothing, and so does one whose wait *)
(* for a probe ends without it; that waits end is the subject of Admission.*)
(***************************************************************************)
EXTENDS Breaker

CONSTANT SlowCallDuration

ASSUME ExecuteAssumption == SlowCallDuration \in Nat \ {0}

VARIABLES
  call,     \* goroutines inside Execute, after admission
  ending    \* history: how the call that held a permit ended: with the outcome
            \* its classifier chose, "panic" of the operation, the classifier or
            \* the second clock read, "invalid" outcome, "unstarted" because the
            \* first clock read panicked, or "stranded" because acquire itself
            \* panicked after the admission

executeVars == <<vars, call, ending>>

NoCall == [pc |-> "idle", permit |-> "none", started |-> ZeroTime]

ExecuteInit ==
  /\ Init
  /\ call = [c \in Caller |-> NoCall]
  /\ ending = [p \in Permit |-> "none"]

-----------------------------------------------------------------------------
Ends(c, how) ==
  /\ call' = [call EXCEPT ![c] = NoCall]
  /\ ending' = [ending EXCEPT ![call[c].permit] = how]

\* elapsed: a clock that went backward means no time passed.
Elapsed(finished, started) == IF finished > started THEN finished - started ELSE 0

\* completeAt on the call's own permit, which only lazy expiry may have ended.
CompleteAt(c, outcome, now) ==
  LET p == call[c].permit
      slow == Elapsed(now, call[c].started) >= SlowCallDuration
  IN \/ CompleteExpiredExecution(p, outcome)
     \/ CompleteHealthless(p, outcome, now)
     \/ CompleteClosed(p, outcome, slow, now)
     \/ CompleteProbe(p, outcome, now)
     \/ CompleteProbeReopens(p, outcome, now)
     \/ CompleteProbeRecovers(p, outcome, now)

CancelAt(c, now) ==
  LET p == call[c].permit
  IN \/ Cancel(p, now)
     \/ ExpirePermit(p, now)
     \/ permit[p].status = "expired" /\ UNCHANGED vars

\* The turn of acquire's loop that admits the call.
Acquires(c, p, now) ==
  /\ call[c].pc = "idle"
  /\ \/ AcquireDisabled(c, p, now, TRUE)
     \/ AcquireClosed(c, p, now, TRUE)
     \/ AcquireFirstProbe(c, p, now, TRUE)
     \/ AcquireProbe(c, p, now, TRUE)

Admitted(c, p, now) ==
  /\ Acquires(c, p, now)
  /\ call' = [call EXCEPT ![c] = [pc |-> "admitted", permit |-> p, started |-> ZeroTime]]
  /\ UNCHANGED ending

\* A call that waited stops its timer in a deferred function of acquire.  When
\* that panics Execute never sees the permit, and nobody ends it.
StopPanics(c, p, now) ==
  /\ caller[c].pc = "woken"
  /\ Acquires(c, p, now)
  /\ ending' = [ending EXCEPT ![p] = "stranded"]
  /\ UNCHANGED call

\* acquire parks, or leaves its loop at the deadline or with its context; a
\* panic of the clock or the timer leaves it as an ended context does.
Waits(c, now) ==
  /\ call[c].pc = "idle"
  /\ Wait(c, now)
  /\ UNCHANGED <<call, ending>>

GivesUp(c) ==
  /\ call[c].pc = "idle"
  /\ WaitTimeout(c) \/ WaitCanceled(c)
  /\ UNCHANGED <<call, ending>>

Rejected(c, now) ==
  /\ call[c].pc = "idle"
  /\ RejectOutright(c, now) \/ RejectExhausted(c, now)
  /\ UNCHANGED <<call, ending>>

Starts(c, now) ==
  /\ call[c].pc = "admitted"
  /\ call' = [call EXCEPT ![c].pc = "running", ![c].started = now]
  /\ UNCHANGED <<vars, ending>>

\* A bug that lets the first clock panic go by without giving the permit up.
StartPanicsHolding(c) ==
  /\ call[c].pc = "admitted"
  /\ Ends(c, "unstarted")
  /\ UNCHANGED vars

\* The first clock read panics: the permit is cancelled at its admission time.
StartPanics(c) ==
  /\ call[c].pc = "admitted"
  /\ CancelAt(c, permit[call[c].permit].deadline - PermitTTL)
  /\ Ends(c, "unstarted")

\* The operation returned, the clock was read and the classifier answered.
Classified(c, outcome, now) ==
  /\ call[c].pc = "running"
  /\ CompleteAt(c, outcome, now)
  /\ Ends(c, outcome)

\* completeAt refuses the outcome, and the permit is cancelled instead.
ClassifiedInvalid(c, now) ==
  /\ call[c].pc = "running"
  /\ CancelAt(c, now)
  /\ Ends(c, "invalid")

\* A bug that treats a panic like work that was given up.
PanicsCanceled(c, now) ==
  /\ call[c].pc = "running"
  /\ CancelAt(c, now)
  /\ Ends(c, "panic")

\* The deferred function: a failure is recorded, and the panic goes on.
Panics(c, now) ==
  /\ call[c].pc = "running"
  /\ CompleteAt(c, Failure, now)
  /\ Ends(c, "panic")

Administer(now) ==
  /\ Snapshot(now) \/ Reset(now) \/ \E m \in Mode : SetMode(m, now)
  /\ UNCHANGED <<call, ending>>

ExecuteNext ==
  \/ \E c \in Caller, now \in Time :
       \/ \E p \in Permit : Admitted(c, p, now) \/ StopPanics(c, p, now)
       \/ Waits(c, now) \/ Rejected(c, now) \/ Starts(c, now)
       \/ \E outcome \in Class : Classified(c, outcome, now)
       \/ ClassifiedInvalid(c, now) \/ Panics(c, now)
  \/ \E c \in Caller : GivesUp(c) \/ StartPanics(c)
  \/ \E now \in Time : Administer(now)

ExecuteSpec == ExecuteInit /\ [][ExecuteNext]_executeVars

-----------------------------------------------------------------------------
(* Properties *)

\* Some call is still running with permit p.
Held(p) == \E c \in Caller : call[c].pc # "idle" /\ call[c].permit = p

(***************************************************************************)
(* A permit is active only while its call runs, and a call that runs finds *)
(* its permit active or lazily expired, never ended by anything else.  So  *)
(* completeAt never meets a permit that was already ended, and whether the *)
(* operation, the classifier or a clock read panics ("Clock panics after   *)
(* admission cannot strand a permit", docs/api.md), the permit is over     *)
(* when the call is.  The one exception, under WaitForProbe only, is a     *)
(* call whose timer panicked in the deferred Stop of acquire: its permit   *)
(* is left to lazy expiry.                                                 *)
(***************************************************************************)
CallOwnsPermit ==
  /\ \A p \in Permit : permit[p].status = "active" =>
       Held(p) \/ (HalfOpenWait /\ ending[p] = "stranded")
  /\ \A c \in Caller : call[c].pc # "idle" =>
       permit[call[c].permit].status \in {"active", "expired"}

EndedWith(hows) == {p \in Permit : ending[p] \in hows}

(***************************************************************************)
(* Every call that ended is counted under the outcome its ending stands    *)
(* for, once, also when its permit had expired or its generation passed    *)
(* while it ran: a panic is a failure, and a call whose classification     *)
(* does not exist, or whose operation never began, counts nothing.         *)
(***************************************************************************)
EndingsCounted ==
  /\ totals[Success] = Cardinality(EndedWith({Success}))
  /\ totals[Failure] = Cardinality(EndedWith({Failure, "panic"}))
  /\ totals[Ignored] = Cardinality(EndedWith({Ignored}))

(***************************************************************************)
(* docs/assurance.md lists "reenter or panic from `Clock`, `Timer`, or     *)
(* `Random`" with the impact "stranded half-open permit" as fixed: every   *)
(* outstanding probe belongs to a call that is still running.              *)
(***************************************************************************)
ProbesHeld == \A p \in probe.permits : Held(p)

(***************************************************************************)
(* docs/design.md: "every terminal `Execute` increments exactly one        *)
(* lifetime outcome total", here of the calls whose operation was invoked. *)
(***************************************************************************)
EveryCallCounted ==
  totals[Success] + totals[Failure] + totals[Ignored] =
    Cardinality(EndedWith(Class \cup {"panic", "invalid"}))

=============================================================================
