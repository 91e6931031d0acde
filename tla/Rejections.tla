----------------------------- MODULE Rejections -----------------------------
(***************************************************************************)
(* What a refused caller is told (errors.go, rejectLocked): the breaker of *)
(* Breaker, with the last RejectionError each caller still holds.  Callers *)
(* act on a rejection later, when other callers have moved the breaker on. *)
(* The properties say what the metadata is still good for by then.         *)
(***************************************************************************)
EXTENDS Breaker

VARIABLE rejection   \* Caller -> the last RejectionError it was returned

ErrOpen == "open"
ErrHalfOpenExhausted == "half_open_exhausted"
ErrHalfOpenWaitTimeout == "half_open_wait_timeout"
ErrForceOpen == "force_open"
ErrIsolated == "isolated"

NoRejection == [Cause |-> "none", State |-> StateClosed, Mode |-> ModeNormal,
                Generation |-> 0, RetryAt |-> ZeroTime]

RejectionError(cause) ==
  [Cause |-> cause, State |-> state, Mode |-> mode, Generation |-> generation,
   RetryAt |-> schedule.nextProbeAt]

Returns(c, cause) ==
  rejection' = [rejection EXCEPT ![c] = RejectionError(cause)]

\* The cause that tryAcquireLocked picks for an outright rejection.
OutrightCause ==
  CASE mode = ModeForceOpen -> ErrForceOpen
    [] mode = ModeIsolated -> ErrIsolated
    [] OTHER -> ErrOpen

\* A full quota refuses at once, or after the wait.
RejectForQuota(c, now) == RejectExhausted(c, now) \/ WaitTimeout(c)
QuotaCause == IF HalfOpenWait THEN ErrHalfOpenWaitTimeout ELSE ErrHalfOpenExhausted

-----------------------------------------------------------------------------
RInit == Init /\ rejection = [c \in Caller |-> NoRejection]

RNext ==
  \/ \E c \in Caller, now \in Time :
       \/ RejectOutright(c, now) /\ Returns(c, OutrightCause)
       \/ RejectForQuota(c, now) /\ Returns(c, QuotaCause)
  \/ Next /\ totals'["rejected"] = totals["rejected"] /\ UNCHANGED rejection

RSpec == RInit /\ [][RNext]_<<vars, rejection>>

-----------------------------------------------------------------------------
(* Properties *)

(***************************************************************************)
(* RetryAt is kept: a caller whose clock has reached the RetryAt of its    *)
(* last rejection is not refused again by the open state while the         *)
(* generation is the one that rejection named, in whichever order other    *)
(* callers' clock samples reached the lock in between.                     *)
(***************************************************************************)
RetryAtKept ==
  [][\A c \in Caller, now \in Time :
       /\ RejectOutright(c, now) /\ mode = ModeNormal
       /\ rejection[c].Generation = generation
       => now < rejection[c].RetryAt]_<<vars, rejection>>

(***************************************************************************)
(* Generation fences the metadata of a rejection: while the breaker is     *)
(* still in the generation that a rejection names, its state, mode and     *)
(* next probe time are still those the rejection reported, whatever other  *)
(* callers, probes and operators did since.                                *)
(***************************************************************************)
GenerationFences ==
  \A c \in Caller :
    rejection[c].Generation = generation =>
      /\ rejection[c].State = state /\ rejection[c].Mode = mode
      /\ rejection[c].RetryAt = schedule.nextProbeAt

=============================================================================
