---------------------------- MODULE MCBreakertest ---------------------------
(***************************************************************************)
(* The two stateful parts of the test support in one run.  They share      *)
(* nothing; a behaviour is of one of them, and the other stays as it was   *)
(* made.                                                                   *)
(***************************************************************************)
EXTENDS ManualClock, Recorder

VARIABLE part

BreakertestInit == part \in {"clock", "recorder"} /\ Init /\ RecorderInit

ClockPart == part = "clock" /\ Next /\ UNCHANGED <<part, recorderVars>>
RecorderPart == part = "recorder" /\ RecorderNext /\ UNCHANGED <<part, vars>>

BreakertestSpec ==
  BreakertestInit /\ [][ClockPart \/ RecorderPart]_<<part, vars, recorderVars>>

=============================================================================
