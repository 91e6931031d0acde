------------------------------ MODULE MCConfig ------------------------------
(***************************************************************************)
(* New, and the window it builds, in one run.  A behaviour is of a caller  *)
(* that writes a Config, or of a count or a time window in use, and the    *)
(* other machines do not move.                                             *)
(*                                                                         *)
(* The time window sees ten instants around the epoch with buckets of two: *)
(* five bucket ids (-2 to 2) over a ring of two slots, so that three ids   *)
(* share a slot, gaps of more than a full window occur and floor division  *)
(* matters.                                                                *)
(***************************************************************************)
EXTENDS CountWindowSpec, TimeWindowSpec, Config

VARIABLE part

MCInstants == -4..5

PartsInit == part \in {"config", "count", "time"} /\ Init /\ TimeInit /\ ConfigInit

CountNext == part = "count" /\ Next /\ UNCHANGED <<part, timeVars, configVars>>
TimesNext == part = "time" /\ TimeNext /\ UNCHANGED <<part, w, configVars>>
NewNext == part = "config" /\ ConfigNext /\ UNCHANGED <<part, w, timeVars>>

\* The fairness of ConfigSpec.
PartsSpec ==
  /\ PartsInit
  /\ [][CountNext \/ TimesNext \/ NewNext]_<<part, w, timeVars, configVars>>
  /\ WF_configVars(SlowFailure) /\ WF_configVars(ProbeSucceeds)

=============================================================================
