------------------------------ MODULE Circuit ------------------------------
(***************************************************************************)
(* What a circuit breaker promises, without clocks, windows, permits'      *)
(* records or waiting callers: three states and an administrative mode,    *)
(* and while half-open a sample of at most MaxProbes probes, outstanding   *)
(* or classified.  Breaker is shown to implement it.                       *)
(***************************************************************************)
EXTENDS Naturals, FiniteSets

CONSTANTS Probe, Mode, MaxProbes

VARIABLES state, mode, outstanding, classified

vars == <<state, mode, outstanding, classified>>

Init == state = "closed" /\ mode = "normal" /\ outstanding = {} /\ classified = 0

\* The policy moves the state, and only while nobody overrides it.
Become(s, probes) ==
  /\ mode = "normal"
  /\ state' = s /\ outstanding' = probes /\ classified' = 0
  /\ UNCHANGED mode

Trip == state = "closed" /\ Become("open", {})

\* Half-open begins with the admission of its first probe.
FirstProbe(p) == state = "open" /\ Become("half_open", {p})

\* One more probe, after some overdue ones have been given up.
NextProbe(p, overdue) ==
  /\ mode = "normal" /\ state = "half_open"
  /\ p \notin outstanding /\ overdue \subseteq outstanding
  /\ Cardinality(outstanding \ overdue) + classified < MaxProbes
  /\ outstanding' = (outstanding \ overdue) \cup {p}
  /\ UNCHANGED <<state, mode, classified>>

\* Probes end without a verdict: cancelled, overdue or ignored.
GiveUp(probes) ==
  /\ probes \subseteq outstanding
  /\ outstanding' = outstanding \ probes
  /\ UNCHANGED <<state, mode, classified>>

\* A probe's outcome joins the sample, which goes on.
Classify(p) ==
  /\ p \in outstanding
  /\ outstanding' = outstanding \ {p}
  /\ classified' = classified + 1 /\ classified' < MaxProbes
  /\ UNCHANGED <<state, mode>>

\* Or it decides the sample, and the other probes of it no longer matter.
Verdict(p, s) == p \in outstanding /\ s # "half_open" /\ Become(s, {})

\* An override, or its end: the state stays and a new sample begins.
Override(m) ==
  /\ m # mode /\ mode' = m
  /\ outstanding' = {} /\ classified' = 0
  /\ UNCHANGED state

Reset ==
  /\ state' = "closed" /\ mode' = "normal" /\ outstanding' = {} /\ classified' = 0

Next ==
  \/ Trip \/ Reset
  \/ \E p \in Probe :
       \/ FirstProbe(p) \/ Classify(p)
       \/ \E overdue \in SUBSET outstanding : NextProbe(p, overdue)
       \/ \E s \in {"open", "closed"} : Verdict(p, s)
  \/ \E probes \in SUBSET outstanding : GiveUp(probes)
  \/ \E m \in Mode : Override(m)

Spec == Init /\ [][Next]_vars

=============================================================================
