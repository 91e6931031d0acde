--------------------------- MODULE SlidingWindow ---------------------------
(***************************************************************************)
(* What a count window promises, with no ring and no running totals: the   *)
(* last Size classified records in order, and how many ignored completions *)
(* there have been since the window was created.                           *)
(***************************************************************************)
EXTENDS Window, Sequences

CONSTANT Size

VARIABLES recent,    \* the retained classified records, oldest first
          ignored    \* ignored completions so far

Init == recent = <<>> /\ ignored = 0

Ignore == ignored' = ignored + 1 /\ UNCHANGED recent

Classify(r) ==
  /\ recent' = Append(IF Len(recent) = Size THEN Tail(recent) ELSE recent, r)
  /\ UNCHANGED ignored

Next == Ignore \/ \E r \in Recordable : r.Class # Ignored /\ Classify(r)

Spec == Init /\ [][Next]_<<recent, ignored>>

=============================================================================
