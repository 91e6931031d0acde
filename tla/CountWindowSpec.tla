-------------------------- MODULE CountWindowSpec --------------------------
(***************************************************************************)
(* A count window in use: any sequence of completions.  The ring with its  *)
(* running aggregate is shown to implement SlidingWindow.                  *)
(***************************************************************************)
EXTENDS CountWindow, Sequences, FiniteSets

CONSTANTS WindowSize,   \* the ring's capacity
          MaxIgnored    \* bound on the unbounded ignored counter

ASSUME CountWindowAssumption == WindowSize \in Nat \ {0} /\ MaxIgnored \in Nat

VARIABLE w

Init == w = NewCount(WindowSize)

\* Count.Add with any record a completion can produce.
Add(r) ==
  /\ r.Class = Ignored => w.snapshot.Ignored < MaxIgnored
  /\ w' = CountAdd(w, WindowSize, r)

Next == \E r \in Recordable : Add(r)

Spec == Init /\ [][Next]_w

-----------------------------------------------------------------------------
\* The retained records, oldest first: length slots that end just before next.
Recent ==
  [i \in 1..w.length |->
     w.records[(w.next - w.length + i - 1) % WindowSize]]

Sliding == INSTANCE SlidingWindow
             WITH Size <- WindowSize, recent <- Recent, ignored <- w.snapshot.Ignored

(***************************************************************************)
(* Count.Add: what the ring retains is exactly the last WindowSize         *)
(* classified records in order; an ignored completion evicts nothing, and  *)
(* wrapping around the ring loses and repeats nothing.                     *)
(***************************************************************************)
ImplementsSlidingWindow == Sliding!Spec

\* A recount of a sequence of classified records.
Tally(records, ignored) ==
  LET Count(S) == Cardinality({i \in DOMAIN records : records[i] \in S})
  IN [Classified  |-> Len(records),
      Successes   |-> Count({r \in Record : r.Class = Success}),
      Failures    |-> Count({r \in Record : r.Class = Failure}),
      Ignored     |-> ignored,
      SlowSuccess |-> Count({r \in Record : r.Class = Success /\ r.Slow}),
      SlowFailure |-> Count({r \in Record : r.Class = Failure /\ r.Slow})]

(***************************************************************************)
(* Snapshot.add and Snapshot.remove: the aggregate maintained by           *)
(* increments and decrements equals a recount of the retained records, so  *)
(* no uint64 counter underflows or drifts however long the window lives.   *)
(***************************************************************************)
AggregateMatchesRecount == w.snapshot = Tally(Recent, w.snapshot.Ignored)

=============================================================================
