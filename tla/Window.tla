------------------------------- MODULE Window -------------------------------
(***************************************************************************)
(* The aggregate that both rolling windows keep (window/window.go).  A     *)
(* record is one completed operation, a snapshot counts records by class.  *)
(* The code's counters are uint64; here they are integers, so that a       *)
(* counter decremented below zero is visible as a negative number.         *)
(***************************************************************************)
EXTENDS Integers

Success == "success"
Failure == "failure"
Ignored == "ignored"
Class == {Success, Failure, Ignored}

Record == [Class : Class, Slow : BOOLEAN]

\* What every caller of the module records: an ignored completion is never slow.
Recordable == {r \in Record : r.Class = Ignored => ~r.Slow}

\* The zero value that make([]Record, size) leaves in an unused slot.
ZeroRecord == [Class |-> Success, Slow |-> FALSE]

Aggregate == [Classified : Int, Successes : Int, Failures : Int,
              Ignored : Int, SlowSuccess : Int, SlowFailure : Int]

EmptySnapshot == [Classified |-> 0, Successes |-> 0, Failures |-> 0,
                  Ignored |-> 0, SlowSuccess |-> 0, SlowFailure |-> 0]

One(condition) == IF condition THEN 1 ELSE 0

SnapshotAdd(s, r) ==
  [Classified  |-> s.Classified + One(r.Class # Ignored),
   Successes   |-> s.Successes + One(r.Class = Success),
   Failures    |-> s.Failures + One(r.Class = Failure),
   Ignored     |-> s.Ignored + One(r.Class = Ignored),
   SlowSuccess |-> s.SlowSuccess + One(r.Class = Success /\ r.Slow),
   SlowFailure |-> s.SlowFailure + One(r.Class = Failure /\ r.Slow)]

\* A bug that forgets the slow dimension of an evicted failure.
SnapshotRemoveKeepsSlowFailure(s, r) ==
  [Classified  |-> s.Classified - One(r.Class # Ignored),
   Successes   |-> s.Successes - One(r.Class = Success),
   Failures    |-> s.Failures - One(r.Class = Failure),
   Ignored     |-> s.Ignored,
   SlowSuccess |-> s.SlowSuccess - One(r.Class = Success /\ r.Slow),
   SlowFailure |-> s.SlowFailure]

\* Eviction never touches the ignored count.
SnapshotRemove(s, r) ==
  [Classified  |-> s.Classified - One(r.Class # Ignored),
   Successes   |-> s.Successes - One(r.Class = Success),
   Failures    |-> s.Failures - One(r.Class = Failure),
   Ignored     |-> s.Ignored,
   SlowSuccess |-> s.SlowSuccess - One(r.Class = Success /\ r.Slow),
   SlowFailure |-> s.SlowFailure - One(r.Class = Failure /\ r.Slow)]

Slow(s) == s.SlowSuccess + s.SlowFailure

=============================================================================
