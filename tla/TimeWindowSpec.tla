--------------------------- MODULE TimeWindowSpec ---------------------------
(***************************************************************************)
(* A time window in use: completions and snapshots at any instants, before *)
(* and after the epoch, in any order, as callers that sampled the clock    *)
(* before the lock produce them.  Two history variables remember what was  *)
(* ever recorded, so that the bucket ring can be compared with it.         *)
(***************************************************************************)
EXTENDS TimeWindow, Sequences, FiniteSetsExt

CONSTANTS BucketDuration, BucketCount,
          Instants,    \* the timestamps callers may present
          MaxAdds      \* bound on recorded completions

ASSUME TimeWindowAssumption ==
  /\ BucketDuration \in Nat \ {0} /\ BucketCount \in Nat \ {0}
  /\ Instants \subseteq Int /\ MaxAdds \in Nat

VARIABLES tw,        \* the window
          log,       \* history: every completion, with the bucket it belongs to
          observed   \* history: every bucket id a call has presented

timeVars == <<tw, log, observed>>

TimeInit == tw = NewTime(BucketCount) /\ log = <<>> /\ observed = {}

Seen(at) == observed \cup {BucketIDAt(at, BucketDuration)}

AddAt(at, r) ==
  /\ Len(log) < MaxAdds
  /\ tw' = TimeAdd(tw, BucketCount, BucketDuration, at, r)
  /\ observed' = Seen(at)
  /\ log' = Append(log, [id |-> Max(Seen(at)), record |-> r])

SnapshotAt(at) ==
  /\ tw' = TimeObserve(tw, BucketDuration, at)
  /\ observed' = Seen(at)
  /\ UNCHANGED log

TimeNext == \E at \in Instants : SnapshotAt(at) \/ \E r \in Recordable : AddAt(at, r)

TimeSpec == TimeInit /\ [][TimeNext]_timeVars

-----------------------------------------------------------------------------
\* The completions of the BucketCount buckets that end with the latest one.
Retained(at) ==
  LET current == Max(Seen(at))
  IN {i \in DOMAIN log : log[i].id \in (current - BucketCount + 1)..current}

\* A recount of the completions at some places of a log.
Recount(entries, places) ==
  LET Count(S) == Cardinality({i \in places : entries[i].record \in S})
  IN [Classified  |-> Count({r \in Record : r.Class # Ignored}),
      Successes   |-> Count({r \in Record : r.Class = Success}),
      Failures    |-> Count({r \in Record : r.Class = Failure}),
      Ignored     |-> Count({r \in Record : r.Class = Ignored}),
      SlowSuccess |-> Count({r \in Record : r.Class = Success /\ r.Slow}),
      SlowFailure |-> Count({r \in Record : r.Class = Failure /\ r.Slow})]

(***************************************************************************)
(* Time.Add and Time.Snapshot: whatever instant a snapshot is asked for,   *)
(* it counts exactly the completions of the last BucketCount buckets up to *)
(* the latest bucket ever observed: a slot reused after a gap keeps        *)
(* nothing, two bucket ids sharing a slot never mix, and a clock that      *)
(* moves backward neither resurrects expired completions nor loses live    *)
(* ones.                                                                   *)
(***************************************************************************)
SnapshotMatchesHistory ==
  \A at \in Instants :
    TimeSnapshot(tw, BucketCount, BucketDuration, at) = Recount(log, Retained(at))

=============================================================================
