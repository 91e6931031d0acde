----------------------------- MODULE TimeWindow -----------------------------
(***************************************************************************)
(* The time-based rolling window (window/time.go): a ring of buckets, each *)
(* owned by the bucket id that last wrote it, and the latest bucket id     *)
(* observed.  A bucket id is the mathematical floor of the timestamp       *)
(* divided by the bucket duration; the code's sign-and-magnitude 128-bit   *)
(* representation of that integer is abstracted to the integer.            *)
(***************************************************************************)
EXTENDS Window

TimeWindows(count) ==
  [buckets : [0..(count - 1) -> [id : Int, occupied : BOOLEAN, snapshot : Aggregate]],
   lastBucketID : Int, initialized : BOOLEAN]

NewTime(count) ==
  [buckets |-> [i \in 0..(count - 1) |->
                  [id |-> 0, occupied |-> FALSE, snapshot |-> EmptySnapshot]],
   lastBucketID |-> 0, initialized |-> FALSE]

BucketIDAt(at, duration) == at \div duration

\* observe: the latest bucket id only moves forward.
TimeObserve(w, duration, at) ==
  LET id == BucketIDAt(at, duration)
  IN [w EXCEPT !.initialized = TRUE,
               !.lastBucketID = IF ~w.initialized \/ id > @ THEN id ELSE @]

Index(id, count) == id % count

\* A bug that reuses a slot without clearing what an older bucket left in it.
TimeAddKeepsOldBucket(w, count, duration, at, r) ==
  LET observed == TimeObserve(w, duration, at)
      id == observed.lastBucketID
  IN [observed EXCEPT !.buckets[Index(id, count)] =
        [id |-> id, occupied |-> TRUE, snapshot |-> SnapshotAdd(@.snapshot, r)]]

\* Add: the slot is cleared when another bucket id (or none) owns it.
TimeAdd(w, count, duration, at, r) ==
  LET observed == TimeObserve(w, duration, at)
      id == observed.lastBucketID
  IN [observed EXCEPT !.buckets[Index(id, count)] =
        [id |-> id, occupied |-> TRUE,
         snapshot |-> SnapshotAdd(IF @.occupied /\ @.id = id
                                  THEN @.snapshot ELSE EmptySnapshot, r)]]

\* merge: the fieldwise sum.
Merge(destination, source) ==
  [Classified  |-> destination.Classified + source.Classified,
   Successes   |-> destination.Successes + source.Successes,
   Failures    |-> destination.Failures + source.Failures,
   Ignored     |-> destination.Ignored + source.Ignored,
   SlowSuccess |-> destination.SlowSuccess + source.SlowSuccess,
   SlowFailure |-> destination.SlowFailure + source.SlowFailure]

\* Among the count buckets that end with the latest.
Live(w, count, i) ==
  /\ w.buckets[i].occupied
  /\ w.buckets[i].id \in (w.lastBucketID - (count - 1))..w.lastBucketID

\* The loop of Snapshot: the aggregate after each number of slots.
Merged(w, count) ==
  LET snapshot[k \in 0..count] ==
        IF k = 0 THEN EmptySnapshot
        ELSE IF Live(w, count, k - 1) THEN Merge(snapshot[k - 1], w.buckets[k - 1].snapshot)
        ELSE snapshot[k - 1]
  IN snapshot

\* The value Snapshot(at) returns; TimeObserve is its effect on the window.
TimeSnapshot(w, count, duration, at) == Merged(TimeObserve(w, duration, at), count)[count]

=============================================================================
