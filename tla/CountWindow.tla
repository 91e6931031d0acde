---------------------------- MODULE CountWindow ----------------------------
(***************************************************************************)
(* The count-based rolling window (window/count.go): a ring of the last    *)
(* size classified records and an incrementally maintained aggregate.      *)
(***************************************************************************)
EXTENDS Window

CountWindows(size) ==
  [records : [0..(size - 1) -> Record], next : 0..(size - 1),
   length : 0..size, snapshot : Aggregate]

NewCount(size) ==
  [records |-> [i \in 0..(size - 1) |-> ZeroRecord],
   next |-> 0, length |-> 0, snapshot |-> EmptySnapshot]

\* A bug that lets an ignored completion occupy a ring slot.
CountAddIgnoredAdvances(w, size, r) ==
  [records  |-> [w.records EXCEPT ![w.next] = r],
   next     |-> (w.next + 1) % size,
   length   |-> IF w.length = size THEN size ELSE w.length + 1,
   snapshot |-> SnapshotAdd(IF w.length = size
                            THEN SnapshotRemove(w.snapshot, w.records[w.next])
                            ELSE w.snapshot, r)]

(***************************************************************************)
(* An ignored record only counts; a classified one evicts the oldest       *)
(* record when the ring is full, and the aggregate follows.                *)
(***************************************************************************)
CountAdd(w, size, r) ==
  IF r.Class = Ignored
  THEN [w EXCEPT !.snapshot = SnapshotAdd(@, r)]
  ELSE LET full == w.length = size
       IN [records  |-> [w.records EXCEPT ![w.next] = r],
           next     |-> (w.next + 1) % size,
           length   |-> IF full THEN w.length ELSE w.length + 1,
           snapshot |-> SnapshotAdd(IF full
                                    THEN SnapshotRemove(w.snapshot, w.records[w.next])
                                    ELSE w.snapshot, r)]

=============================================================================
