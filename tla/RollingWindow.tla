--------------------------- MODULE RollingWindow ---------------------------
(***************************************************************************)
(* The interface the breaker uses (breaker.go, rollingWindow): one window, *)
(* of the configured kind.  Reading a time window is also a step of it:    *)
(* WindowObserve is the effect of snapshot(now), WindowSnapshot its value. *)
(***************************************************************************)
EXTENDS CountWindow, TimeWindow

CONSTANTS TimeWindowed,     \* TRUE: TimeWindow, FALSE: CountWindow
          WindowSize,       \* CountWindow.Size
          BucketDuration,   \* TimeWindow.BucketDuration
          BucketCount       \* TimeWindow.BucketCount

\* What normalizeWindow accepts.
ASSUME WindowAssumption ==
  /\ TimeWindowed \in BOOLEAN
  /\ WindowSize \in Nat \ {0}
  /\ BucketDuration \in Nat \ {0}
  /\ BucketCount \in Nat \ {0}

RollingWindows ==
  IF TimeWindowed THEN TimeWindows(BucketCount) ELSE CountWindows(WindowSize)

NewRollingWindow ==
  IF TimeWindowed THEN NewTime(BucketCount) ELSE NewCount(WindowSize)

WindowAdd(w, now, r) ==
  IF TimeWindowed THEN TimeAdd(w, BucketCount, BucketDuration, now, r)
                  ELSE CountAdd(w, WindowSize, r)

WindowObserve(w, now) ==
  IF TimeWindowed THEN TimeObserve(w, BucketDuration, now) ELSE w

WindowSnapshot(w, now) ==
  IF TimeWindowed THEN TimeSnapshot(w, BucketCount, BucketDuration, now)
                  ELSE w.snapshot

=============================================================================
