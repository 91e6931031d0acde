------------------------------ MODULE Recorder ------------------------------
(***************************************************************************)
(* The bounded recorder of the test support (breakertest/support.go), with *)
(* the memory behind its slices: the recorder shifts and overwrites one    *)
(* array for its whole life, Reset included, so a slice handed to a test   *)
(* must not share that array.  Every operation is one critical section of  *)
(* Recorder.mu.  Events are numbered in the order of their delivery.       *)
(***************************************************************************)
EXTENDS Integers, Sequences

CONSTANTS Capacity,    \* the recorder's capacity
          MaxEvents    \* bound on deliveries

ASSUME RecorderAssumption == Capacity \in Nat \ {0} /\ MaxEvents \in Nat

VARIABLES
  array,       \* the array behind Recorder.events: Capacity slots
  length,      \* len(Recorder.events)
  dropped,
  held,        \* the slice the last Events returned: whose array, and its length
  copied,      \* the array allocated for it
  delivered,   \* history: deliveries so far
  reset,       \* history: deliveries before the last Reset
  seen         \* history: what the slice showed when it was returned

recorderVars == <<array, length, dropped, held, copied, delivered, reset, seen>>

Slot == 1..Capacity

RecorderInit ==
  /\ array = [i \in Slot |-> 0] /\ length = 0 /\ dropped = 0
  /\ held = [shared |-> FALSE, length |-> 0] /\ copied = [i \in Slot |-> 0]
  /\ delivered = 0 /\ reset = 0 /\ seen = <<>>

\* What a slice of this array shows.
Slice(memory, n) == [i \in 1..n |-> memory[i]]

\* copy(r.events, r.events[1:]) and the new event in the last place.
Shifted(memory, event) ==
  [i \in Slot |-> IF i < Capacity THEN memory[i + 1] ELSE event]

\* Observe
Observe ==
  LET event == delivered + 1
      full == length = Capacity
  IN /\ delivered < MaxEvents
     /\ delivered' = event
     /\ array' = IF full THEN Shifted(array, event) ELSE [array EXCEPT ![length + 1] = event]
     /\ length' = IF full THEN length ELSE length + 1
     /\ dropped' = IF full THEN dropped + 1 ELSE dropped
     /\ UNCHANGED <<held, copied, reset, seen>>

\* Returns the recorder's own slice.
EventsShared ==
  /\ held' = [shared |-> TRUE, length |-> length]
  /\ seen' = Slice(array, length)
  /\ UNCHANGED <<array, length, dropped, copied, delivered, reset>>

\* Events: a fresh array of its own.
Events ==
  /\ held' = [shared |-> FALSE, length |-> length]
  /\ copied' = array
  /\ seen' = Slice(array, length)
  /\ UNCHANGED <<array, length, dropped, delivered, reset>>

\* Reset keeps the array.
Reset ==
  /\ length' = 0 /\ dropped' = 0 /\ reset' = delivered
  /\ UNCHANGED <<array, held, copied, delivered, seen>>

RecorderNext == Observe \/ Events \/ Reset

RecorderSpec == RecorderInit /\ [][RecorderNext]_recorderVars

-----------------------------------------------------------------------------
(* Properties *)

(***************************************************************************)
(* The recorder holds the last Capacity events delivered since the last    *)
(* Reset, in delivery order, and dropped counts exactly the others.        *)
(***************************************************************************)
KeepsNewest ==
  LET since == delivered - reset
      kept == IF since < Capacity THEN since ELSE Capacity
  IN /\ Slice(array, length) = [i \in 1..kept |-> delivered - kept + i]
     /\ dropped = since - kept

(***************************************************************************)
(* What Events returned never changes afterwards: no later Observe or      *)
(* Reset reaches the memory of a slice that a test holds.                  *)
(***************************************************************************)
EventsAreCopies ==
  Slice(IF held.shared THEN array ELSE copied, held.length) = seen

\* What the recorder keeps and what it has handed out are both right.
RecorderExact == KeepsNewest /\ EventsAreCopies

=============================================================================
