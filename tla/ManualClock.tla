---------------------------- MODULE ManualClock ----------------------------
(***************************************************************************)
(* The manually driven clock of the test support (breakertest/clock.go):   *)
(* the admission timers of the breaker's own tests are timers of this      *)
(* clock.  Every operation is one critical section of Clock.mu, except     *)
(* Advance, which reads the time in one and sets it in another, so that    *)
(* concurrent Advances may overwrite each other and move the clock back.   *)
(*                                                                         *)
(* A timer is named by its place in registration order.  Its channel has   *)
(* room for one notification, and Set sends while it holds Clock.mu: a     *)
(* send to a full channel would block every user of the clock.             *)
(***************************************************************************)
EXTENDS Integers, FiniteSets, Sequences

CONSTANTS Client,      \* goroutines of a test that may be inside Advance
          Instant,     \* timestamps the clock may show
          MaxDuration, \* bound on timers' durations and steps of Advance
          MaxTimers    \* bound on timers created

ASSUME ManualClockAssumption ==
  Instant \subseteq Int /\ MaxDuration \in Nat /\ MaxTimers \in Nat

\* Negative durations are allowed.
Duration == (-1)..MaxDuration

VARIABLES
  now,
  timers,      \* Clock.timers, the retained timers
  timer,       \* every timer created: its deadline, channel, stopped, fired
  advancing,   \* Client -> what its Advance is about to set, or Idle
  order,       \* timers the last Set fired, in the order of its sends
  latest       \* history: the latest time shown since each timer's creation

vars == <<now, timers, timer, advancing, order, latest>>

Idle == [pending |-> FALSE, at |-> 0]
Created == 1..Len(timer)

Init ==
  /\ now \in Instant
  /\ timers = <<>> /\ timer = <<>> /\ order = <<>> /\ latest = <<>>
  /\ advancing = [c \in Client |-> Idle]

Later(a, b) == IF a < b THEN b ELSE a

-----------------------------------------------------------------------------
\* A timer that is not in the future notifies at once and is not retained.
NewTimer(duration) ==
  LET deadline == now + duration
      due == duration <= 0
  IN /\ Len(timer) < MaxTimers
     /\ timer' = Append(timer, [deadline |-> deadline, stopped |-> FALSE, fired |-> due,
                                channel |-> IF due THEN <<deadline>> ELSE <<>>])
     /\ timers' = IF due THEN timers ELSE Append(timers, Len(timer) + 1)
     /\ latest' = Append(latest, now)
     /\ UNCHANGED <<now, advancing, order>>

\* The timers that the clock retains.
Pending == {timers[i] : i \in DOMAIN timers}

\* The order of sort.SliceStable by deadline.
SortsBefore(t, u) ==
  \/ timer[t].deadline < timer[u].deadline
  \/ /\ timer[t].deadline = timer[u].deadline
     /\ \E i, j \in DOMAIN timers : i < j /\ timers[i] = t /\ timers[j] = u

\* S as a slice in that order; there is one.
Sorted(S) ==
  {s \in [1..Cardinality(S) -> S] :
     /\ \A t \in S : \E i \in DOMAIN s : s[i] = t
     /\ \A i, j \in DOMAIN s : i < j => SortsBefore(s[i], s[j])}

\* An eligibility test that is exclusive at the deadline.
DueAfter(t, at) == timer[t].deadline < at

Due(t, at) == timer[t].deadline <= at

(***************************************************************************)
(* Set, once it holds Clock.mu: sort, fire what is due in that order, keep *)
(* the rest.  The sends need room in the channels.                         *)
(***************************************************************************)
SetLocked(at) ==
  LET due == {t \in Pending : Due(t, at)}
  IN /\ \A t \in due : timer[t].channel = <<>>
     /\ now' = at
     /\ order' \in Sorted(due)
     /\ timers' \in Sorted(Pending \ due)
     /\ timer' = [t \in Created |->
                    IF t \in due
                    THEN [timer[t] EXCEPT !.fired = TRUE,
                                          !.channel = Append(@, timer[t].deadline)]
                    ELSE timer[t]]
     /\ latest' = [t \in Created |-> Later(latest[t], at)]

Set(at) == SetLocked(at) /\ UNCHANGED advancing

\* Advance: Now in one critical section ...
AdvanceReads(c, duration) ==
  /\ ~advancing[c].pending /\ now + duration \in Instant
  /\ advancing' = [advancing EXCEPT ![c] = [pending |-> TRUE, at |-> now + duration]]
  /\ UNCHANGED <<now, timers, timer, order, latest>>

\* ... and Set in another.
AdvanceSets(c) ==
  /\ advancing[c].pending
  /\ SetLocked(advancing[c].at)
  /\ advancing' = [advancing EXCEPT ![c] = Idle]

\* Fills the gap with the last timer instead of closing it up.
RemovedBySwap(s, t) ==
  SubSeq([s EXCEPT ![CHOOSE i \in DOMAIN s : s[i] = t] = s[Len(s)]], 1, Len(s) - 1)

Removed(s, t) ==
  LET index == CHOOSE i \in DOMAIN s : s[i] = t
  IN [i \in 1..(Len(s) - 1) |-> IF i < index THEN s[i] ELSE s[i + 1]]

\* Stop; a second one, or one that is too late, changes nothing.
Stop(t) ==
  /\ ~timer[t].stopped /\ ~timer[t].fired
  /\ timer' = [timer EXCEPT ![t].stopped = TRUE]
  /\ timers' = Removed(timers, t)
  /\ UNCHANGED <<now, advancing, order, latest>>

\* A test, or the breaker's select, takes the notification.
Receive(t) ==
  /\ timer[t].channel # <<>>
  /\ timer' = [timer EXCEPT ![t].channel = Tail(@)]
  /\ UNCHANGED <<now, timers, advancing, order, latest>>

Next ==
  \/ \E d \in Duration : NewTimer(d)
  \/ \E at \in Instant : Set(at)
  \/ \E c \in Client, d \in Duration : AdvanceReads(c, d)
  \/ \E c \in Client : AdvanceSets(c)
  \/ \E t \in Created : Stop(t) \/ Receive(t)

Spec == Init /\ [][Next]_vars

-----------------------------------------------------------------------------
(* Properties *)

\* ActiveTimers.
ActiveTimers == Cardinality({i \in DOMAIN timers : ~timer[timers[i]].stopped})

(***************************************************************************)
(* The clock retains exactly the timers that have neither fired nor been   *)
(* stopped, each once, so that ActiveTimers counts them; and their         *)
(* channels are empty, so that Set never blocks in a send while it holds   *)
(* Clock.mu.                                                               *)
(***************************************************************************)
Retained ==
  LET pending == {t \in Created : ~timer[t].fired /\ ~timer[t].stopped}
  IN /\ Pending = pending /\ Len(timers) = Cardinality(pending)
     /\ ActiveTimers = Cardinality(pending)
     /\ \A t \in pending : timer[t].channel = <<>>

(***************************************************************************)
(* No timer is lost or early, however Advances overwrite one another: a    *)
(* timer that was not stopped has fired exactly when the clock has shown   *)
(* its deadline, or a later time, since the timer was created; a stopped   *)
(* one never notifies.                                                     *)
(***************************************************************************)
FiresWhenReached ==
  \A t \in Created :
    IF timer[t].stopped THEN ~timer[t].fired /\ timer[t].channel = <<>>
    ELSE timer[t].fired <=> latest[t] >= timer[t].deadline

\* No timer of the clock is lost, early, late, notified twice or left behind.
TimersExact == Retained /\ FiresWhenReached

(***************************************************************************)
(* One Set notifies in the order of the deadlines, and timers of equal     *)
(* deadline in the order of their creation, whatever was stopped or sorted *)
(* before: the order the documentation of Set promises.                    *)
(***************************************************************************)
NotifiesInOrder ==
  \A i, j \in DOMAIN order :
    i < j => \/ timer[order[i]].deadline < timer[order[j]].deadline
             \/ timer[order[i]].deadline = timer[order[j]].deadline /\ order[i] < order[j]

=============================================================================
