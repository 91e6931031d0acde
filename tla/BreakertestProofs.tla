------------------------- MODULE BreakertestProofs -------------------------
(***************************************************************************)
(* Theorems about the test support, for every value of the constants: the  *)
(* recorder keeps the newest events and hands out copies, and the manual   *)
(* clock loses, repeats and reorders no timer.                             *)
(***************************************************************************)
EXTENDS ManualClock, Recorder, Induction, SequenceTheorems

-----------------------------------------------------------------------------
(* The recorder *)

(***************************************************************************)
(* The places in use hold the last events in order, none of the others     *)
(* was kept, and the slice that was handed out has an array of its own.    *)
(***************************************************************************)
RecorderInv ==
  /\ array \in [Slot -> Nat] /\ copied \in [Slot -> Nat]
  /\ length \in 0..Capacity /\ delivered \in Nat /\ reset \in 0..delivered
  /\ length = IF delivered - reset < Capacity THEN delivered - reset ELSE Capacity
  /\ dropped = delivered - reset - length
  /\ \A i \in 1..length : array[i] = delivered - length + i
  /\ held.shared = FALSE /\ seen = Slice(copied, held.length)

\* Observe keeps it, with room and without.
LEMMA ObserveKeepsNewest ==
  ASSUME RecorderInv, Observe
  PROVE  RecorderInv'
<1>1. Capacity \in Nat \ {0}
  BY RecorderAssumption
<1>2. CASE length = Capacity
  <2>1. /\ delivered' = delivered + 1 /\ array' = Shifted(array, delivered + 1)
        /\ length' = length /\ dropped' = dropped + 1
        /\ UNCHANGED <<held, copied, reset, seen>>
    BY <1>2 DEF Observe
  <2>2. array' \in [Slot -> Nat]
    BY <1>1, <2>1 DEF RecorderInv, Shifted, Slot
  <2>3. ASSUME NEW i \in 1..length' PROVE array'[i] = delivered' - length' + i
    <3>1. i \in Slot /\ i \in 1..Capacity
      BY <1>2, <2>1 DEF Slot
    <3>2. CASE i < Capacity
      <4>1. i + 1 \in 1..length /\ array'[i] = array[i + 1]
        BY <1>1, <1>2, <2>1, <3>1, <3>2 DEF Shifted
      <4>2. array[i + 1] = delivered - length + (i + 1)
        BY <4>1 DEF RecorderInv
      <4> QED BY <1>1, <2>1, <3>1, <4>1, <4>2 DEF RecorderInv
    <3>3. CASE i = Capacity
      BY <1>1, <1>2, <2>1, <3>1, <3>3 DEF Shifted, RecorderInv
    <3> QED BY <1>1, <3>1, <3>2, <3>3
  <2>4. /\ length' \in 0..Capacity /\ delivered' \in Nat /\ reset' \in 0..delivered'
        /\ length' = IF delivered' - reset' < Capacity THEN delivered' - reset' ELSE Capacity
        /\ dropped' = delivered' - reset' - length'
    BY <1>1, <1>2, <2>1 DEF RecorderInv
  <2> QED BY <2>1, <2>2, <2>3, <2>4 DEF RecorderInv, Slice
<1>3. CASE length # Capacity
  <2>1. /\ delivered' = delivered + 1 /\ array' = [array EXCEPT ![length + 1] = delivered + 1]
        /\ length' = length + 1 /\ dropped' = dropped
        /\ UNCHANGED <<held, copied, reset, seen>>
    BY <1>3 DEF Observe
  <2>2. length + 1 \in Slot
    BY <1>1, <1>3 DEF RecorderInv, Slot
  <2>3. array' \in [Slot -> Nat]
    BY <2>1, <2>2 DEF RecorderInv
  <2>4. ASSUME NEW i \in 1..length' PROVE array'[i] = delivered' - length' + i
    <3>1. CASE i = length + 1
      BY <2>1, <2>2, <3>1 DEF RecorderInv
    <3>2. CASE i # length + 1
      <4>1. i \in 1..length /\ i \in Slot
        BY <1>1, <2>1, <3>2 DEF RecorderInv, Slot
      <4>2. array'[i] = array[i]
        BY <2>1, <3>2, <4>1 DEF RecorderInv
      <4>3. array[i] = delivered - length + i
        BY <4>1 DEF RecorderInv
      <4> QED BY <2>1, <4>1, <4>2, <4>3 DEF RecorderInv
    <3> QED BY <3>1, <3>2
  <2>5. /\ length' \in 0..Capacity /\ delivered' \in Nat /\ reset' \in 0..delivered'
        /\ length' = IF delivered' - reset' < Capacity THEN delivered' - reset' ELSE Capacity
        /\ dropped' = delivered' - reset' - length'
    BY <1>1, <1>3, <2>1 DEF RecorderInv
  <2> QED BY <2>1, <2>3, <2>4, <2>5 DEF RecorderInv, Slice
<1> QED BY <1>2, <1>3

(***************************************************************************)
(* Observe, Events and Reset: the recorder holds the last Capacity events  *)
(* since Reset in order, counts the others as dropped, and no slice it     *)
(* handed out changes afterwards.                                          *)
(***************************************************************************)
THEOREM RecorderAlwaysExact == RecorderSpec => []RecorderExact
<1>1. RecorderInit => RecorderInv
  BY RecorderAssumption DEF RecorderInit, RecorderInv, Slot, Slice
<1>2. RecorderInv /\ [RecorderNext]_recorderVars => RecorderInv'
  <2> SUFFICES ASSUME RecorderInv, [RecorderNext]_recorderVars PROVE RecorderInv'
    OBVIOUS
  <2>1. CASE Observe
    BY <2>1, ObserveKeepsNewest
  <2>2. CASE Events
    BY <2>2 DEF Events, RecorderInv, Slice
  <2>3. CASE Reset
    BY <2>3, RecorderAssumption DEF Reset, RecorderInv, Slice
  <2>4. CASE UNCHANGED recorderVars
    BY <2>4 DEF recorderVars, RecorderInv, Slice
  <2> QED BY <2>1, <2>2, <2>3, <2>4 DEF RecorderNext
<1>3. RecorderInv => RecorderExact
  <2> SUFFICES ASSUME RecorderInv PROVE RecorderExact
    OBVIOUS
  <2>1. KeepsNewest
    BY RecorderAssumption DEF RecorderInv, KeepsNewest, Slice
  <2>2. EventsAreCopies
    BY DEF RecorderInv, EventsAreCopies
  <2> QED BY <2>1, <2>2 DEF RecorderExact
<1> QED BY <1>1, <1>2, <1>3, PTL DEF RecorderSpec

-----------------------------------------------------------------------------
(* The manual clock *)

\* The record of a timer, and the pending Advance of every client.
TimerRecord == [deadline : Int, stopped : BOOLEAN, fired : BOOLEAN, channel : Seq(Int)]

Advances == [Client -> [pending : BOOLEAN, at : Int]]

\* The types of the clock.
ClockTypes ==
  /\ now \in Int /\ timer \in Seq(TimerRecord) /\ timers \in Seq(Int)
  /\ latest \in Seq(Int) /\ Len(latest) = Len(timer) /\ order \in Seq(Int)
  /\ advancing \in Advances

\* The timers that are still to fire.
Waiting == {t \in Created : ~timer[t].fired /\ ~timer[t].stopped}

\* The slice of the clock has them all, those of equal deadline as created.
KeepsWaiting ==
  /\ Pending = Waiting /\ Len(timers) = Cardinality(Waiting)
  /\ \A t \in Waiting : timer[t].channel = <<>>
  /\ \A i, j \in DOMAIN timers : i < j =>
       /\ timers[i] # timers[j]
       /\ timer[timers[i]].deadline = timer[timers[j]].deadline => timers[i] < timers[j]

\* What a step notified was created before.
OrderOfCreated == \A i \in DOMAIN order : order[i] \in Created

\* The inductive invariant.
ClockInv == ClockTypes /\ KeepsWaiting /\ FiresWhenReached /\ OrderOfCreated /\ NotifiesInOrder

\* The fields of a timer.
LEMMA TimerType ==
  ASSUME ClockTypes
  PROVE  /\ Created = 1..Len(timer) /\ Len(timer) \in Nat
         /\ DOMAIN timer = Created /\ DOMAIN latest = Created
         /\ \A t \in Created : /\ t \in Int /\ latest[t] \in Int /\ timer[t] \in TimerRecord
                               /\ timer[t].deadline \in Int /\ timer[t].stopped \in BOOLEAN
                               /\ timer[t].fired \in BOOLEAN /\ timer[t].channel \in Seq(Int)
<1>1. Created = 1..Len(timer) /\ Len(timer) \in Nat
  BY DEF Created, ClockTypes
<1>2. DOMAIN timer = Created /\ DOMAIN latest = Created
  BY <1>1 DEF ClockTypes
<1>3. ASSUME NEW t \in Created
      PROVE  t \in Int /\ latest[t] \in Int /\ timer[t] \in TimerRecord
  BY <1>1, <1>2 DEF ClockTypes
<1>4. ASSUME NEW r \in TimerRecord
      PROVE  /\ r.deadline \in Int /\ r.stopped \in BOOLEAN
             /\ r.fired \in BOOLEAN /\ r.channel \in Seq(Int)
  BY DEF TimerRecord
<1> QED BY <1>1, <1>2, <1>3, <1>4

\* Finitely many timers wait.
LEMMA WaitingFinite ==
  ASSUME ClockTypes
  PROVE  IsFiniteSet(Waiting) /\ Cardinality(Waiting) \in Nat
<1>1. IsFiniteSet(Created)
  BY TimerType, FS_Interval
<1>2. Waiting \in SUBSET Created
  BY DEF Waiting
<1> QED BY <1>1, <1>2, FS_Subset, FS_CardinalityType

\* A function from 1..n is a sequence of length n.
LEMMA SeqOf ==
  ASSUME NEW V, NEW n \in Nat, NEW f \in [1..n -> V]
  PROVE  f \in Seq(V) /\ Len(f) = n /\ DOMAIN f = 1..n
OBVIOUS

\* A sorted slice: a sequence of its elements, each of them once.
LEMMA SortedIs ==
  ASSUME NEW S \in SUBSET Int, IsFiniteSet(S), NEW s \in Sorted(S)
  PROVE  /\ s \in Seq(Int) /\ Len(s) = Cardinality(S) /\ DOMAIN s = 1..Cardinality(S)
         /\ {s[i] : i \in DOMAIN s} = S
         /\ \A i, j \in DOMAIN s : i < j => SortsBefore(s[i], s[j])
<1>1. Cardinality(S) \in Nat
  BY FS_CardinalityType
<1> DEFINE Elements(f) == \A t \in S : \E i \in DOMAIN f : f[i] = t
           InOrder(f) == \A i, j \in DOMAIN f : i < j => SortsBefore(f[i], f[j])
<1>2. s \in [1..Cardinality(S) -> S] /\ Elements(s) /\ InOrder(s)
  <2>1. Sorted(S) = {f \in [1..Cardinality(S) -> S] : Elements(f) /\ InOrder(f)}
    BY DEF Sorted
  <2> HIDE DEF Elements, InOrder
  <2> QED BY <2>1
<1>3. DOMAIN s = 1..Cardinality(S)
  BY <1>2, Zenon
<1>4. s \in Seq(Int) /\ Len(s) = Cardinality(S)
  <2>1. s \in [1..Cardinality(S) -> Int]
    BY <1>2
  <2> QED BY <1>1, <2>1, SeqOf
<1>5. {s[i] : i \in DOMAIN s} = S
  BY <1>2
<1> QED BY <1>2, <1>3, <1>4, <1>5, Zenon

\* What r has of s is in the order of s.
KeepsOrder(r, s) ==
  \A i, j \in DOMAIN r : i < j => \E k, l \in DOMAIN s : k < l /\ r[i] = s[k] /\ r[j] = s[l]

\* Closing up the gap that a timer leaves keeps the others in order.
LEMMA RemovedIs ==
  ASSUME NEW s \in Seq(Int), NEW t, t \in {s[i] : i \in DOMAIN s},
         \A i, j \in DOMAIN s : i < j => s[i] # s[j]
  PROVE  /\ Removed(s, t) \in Seq(Int) /\ Len(Removed(s, t)) = Len(s) - 1
         /\ {Removed(s, t)[i] : i \in DOMAIN Removed(s, t)} = {s[i] : i \in DOMAIN s} \ {t}
         /\ KeepsOrder(Removed(s, t), s)
<1> DEFINE index == CHOOSE i \in DOMAIN s : s[i] = t
           r == [i \in 1..(Len(s) - 1) |-> IF i < index THEN s[i] ELSE s[i + 1]]
           from(i) == IF i < index THEN i ELSE i + 1
<1>1. Len(s) \in Nat /\ DOMAIN s = 1..Len(s) /\ s \in [1..Len(s) -> Int]
  BY LenProperties
<1>2. index \in DOMAIN s /\ s[index] = t
  BY Zenon
<1>3. Removed(s, t) = r
  BY DEF Removed
<1> HIDE DEF index
<1>4. Len(s) - 1 \in Nat /\ index \in 1..Len(s)
  BY <1>1, <1>2
<1>5. \A i \in 1..(Len(s) - 1) : r[i] = s[from(i)] /\ from(i) \in DOMAIN s /\ from(i) # index
  BY <1>1, <1>4
<1>6. r \in Seq(Int) /\ Len(r) = Len(s) - 1 /\ DOMAIN r = 1..(Len(s) - 1)
  <2>1. r \in [1..(Len(s) - 1) -> Int]
    BY <1>1, <1>4
  <2> HIDE DEF r
  <2> QED BY <1>4, <2>1
<1>7. \A i, j \in DOMAIN r : i < j => from(i) < from(j)
  BY <1>4, <1>6
<1>8. ASSUME NEW u PROVE u \in {r[i] : i \in DOMAIN r} <=> u \in {s[i] : i \in DOMAIN s} \ {t}
  <2>1. ASSUME NEW i \in DOMAIN r PROVE r[i] \in {s[j] : j \in DOMAIN s} \ {t}
    <3>1. r[i] = s[from(i)] /\ from(i) \in DOMAIN s /\ from(i) # index
      BY <1>5, <1>6
    <3>2. from(i) < index \/ index < from(i)
      BY <1>1, <1>4, <3>1
    <3>3. s[from(i)] # s[index]
      BY <1>2, <3>1, <3>2
    <3> QED BY <1>2, <3>1, <3>3
  <2>2. ASSUME NEW j \in DOMAIN s, s[j] # t PROVE \E i \in DOMAIN r : r[i] = s[j]
    <3>1. j # index /\ j \in 1..Len(s)
      BY <1>1, <1>2, <2>2
    <3>2. CASE j < index
      <4>1. j \in DOMAIN r /\ r[j] = s[j]
        BY <1>4, <1>6, <3>1, <3>2
      <4> QED BY <4>1
    <3>3. CASE j > index
      <4>1. j - 1 \in DOMAIN r /\ ~(j - 1 < index) /\ (j - 1) + 1 = j
        BY <1>4, <1>6, <3>1, <3>3
      <4>2. r[j - 1] = s[(j - 1) + 1]
        BY <1>6, <4>1
      <4> QED BY <4>1, <4>2
    <3> QED BY <1>4, <3>1, <3>2, <3>3
  <2> HIDE DEF r
  <2> QED BY <2>1, <2>2
<1>9. ASSUME NEW i \in DOMAIN r, NEW j \in DOMAIN r, i < j
      PROVE  \E k, l \in DOMAIN s : k < l /\ r[i] = s[k] /\ r[j] = s[l]
  <2>1. /\ from(i) \in DOMAIN s /\ from(j) \in DOMAIN s /\ from(i) < from(j)
        /\ r[i] = s[from(i)] /\ r[j] = s[from(j)]
    BY <1>5, <1>6, <1>7, <1>9
  <2> HIDE DEF from, r
  <2> QED BY <2>1
<1> HIDE DEF r
<1>10. {r[i] : i \in DOMAIN r} = {s[i] : i \in DOMAIN s} \ {t}
  BY <1>8
<1>11. KeepsOrder(r, s)
  BY <1>9 DEF KeepsOrder
<1>12. r \in Seq(Int) /\ Len(r) = Len(s) - 1
  BY <1>6
<1>13. {Removed(s, t)[i] : i \in DOMAIN Removed(s, t)} = {s[i] : i \in DOMAIN s} \ {t}
  BY <1>3, <1>10
<1> QED BY <1>3, <1>11, <1>12, <1>13

\* An operation that is no Set leaves the last notifications as they were.
LEMMA OrderKept ==
  ASSUME ClockInv, order' = order, Created \subseteq Created',
         \A t \in Created : timer'[t].deadline = timer[t].deadline
  PROVE  OrderOfCreated' /\ NotifiesInOrder'
<1>1. OrderOfCreated /\ NotifiesInOrder
  BY DEF ClockInv
<1>2. OrderOfCreated'
  BY <1>1 DEF OrderOfCreated
<1>3. NotifiesInOrder'
  BY <1>1 DEF NotifiesInOrder, OrderOfCreated
<1> QED BY <1>2, <1>3

\* Every retained timer was created.
LEMMA RetainedCreated ==
  ASSUME ClockInv
  PROVE  /\ DOMAIN timers = 1..Len(timers) /\ Len(timers) \in Nat
         /\ \A i \in DOMAIN timers : timers[i] \in Waiting /\ timers[i] \in Created
<1>1. DOMAIN timers = 1..Len(timers) /\ Len(timers) \in Nat
  BY DEF ClockInv, ClockTypes
<1>2. Pending = Waiting
  BY DEF ClockInv, KeepsWaiting
<1>3. ASSUME NEW i \in DOMAIN timers PROVE timers[i] \in Waiting
  <2>1. timers[i] \in Pending
    BY DEF Pending
  <2> QED BY <1>2, <2>1
<1> QED BY <1>1, <1>3 DEF Waiting

\* NewTimer appends, and retains unless the timer is due at once.
LEMMA NewTimerKeeps ==
  ASSUME ClockInv, NEW duration \in Int, NewTimer(duration)
  PROVE  ClockInv'
<1> DEFINE n == Len(timer)
           due == duration <= 0
           deadline == now + duration
           rec == [deadline |-> deadline, stopped |-> FALSE, fired |-> due,
                   channel |-> IF due THEN <<deadline>> ELSE <<>>]
<1>1. ClockTypes /\ KeepsWaiting /\ FiresWhenReached
  BY DEF ClockInv
<1>2. /\ timer' = Append(timer, rec)
      /\ timers' = IF due THEN timers ELSE Append(timers, n + 1)
      /\ latest' = Append(latest, now)
      /\ UNCHANGED <<now, advancing, order>>
  BY DEF NewTimer
<1>3. rec \in TimerRecord /\ deadline \in Int /\ now \in Int
  BY <1>1 DEF ClockTypes, TimerRecord
<1>4. /\ n \in Nat /\ Created = 1..n /\ n + 1 \notin Created
      /\ timer \in Seq(TimerRecord) /\ latest \in Seq(Int) /\ Len(latest) = n
  BY <1>1, TimerType DEF ClockTypes
<1>5. /\ timer' \in Seq(TimerRecord) /\ Len(timer') = n + 1
      /\ \A t \in Created : timer'[t] = timer[t]
      /\ timer'[n + 1] = rec
  <2> HIDE DEF rec
  <2> QED BY <1>2, <1>3, <1>4, AppendProperties
<1>6. /\ latest' \in Seq(Int) /\ Len(latest') = n + 1
      /\ \A t \in Created : latest'[t] = latest[t]
      /\ latest'[n + 1] = now
  BY <1>2, <1>3, <1>4, AppendProperties
<1>7. Created' = Created \cup {n + 1} /\ Created' = 1..(n + 1)
  <2>1. Created' = 1..(n + 1)
    BY <1>5 DEF Created
  <2> QED BY <1>4, <2>1
<1>8. /\ rec.deadline = deadline /\ rec.stopped = FALSE /\ rec.fired = due
      /\ (due => rec.channel = <<deadline>>) /\ (~due => rec.channel = <<>>)
  OBVIOUS
<1>9. due <=> deadline <= now
  BY <1>3
<1> HIDE DEF rec, deadline, due
<1>10. timers' \in Seq(Int)
  BY <1>1, <1>2, <1>4 DEF ClockTypes
<1>11. ClockTypes'
  BY <1>1, <1>2, <1>4, <1>5, <1>6, <1>10 DEF ClockTypes
<1>12. OrderOfCreated' /\ NotifiesInOrder'
  BY <1>2, <1>5, <1>7, OrderKept
<1>13. FiresWhenReached'
  <2>1. ASSUME NEW t \in Created'
        PROVE  IF timer'[t].stopped THEN ~timer'[t].fired /\ timer'[t].channel = <<>>
               ELSE timer'[t].fired <=> latest'[t] >= timer'[t].deadline
    <3>1. CASE t \in Created
      BY <1>1, <1>5, <1>6, <3>1 DEF FiresWhenReached
    <3>2. CASE t = n + 1
      <4>1. timer'[t] = rec /\ latest'[t] = now
        BY <1>5, <1>6, <3>2
      <4>2. ~rec.stopped /\ (rec.fired <=> now >= rec.deadline)
        BY <1>3, <1>8, <1>9
      <4> QED BY <4>1, <4>2
    <3> QED BY <1>7, <3>1, <3>2
  <2> QED BY <2>1 DEF FiresWhenReached
<1>14. /\ \A t \in Created : t \in Waiting' <=> t \in Waiting
       /\ n + 1 \in Waiting' <=> ~due
  BY <1>5, <1>7, <1>8 DEF Waiting
<1>15. n + 1 \notin Waiting /\ Waiting \subseteq Created /\ Waiting' \subseteq Created'
  BY <1>4 DEF Waiting
<1>16. /\ DOMAIN timers = 1..Len(timers) /\ Len(timers) \in Nat
       /\ \A i \in DOMAIN timers : timers[i] \in Waiting /\ timers[i] \in Created
  BY RetainedCreated
<1>17. KeepsWaiting'
  <2>1. \A t \in Waiting' : timer'[t].channel = <<>>
    <3>1. ASSUME NEW t \in Waiting' PROVE timer'[t].channel = <<>>
      <4>1. CASE t \in Created
        BY <1>1, <1>5, <1>14, <4>1 DEF KeepsWaiting
      <4>2. CASE t = n + 1
        BY <1>5, <1>8, <1>14, <4>2
      <4> QED BY <1>7, <1>15, <4>1, <4>2
    <3> QED BY <3>1
  <2>2. CASE due
    <3>1. Waiting' = Waiting /\ timers' = timers
      BY <1>2, <1>7, <1>14, <1>15, <2>2
    <3>2. Pending' = Pending
      BY <3>1 DEF Pending
    <3>3. Cardinality(Waiting') = Cardinality(Waiting)
      BY <3>1
    <3> QED BY <1>1, <1>5, <1>16, <2>1, <3>1, <3>2, <3>3 DEF KeepsWaiting
  <2>3. CASE ~due
    <3>1. timers' = Append(timers, n + 1)
      BY <1>2, <2>3
    <3>2. /\ Len(timers') = Len(timers) + 1 /\ DOMAIN timers' = 1..(Len(timers) + 1)
          /\ \A i \in DOMAIN timers : timers'[i] = timers[i]
          /\ timers'[Len(timers) + 1] = n + 1
      <4>1. timers \in Seq(Int) /\ n + 1 \in Int
        BY <1>1, <1>4 DEF ClockTypes
      <4> QED BY <1>16, <3>1, <4>1, AppendProperties
    <3>3. Waiting' = Waiting \cup {n + 1}
      BY <1>7, <1>14, <1>15, <2>3
    <3>4. Pending' = Pending \cup {n + 1}
      BY <1>16, <3>2 DEF Pending
    <3>5. Len(timers') = Cardinality(Waiting')
      <4>1. IsFiniteSet(Waiting) /\ Cardinality(Waiting) = Len(timers)
        BY <1>1, WaitingFinite DEF KeepsWaiting
      <4>2. Cardinality(Waiting \cup {n + 1}) = Cardinality(Waiting) + 1
        BY <1>15, <4>1, FS_AddElement
      <4>3. Cardinality(Waiting') = Cardinality(Waiting \cup {n + 1})
        BY <3>3
      <4> QED BY <3>2, <4>1, <4>2, <4>3
    <3>6. ASSUME NEW i \in DOMAIN timers', NEW j \in DOMAIN timers', i < j
          PROVE  /\ timers'[i] # timers'[j]
                 /\ timer'[timers'[i]].deadline = timer'[timers'[j]].deadline
                      => timers'[i] < timers'[j]
      <4>1. i \in DOMAIN timers
        BY <1>16, <3>2, <3>6
      <4>2. timers'[i] = timers[i] /\ timers[i] \in Created
        BY <1>16, <3>2, <4>1
      <4>3. CASE j \in DOMAIN timers
        <5>1. timers'[j] = timers[j] /\ timers[j] \in Created
          BY <1>16, <3>2, <4>3
        <5>2. timer'[timers[i]] = timer[timers[i]] /\ timer'[timers[j]] = timer[timers[j]]
          BY <1>5, <4>2, <5>1
        <5> QED BY <1>1, <3>6, <4>1, <4>2, <4>3, <5>1, <5>2 DEF KeepsWaiting
      <4>4. CASE j = Len(timers) + 1
        <5>1. timers'[j] = n + 1
          BY <3>2, <4>4
        <5> QED BY <1>4, <4>2, <5>1
      <4> QED BY <1>16, <3>2, <4>3, <4>4
    <3>7. Pending' = Waiting'
      BY <1>1, <3>3, <3>4 DEF KeepsWaiting
    <3> QED BY <2>1, <3>5, <3>6, <3>7 DEF KeepsWaiting
  <2> QED BY <2>2, <2>3
<1> QED BY <1>11, <1>12, <1>13, <1>17 DEF ClockInv

\* What Stop and Receive do to one timer.
LEMMA OneTimer ==
  ASSUME ClockTypes, NEW t \in Created, NEW r \in TimerRecord,
         timer' = [timer EXCEPT ![t] = r]
  PROVE  /\ timer' \in Seq(TimerRecord) /\ Len(timer') = Len(timer) /\ Created' = Created
         /\ timer'[t] = r /\ \A u \in Created : u # t => timer'[u] = timer[u]
<1>1. timer \in Seq(TimerRecord) /\ t \in 1..Len(timer) /\ Created = 1..Len(timer)
  BY TimerType DEF ClockTypes
<1>2. timer' \in Seq(TimerRecord) /\ Len(timer') = Len(timer)
  BY <1>1, ExceptSeq
<1>3. timer'[t] = r /\ \A u \in Created : u # t => timer'[u] = timer[u]
  BY <1>1
<1> QED BY <1>2, <1>3 DEF Created

\* Stop removes the timer from the clock.
LEMMA StopKeeps ==
  ASSUME ClockInv, NEW t \in Created, Stop(t)
  PROVE  ClockInv'
<1> DEFINE r == [timer[t] EXCEPT !.stopped = TRUE]
<1>1. ClockTypes /\ KeepsWaiting /\ FiresWhenReached
  BY DEF ClockInv
<1>2. /\ ~timer[t].stopped /\ ~timer[t].fired /\ timer' = [timer EXCEPT ![t] = r]
      /\ timers' = Removed(timers, t) /\ UNCHANGED <<now, advancing, order, latest>>
  BY DEF Stop
<1>3. /\ r \in TimerRecord /\ r.deadline = timer[t].deadline /\ r.stopped = TRUE
      /\ r.fired = timer[t].fired /\ r.channel = timer[t].channel
  BY <1>1, TimerType DEF TimerRecord
<1> HIDE DEF r
<1>4. /\ timer' \in Seq(TimerRecord) /\ Len(timer') = Len(timer) /\ Created' = Created
      /\ timer'[t] = r /\ \A u \in Created : u # t => timer'[u] = timer[u]
  BY <1>1, <1>2, <1>3, OneTimer
<1>5. t \in Waiting /\ Waiting' = Waiting \ {t}
  BY <1>2, <1>3, <1>4 DEF Waiting
<1>6. /\ DOMAIN timers = 1..Len(timers) /\ Len(timers) \in Nat
      /\ \A i \in DOMAIN timers : timers[i] \in Waiting /\ timers[i] \in Created
  BY RetainedCreated
<1>7. /\ timers' \in Seq(Int) /\ Len(timers') = Len(timers) - 1
      /\ Pending' = Pending \ {t} /\ KeepsOrder(timers', timers)
  <2>1. timers \in Seq(Int) /\ t \in {timers[i] : i \in DOMAIN timers}
    BY <1>1, <1>5 DEF ClockTypes, KeepsWaiting, Pending
  <2>2. \A i, j \in DOMAIN timers : i < j => timers[i] # timers[j]
    BY <1>1 DEF KeepsWaiting
  <2>3. /\ Removed(timers, t) \in Seq(Int) /\ Len(Removed(timers, t)) = Len(timers) - 1
        /\ {Removed(timers, t)[i] : i \in DOMAIN Removed(timers, t)}
             = {timers[i] : i \in DOMAIN timers} \ {t}
        /\ KeepsOrder(Removed(timers, t), timers)
    BY <2>1, <2>2, RemovedIs
  <2>4. Pending' = Pending \ {t}
    BY <1>2, <2>3 DEF Pending
  <2> QED BY <1>2, <2>3, <2>4
<1>8. ClockTypes'
  BY <1>1, <1>2, <1>4, <1>7 DEF ClockTypes
<1>9. \A u \in Created : timer'[u].deadline = timer[u].deadline /\ timer'[u].channel = timer[u].channel
  BY <1>3, <1>4
<1>10. OrderOfCreated' /\ NotifiesInOrder'
  BY <1>2, <1>4, <1>9, OrderKept
<1>11. timer[t].channel = <<>>
  BY <1>1, <1>5 DEF KeepsWaiting
<1>12. FiresWhenReached'
  <2>1. ASSUME NEW u \in Created
        PROVE  IF timer'[u].stopped THEN ~timer'[u].fired /\ timer'[u].channel = <<>>
               ELSE timer'[u].fired <=> latest'[u] >= timer'[u].deadline
    <3>1. CASE u = t
      BY <1>2, <1>3, <1>4, <1>11, <3>1
    <3>2. CASE u # t
      BY <1>1, <1>2, <1>4, <3>2 DEF FiresWhenReached
    <3> QED BY <3>1, <3>2
  <2> QED BY <1>4, <2>1 DEF FiresWhenReached
<1>13. KeepsWaiting'
  <2>1. Pending' = Waiting'
    BY <1>1, <1>5, <1>7 DEF KeepsWaiting
  <2>2. Len(timers') = Cardinality(Waiting')
    <3>1. IsFiniteSet(Waiting) /\ Cardinality(Waiting) = Len(timers)
      BY <1>1, WaitingFinite DEF KeepsWaiting
    <3>2. Cardinality(Waiting \ {t}) = Cardinality(Waiting) - 1
      BY <1>5, <3>1, FS_RemoveElement
    <3>3. Cardinality(Waiting') = Cardinality(Waiting \ {t})
      BY <1>5
    <3> QED BY <1>7, <3>1, <3>2, <3>3
  <2>3. \A u \in Waiting' : timer'[u].channel = <<>>
    BY <1>1, <1>4, <1>5 DEF KeepsWaiting, Waiting
  <2>4. ASSUME NEW i \in DOMAIN timers', NEW j \in DOMAIN timers', i < j
        PROVE  /\ timers'[i] # timers'[j]
               /\ timer'[timers'[i]].deadline = timer'[timers'[j]].deadline
                    => timers'[i] < timers'[j]
    <3>1. PICK k \in DOMAIN timers, l \in DOMAIN timers :
            k < l /\ timers'[i] = timers[k] /\ timers'[j] = timers[l]
      BY <1>7, <2>4 DEF KeepsOrder
    <3>2. /\ timer'[timers[k]].deadline = timer[timers[k]].deadline
          /\ timer'[timers[l]].deadline = timer[timers[l]].deadline
      BY <1>6, <1>9
    <3> QED BY <1>1, <3>1, <3>2 DEF KeepsWaiting
  <2> QED BY <2>1, <2>2, <2>3, <2>4 DEF KeepsWaiting
<1> QED BY <1>8, <1>10, <1>12, <1>13 DEF ClockInv

\* A notification that is taken changes nothing else.
LEMMA ReceiveKeeps ==
  ASSUME ClockInv, NEW t \in Created, Receive(t)
  PROVE  ClockInv'
<1> DEFINE r == [timer[t] EXCEPT !.channel = Tail(@)]
<1>1. ClockTypes /\ KeepsWaiting /\ FiresWhenReached
  BY DEF ClockInv
<1>2. /\ timer[t].channel # <<>> /\ timer' = [timer EXCEPT ![t] = r]
      /\ UNCHANGED <<now, timers, advancing, order, latest>>
  BY DEF Receive
<1>3. /\ r \in TimerRecord /\ r.deadline = timer[t].deadline
      /\ r.stopped = timer[t].stopped /\ r.fired = timer[t].fired
  <2>1. timer[t] \in TimerRecord /\ Tail(timer[t].channel) \in Seq(Int)
    BY <1>1, <1>2, TimerType, HeadTailProperties
  <2> QED BY <2>1 DEF TimerRecord
<1> HIDE DEF r
<1>4. /\ timer' \in Seq(TimerRecord) /\ Len(timer') = Len(timer) /\ Created' = Created
      /\ timer'[t] = r /\ \A u \in Created : u # t => timer'[u] = timer[u]
  BY <1>1, <1>2, <1>3, OneTimer
<1>5. \A u \in Created : /\ timer'[u].deadline = timer[u].deadline
                         /\ timer'[u].fired = timer[u].fired
                         /\ timer'[u].stopped = timer[u].stopped
  BY <1>3, <1>4
<1>6. Waiting' = Waiting /\ Pending' = Pending
  <2>1. Waiting' = Waiting
    BY <1>4, <1>5 DEF Waiting
  <2>2. Pending' = Pending
    BY <1>2 DEF Pending
  <2> QED BY <2>1, <2>2
<1>7. t \notin Waiting /\ ~timer[t].stopped
  BY <1>1, <1>2 DEF KeepsWaiting, FiresWhenReached
<1>8. ClockTypes'
  BY <1>1, <1>2, <1>4 DEF ClockTypes
<1>9. OrderOfCreated' /\ NotifiesInOrder'
  BY <1>2, <1>4, <1>5, OrderKept
<1>10. FiresWhenReached'
  <2>1. ASSUME NEW u \in Created
        PROVE  IF timer'[u].stopped THEN ~timer'[u].fired /\ timer'[u].channel = <<>>
               ELSE timer'[u].fired <=> latest'[u] >= timer'[u].deadline
    <3>1. CASE u = t
      BY <1>1, <1>2, <1>5, <1>7, <3>1 DEF FiresWhenReached
    <3>2. CASE u # t
      BY <1>1, <1>2, <1>4, <3>2 DEF FiresWhenReached
    <3> QED BY <3>1, <3>2
  <2> QED BY <1>4, <2>1 DEF FiresWhenReached
<1>11. KeepsWaiting'
  <2>1. Pending' = Waiting'
    BY <1>1, <1>6 DEF KeepsWaiting
  <2>2. Len(timers') = Cardinality(Waiting')
    <3>1. Cardinality(Waiting') = Cardinality(Waiting)
      BY <1>6
    <3> QED BY <1>1, <1>2, <3>1 DEF KeepsWaiting
  <2>3. \A u \in Waiting' : timer'[u].channel = <<>>
    BY <1>1, <1>4, <1>6, <1>7 DEF KeepsWaiting, Waiting
  <2>4. ASSUME NEW i \in DOMAIN timers, NEW j \in DOMAIN timers, i < j
        PROVE  /\ timers[i] # timers[j]
               /\ timer'[timers[i]].deadline = timer'[timers[j]].deadline
                    => timers[i] < timers[j]
    <3>1. /\ timer'[timers[i]].deadline = timer[timers[i]].deadline
          /\ timer'[timers[j]].deadline = timer[timers[j]].deadline
      BY <1>5, RetainedCreated
    <3> QED BY <1>1, <2>4, <3>1 DEF KeepsWaiting
  <2> QED BY <1>2, <2>1, <2>2, <2>3, <2>4 DEF KeepsWaiting
<1> QED BY <1>8, <1>9, <1>10, <1>11 DEF ClockInv

\* Timers of equal deadline are sorted as they were created.
LEMMA SortsByCreation ==
  ASSUME ClockInv, NEW t \in Created, NEW u \in Created, SortsBefore(t, u)
  PROVE  /\ t # u
         /\ \/ timer[t].deadline < timer[u].deadline
            \/ timer[t].deadline = timer[u].deadline /\ t < u
<1>1. KeepsWaiting /\ ClockTypes
  BY DEF ClockInv
<1>2. CASE timer[t].deadline < timer[u].deadline
  <2>1. t = u => FALSE
    BY <1>1, <1>2, TimerType
  <2> QED BY <1>2, <2>1
<1>3. ASSUME timer[t].deadline = timer[u].deadline,
             NEW i \in DOMAIN timers, NEW j \in DOMAIN timers,
             i < j, timers[i] = t, timers[j] = u
      PROVE  t # u /\ t < u
  BY <1>1, <1>3 DEF KeepsWaiting
<1> QED BY <1>2, <1>3 DEF SortsBefore

\* A sorted slice of n elements, written out.
LEMMA SortedWhat ==
  ASSUME NEW S, NEW n \in Nat, Cardinality(S) = n, NEW s
  PROVE  s \in Sorted(S) <=> /\ s \in [1..n -> S]
                             /\ \A t \in S : \E i \in 1..n : s[i] = t
                             /\ \A i, j \in 1..n : i < j => SortsBefore(s[i], s[j])
<1>1. s \in [1..n -> S] => DOMAIN s = 1..n
  BY Zenon
<1>2. Sorted(S) = {f \in [1..n -> S] :
                     /\ \A t \in S : \E i \in DOMAIN f : f[i] = t
                     /\ \A i, j \in DOMAIN f : i < j => SortsBefore(f[i], f[j])}
  BY Zenon DEF Sorted
<1> QED BY <1>1, <1>2, Zenon

\* Among the pending timers it is the order by deadline and creation.
LEMMA SortsAsCreated ==
  ASSUME ClockInv, NEW t \in Pending, NEW u \in Pending
  PROVE  /\ t \in Created /\ u \in Created /\ t \in Int /\ u \in Int
         /\ timer[t].deadline \in Int /\ timer[u].deadline \in Int
         /\ SortsBefore(t, u) <=> \/ timer[t].deadline < timer[u].deadline
                                  \/ timer[t].deadline = timer[u].deadline /\ t < u
<1>1. KeepsWaiting /\ ClockTypes
  BY DEF ClockInv
<1>2. t \in Created /\ u \in Created
  BY <1>1 DEF KeepsWaiting, Waiting
<1>3. t \in Int /\ u \in Int /\ timer[t].deadline \in Int /\ timer[u].deadline \in Int
  BY <1>1, <1>2, TimerType
<1>4. ASSUME timer[t].deadline = timer[u].deadline, t < u
      PROVE  SortsBefore(t, u)
  <2>1. PICK i \in DOMAIN timers : timers[i] = t
    BY DEF Pending
  <2>2. PICK j \in DOMAIN timers : timers[j] = u
    BY DEF Pending
  <2>3. i \in Int /\ j \in Int
    BY <1>1, <2>1, <2>2 DEF ClockTypes
  <2>4. ~(j < i) /\ i # j
    BY <1>1, <1>3, <1>4, <2>1, <2>2, <2>3 DEF KeepsWaiting
  <2>5. i < j
    BY <2>3, <2>4
  <2> QED BY <1>4, <2>1, <2>2, <2>5 DEF SortsBefore
<1>5. timer[t].deadline < timer[u].deadline => SortsBefore(t, u)
  BY DEF SortsBefore
<1> QED BY <1>2, <1>3, <1>4, <1>5, SortsByCreation

\* It is total and transitive there.
LEMMA SortsTotally ==
  ASSUME ClockInv, NEW t \in Pending, NEW u \in Pending, NEW v \in Pending
  PROVE  /\ t # u => SortsBefore(t, u) \/ SortsBefore(u, t)
         /\ SortsBefore(t, u) /\ SortsBefore(u, v) => SortsBefore(t, v)
<1>1. /\ t \in Int /\ u \in Int /\ v \in Int
      /\ timer[t].deadline \in Int /\ timer[u].deadline \in Int /\ timer[v].deadline \in Int
  BY SortsAsCreated
<1> DEFINE Before(x, y) == \/ timer[x].deadline < timer[y].deadline
                           \/ timer[x].deadline = timer[y].deadline /\ x < y
<1>2. /\ SortsBefore(t, u) <=> Before(t, u)
      /\ SortsBefore(u, t) <=> Before(u, t)
      /\ SortsBefore(u, v) <=> Before(u, v)
      /\ SortsBefore(t, v) <=> Before(t, v)
  BY SortsAsCreated
<1>3. /\ t # u => Before(t, u) \/ Before(u, t)
      /\ Before(t, u) /\ Before(u, v) => Before(t, v)
  BY <1>1
<1> QED BY <1>2, <1>3

\* So one of any number of pending timers comes last.
LEMMA LastToFire ==
  ASSUME ClockInv, NEW S \in SUBSET Pending, IsFiniteSet(S), S # {}
  PROVE  \E l \in S : \A u \in S \ {l} : SortsBefore(u, l)
<1> DEFINE HasLast(T) == \E l \in T : \A u \in T \ {l} : SortsBefore(u, l)
           Sizes == {n \in Nat : \A T \in SUBSET Pending :
                                   IsFiniteSet(T) /\ Cardinality(T) = n + 1 => HasLast(T)}
<1>1. 0 \in Sizes
  <2>1. ASSUME NEW T \in SUBSET Pending, IsFiniteSet(T), Cardinality(T) = 1
        PROVE  HasLast(T)
    <3>1. PICK l : T = {l}
      BY <2>1, FS_Singleton
    <3> QED BY <3>1
  <2> HIDE DEF HasLast
  <2> QED BY <2>1
<1>2. ASSUME NEW n \in Sizes
      PROVE  n + 1 \in Sizes
  <2>1. n \in Nat /\ \A T \in SUBSET Pending :
                       IsFiniteSet(T) /\ Cardinality(T) = n + 1 => HasLast(T)
    BY <1>2
  <2>2. ASSUME NEW T \in SUBSET Pending, IsFiniteSet(T), Cardinality(T) = n + 1 + 1
        PROVE  HasLast(T)
    <3>1. PICK x \in T : TRUE
      BY <2>1, <2>2, FS_EmptySet
    <3>2. /\ IsFiniteSet(T \ {x}) /\ Cardinality(T \ {x}) = Cardinality(T) - 1
      BY <2>2, <3>1, FS_RemoveElement
    <3>3. Cardinality(T \ {x}) = n + 1
      BY <2>1, <2>2, <3>2
    <3>4. HasLast(T \ {x})
      <4> HIDE DEF HasLast
      <4> QED BY <2>1, <3>2, <3>3
    <3>5. PICK l \in T \ {x} : \A u \in (T \ {x}) \ {l} : SortsBefore(u, l)
      BY <3>4
    <3>6. CASE SortsBefore(x, l)
      BY <3>5, <3>6
    <3>7. CASE SortsBefore(l, x)
      <4>1. ASSUME NEW u \in T \ {x}
            PROVE  SortsBefore(u, x)
        BY <3>1, <3>5, <3>7, <4>1, SortsTotally
      <4> QED BY <3>1, <4>1
    <3> QED BY <3>1, <3>5, <3>6, <3>7, SortsTotally
  <2> HIDE DEF HasLast
  <2> QED BY <2>1, <2>2
<1>3. \A n \in Nat : n \in Sizes
  <2> HIDE DEF Sizes
  <2>1. Sizes \in SUBSET Nat
    BY DEF Sizes
  <2> QED BY <1>1, <1>2, <2>1, SetInduction
<1>4. Cardinality(S) - 1 \in Nat /\ Cardinality(S) = (Cardinality(S) - 1) + 1
  BY FS_CardinalityType, FS_EmptySet
<1> QED
  <2> HIDE DEF HasLast
  <2>1. HasLast(S)
    BY <1>3, <1>4
  <2> USE DEF HasLast
  <2> QED BY <2>1

(***************************************************************************)
(* The slice sort.SliceStable leaves in Set exists for any timers of the   *)
(* clock, so that modelling the sort by what it returns excludes nothing.  *)
(***************************************************************************)
THEOREM SortsAlways ==
  ASSUME ClockInv, NEW S \in SUBSET Pending
  PROVE  Sorted(S) # {}
<1> DEFINE Sizes == {n \in Nat : \A T \in SUBSET Pending :
                                   IsFiniteSet(T) /\ Cardinality(T) = n => Sorted(T) # {}}
<1>1. 0 \in Sizes
  <2>1. ASSUME NEW T \in SUBSET Pending, IsFiniteSet(T), Cardinality(T) = 0
        PROVE  Sorted(T) # {}
    <3>1. T = {}
      BY <2>1, FS_EmptySet
    <3>2. Cardinality(T) = 0
      BY <2>1
    <3>3. << >> \in [1..0 -> T]
      OBVIOUS
    <3>4. << >> \in Sorted(T)
      BY <3>1, <3>2, <3>3 DEF Sorted
    <3> QED BY <3>4
  <2> QED BY <2>1
<1>2. ASSUME NEW n \in Sizes
      PROVE  n + 1 \in Sizes
  <2>1. n \in Nat /\ \A T \in SUBSET Pending :
                       IsFiniteSet(T) /\ Cardinality(T) = n => Sorted(T) # {}
    BY <1>2
  <2>2. ASSUME NEW T \in SUBSET Pending, IsFiniteSet(T), Cardinality(T) = n + 1
        PROVE  Sorted(T) # {}
    <3>1. T # {}
      BY <2>1, <2>2, FS_EmptySet
    <3>2. PICK l \in T : \A u \in T \ {l} : SortsBefore(u, l)
      BY <2>2, <3>1, LastToFire
    <3> DEFINE R == T \ {l}
    <3>3. IsFiniteSet(R) /\ Cardinality(R) = n
      <4>1. IsFiniteSet(R) /\ Cardinality(R) = Cardinality(T) - 1
        BY <2>2, <3>2, FS_RemoveElement
      <4> QED BY <2>1, <2>2, <4>1
    <3>4. PICK s : s \in Sorted(R)
      BY <2>1, <3>3
    <3>5. /\ s \in [1..n -> R]
          /\ \A t \in R : \E i \in 1..n : s[i] = t
          /\ \A i, j \in 1..n : i < j => SortsBefore(s[i], s[j])
      <4> HIDE DEF R
      <4> QED BY <3>3, <3>4, SortedWhat
    <3> DEFINE w == [i \in 1..(n + 1) |-> IF i = n + 1 THEN l ELSE s[i]]
    <3>6. /\ w \in [1..(n + 1) -> T] /\ DOMAIN w = 1..(n + 1)
          /\ w[n + 1] = l /\ \A i \in 1..n : w[i] = s[i] /\ s[i] \in R
      BY <2>1, <3>2, <3>5
    <3>7. \A t \in T : \E i \in 1..(n + 1) : w[i] = t
      <4> HIDE DEF w
      <4>1. ASSUME NEW t \in R PROVE \E i \in 1..(n + 1) : w[i] = t
        BY <2>1, <3>5, <3>6
      <4> QED BY <2>1, <3>6, <4>1
    <3>8. \A i, j \in 1..(n + 1) : i < j => SortsBefore(w[i], w[j])
      <4> HIDE DEF w, R
      <4>1. ASSUME NEW i \in 1..(n + 1), NEW j \in 1..(n + 1), i < j
            PROVE  SortsBefore(w[i], w[j])
        <5>1. i \in 1..n /\ (j = n + 1 \/ j \in 1..n)
          BY <2>1, <4>1
        <5>2. CASE j = n + 1
          <6>1. SortsBefore(s[i], l)
            BY <3>2, <3>6, <5>1 DEF R
          <6> QED BY <3>6, <5>1, <5>2, <6>1
        <5>3. CASE j \in 1..n
          BY <3>5, <3>6, <4>1, <5>1, <5>3
        <5> QED BY <5>1, <5>2, <5>3
      <4> QED BY <4>1
    <3>9. w \in Sorted(T)
      <4> HIDE DEF w
      <4> QED BY <2>2, <3>6, <3>7, <3>8, SortedWhat
    <3> QED BY <3>9
  <2> QED BY <2>1, <2>2
<1>3. \A n \in Nat : n \in Sizes
  <2> HIDE DEF Sizes
  <2>1. Sizes \in SUBSET Nat
    BY DEF Sizes
  <2> QED BY <1>1, <1>2, <2>1, SetInduction
<1>4. IsFiniteSet(S) /\ Cardinality(S) \in Nat
  <2>1. IsFiniteSet(Pending)
    BY WaitingFinite DEF ClockInv, KeepsWaiting
  <2> QED BY <2>1, FS_Subset, FS_CardinalityType
<1> QED BY <1>3, <1>4

\* Set fires what is due, in order, and keeps the rest in order.
LEMMA SetKeeps ==
  ASSUME ClockInv, NEW at \in Int, SetLocked(at),
         advancing' \in Advances
  PROVE  ClockInv'
<1> DEFINE due == {t \in Pending : Due(t, at)}
           rest == Pending \ due
           fire(t) == [timer[t] EXCEPT !.fired = TRUE, !.channel = Append(@, timer[t].deadline)]
<1>1. ClockTypes /\ KeepsWaiting /\ FiresWhenReached
  BY DEF ClockInv
<1>2. /\ now' = at /\ order' \in Sorted(due) /\ timers' \in Sorted(rest)
      /\ timer' = [t \in Created |-> IF t \in due THEN fire(t) ELSE timer[t]]
      /\ latest' = [t \in Created |-> Later(latest[t], at)]
  BY DEF SetLocked
<1>3. /\ Created = 1..Len(timer) /\ Len(timer) \in Nat
      /\ \A t \in Created : /\ t \in Int /\ latest[t] \in Int /\ timer[t] \in TimerRecord
                            /\ timer[t].deadline \in Int /\ timer[t].channel \in Seq(Int)
  BY <1>1, TimerType
<1>4. Pending = Waiting /\ Waiting \subseteq Created
  BY <1>1 DEF KeepsWaiting, Waiting
<1>5. due \subseteq Created /\ rest \subseteq Created /\ due \subseteq Waiting
  BY <1>4
<1>6. \A t \in due : timer[t].deadline <= at
  BY DEF Due
<1>7. \A t \in rest : ~(timer[t].deadline <= at)
  BY DEF Due
<1>8. due \in SUBSET Int /\ rest \in SUBSET Int /\ IsFiniteSet(due) /\ IsFiniteSet(rest)
  <2>1. IsFiniteSet(Pending)
    BY <1>1, <1>4, WaitingFinite
  <2>2. due \in SUBSET Pending /\ rest \in SUBSET Pending
    OBVIOUS
  <2>3. IsFiniteSet(due) /\ IsFiniteSet(rest)
    <3> HIDE DEF due, rest
    <3> QED BY <2>1, <2>2, FS_Subset
  <2>4. due \in SUBSET Int /\ rest \in SUBSET Int
    BY <1>3, <1>5
  <2> QED BY <2>3, <2>4
<1>9. ASSUME NEW t \in Created
      PROVE  /\ fire(t) \in TimerRecord /\ fire(t).deadline = timer[t].deadline
             /\ fire(t).stopped = timer[t].stopped /\ fire(t).fired = TRUE
  <2>1. Append(timer[t].channel, timer[t].deadline) \in Seq(Int)
    BY <1>3, AppendProperties
  <2> QED BY <1>3, <2>1 DEF TimerRecord
<1>10. \A t \in Created : timer'[t] = IF t \in due THEN fire(t) ELSE timer[t]
  BY <1>2
<1>11. \A t \in Created : latest'[t] = Later(latest[t], at)
  BY <1>2
<1> HIDE DEF fire
<1>12. timer' \in Seq(TimerRecord) /\ Len(timer') = Len(timer) /\ Created' = Created
  <2>1. timer' \in [1..Len(timer) -> TimerRecord]
    BY <1>2, <1>3, <1>9
  <2>2. timer' \in Seq(TimerRecord) /\ Len(timer') = Len(timer)
    BY <1>3, <2>1, SeqOf
  <2> QED BY <2>2 DEF Created
<1>13. latest' \in Seq(Int) /\ Len(latest') = Len(timer)
  <2>1. latest' \in [1..Len(timer) -> Int]
    BY <1>2, <1>3 DEF Later
  <2> QED BY <1>3, <2>1, SeqOf
<1> HIDE DEF due, rest
<1>14. /\ order' \in Seq(Int) /\ {order'[i] : i \in DOMAIN order'} = due
       /\ \A i, j \in DOMAIN order' : i < j => SortsBefore(order'[i], order'[j])
  BY <1>2, <1>8, SortedIs
<1>15. /\ timers' \in Seq(Int) /\ Len(timers') = Cardinality(rest)
       /\ {timers'[i] : i \in DOMAIN timers'} = rest
       /\ \A i, j \in DOMAIN timers' : i < j => SortsBefore(timers'[i], timers'[j])
  BY <1>2, <1>8, SortedIs
<1>16. ClockTypes'
  BY <1>2, <1>12, <1>13, <1>14, <1>15 DEF ClockTypes
<1>17. \A t \in Created : timer'[t].deadline = timer[t].deadline
  BY <1>9, <1>10
<1>18. OrderOfCreated'
  BY <1>5, <1>12, <1>14 DEF OrderOfCreated
<1>19. NotifiesInOrder'
  <2>1. ASSUME NEW i \in DOMAIN order', NEW j \in DOMAIN order', i < j
        PROVE  \/ timer'[order'[i]].deadline < timer'[order'[j]].deadline
               \/ /\ timer'[order'[i]].deadline = timer'[order'[j]].deadline
                  /\ order'[i] < order'[j]
    <3>1. SortsBefore(order'[i], order'[j])
      BY <1>14, <2>1
    <3>2. order'[i] \in Created /\ order'[j] \in Created
      BY <1>5, <1>14
    <3>3. PICK t \in Created, u \in Created : t = order'[i] /\ u = order'[j]
      BY <3>2
    <3>4. \/ timer[t].deadline < timer[u].deadline
          \/ timer[t].deadline = timer[u].deadline /\ t < u
      BY <3>1, <3>3, SortsByCreation
    <3> QED BY <1>17, <3>3, <3>4
  <2> QED BY <2>1 DEF NotifiesInOrder
<1>20. ASSUME NEW t \in Created
       PROVE  IF timer'[t].stopped THEN ~timer'[t].fired /\ timer'[t].channel = <<>>
              ELSE timer'[t].fired <=> latest'[t] >= timer'[t].deadline
  <2>1. IF timer[t].stopped THEN ~timer[t].fired /\ timer[t].channel = <<>>
        ELSE timer[t].fired <=> latest[t] >= timer[t].deadline
    BY <1>1 DEF FiresWhenReached
  <2>2. CASE t \in due
    <3>1. ~timer[t].stopped /\ timer[t].deadline <= at
      BY <1>5, <1>6, <2>2 DEF Waiting
    <3>2. timer'[t] = fire(t) /\ latest'[t] = Later(latest[t], at)
      BY <1>10, <1>11, <2>2
    <3>3. ~timer'[t].stopped /\ timer'[t].fired /\ timer'[t].deadline = timer[t].deadline
      BY <1>9, <3>1, <3>2
    <3>4. latest'[t] >= timer'[t].deadline
      BY <1>3, <3>1, <3>2, <3>3 DEF Later
    <3> QED BY <3>3, <3>4
  <2>3. CASE t \in rest
    <3>1. ~timer[t].stopped /\ ~timer[t].fired /\ ~(timer[t].deadline <= at)
      BY <1>4, <1>7, <2>3 DEF rest, Waiting
    <3>2. timer'[t] = timer[t] /\ latest'[t] = Later(latest[t], at)
      BY <1>10, <1>11, <2>3 DEF rest
    <3>3. ~(latest'[t] >= timer'[t].deadline)
      BY <1>3, <2>1, <3>1, <3>2 DEF Later
    <3> QED BY <3>1, <3>2, <3>3
  <2>4. CASE t \notin Waiting
    <3>1. timer[t].stopped \/ timer[t].fired
      BY <2>4 DEF Waiting
    <3>2. timer'[t] = timer[t] /\ latest'[t] = Later(latest[t], at)
      BY <1>5, <1>10, <1>11, <2>4
    <3>3. CASE timer[t].stopped
      BY <2>1, <3>2, <3>3
    <3>4. CASE ~timer[t].stopped
      <4>1. timer[t].fired /\ latest[t] >= timer[t].deadline
        BY <2>1, <3>1, <3>4
      <4>2. latest'[t] >= timer'[t].deadline
        BY <1>3, <3>2, <4>1 DEF Later
      <4> QED BY <3>2, <3>4, <4>1, <4>2
    <3> QED BY <3>3, <3>4
  <2> QED BY <1>4, <2>2, <2>3, <2>4 DEF rest
<1>21. FiresWhenReached'
  BY <1>12, <1>20 DEF FiresWhenReached
<1>22. Waiting' = rest
  <2>1. \A t \in due : t \notin Waiting'
    BY <1>5, <1>9, <1>10 DEF Waiting
  <2>2. \A t \in Created : t \notin due => (t \in Waiting' <=> t \in Waiting)
    BY <1>10, <1>12 DEF Waiting
  <2>3. Waiting' \subseteq Created
    BY <1>12 DEF Waiting
  <2> QED BY <1>4, <2>1, <2>2, <2>3 DEF rest
<1>23. KeepsWaiting'
  <2>1. Pending' = Waiting'
    BY <1>15, <1>22 DEF Pending
  <2>2. Len(timers') = Cardinality(Waiting')
    <3>1. Cardinality(Waiting') = Cardinality(rest)
      BY <1>22
    <3> QED BY <1>15, <3>1
  <2>3. \A t \in Waiting' : timer'[t].channel = <<>>
    <3>1. ASSUME NEW t \in rest PROVE timer'[t].channel = <<>>
      <4>1. t \in Waiting /\ t \in Created /\ t \notin due
        BY <1>4, <1>5 DEF rest
      <4> QED BY <1>1, <1>10, <4>1 DEF KeepsWaiting
    <3> QED BY <1>22, <3>1
  <2>4. ASSUME NEW i \in DOMAIN timers', NEW j \in DOMAIN timers', i < j
        PROVE  /\ timers'[i] # timers'[j]
               /\ timer'[timers'[i]].deadline = timer'[timers'[j]].deadline
                    => timers'[i] < timers'[j]
    <3>1. SortsBefore(timers'[i], timers'[j])
      BY <1>15, <2>4
    <3>2. timers'[i] \in Created /\ timers'[j] \in Created
      BY <1>5, <1>15
    <3>3. PICK t \in Created, u \in Created : t = timers'[i] /\ u = timers'[j]
      BY <3>2
    <3>4. /\ t # u
          /\ \/ timer[t].deadline < timer[u].deadline
             \/ timer[t].deadline = timer[u].deadline /\ t < u
      BY <3>1, <3>3, SortsByCreation
    <3> QED BY <1>3, <1>17, <3>3, <3>4
  <2> QED BY <2>1, <2>2, <2>3, <2>4 DEF KeepsWaiting
<1> QED BY <1>16, <1>18, <1>19, <1>21, <1>23 DEF ClockInv

\* A step that touches no timer keeps everything.
LEMMA SameTimers ==
  ASSUME ClockInv, UNCHANGED <<now, timers, timer, order, latest>>, advancing' \in Advances
  PROVE  ClockInv'
<1>1. Created' = Created
  BY DEF Created
<1>2. Waiting' = Waiting
  BY <1>1 DEF Waiting
<1>3. Pending' = Pending
  BY DEF Pending
<1>4. ClockTypes'
  BY DEF ClockInv, ClockTypes
<1>5. KeepsWaiting'
  BY <1>2, <1>3 DEF ClockInv, KeepsWaiting
<1>6. FiresWhenReached'
  BY <1>1 DEF ClockInv, FiresWhenReached
<1>7. OrderOfCreated' /\ NotifiesInOrder'
  BY <1>1 DEF ClockInv, OrderOfCreated, NotifiesInOrder
<1> QED BY <1>4, <1>5, <1>6, <1>7 DEF ClockInv

\* The invariant holds throughout.
LEMMA ClockInvAlways == Spec => []ClockInv
<1>1. Init => ClockInv
  <2> SUFFICES ASSUME Init PROVE ClockInv
    OBVIOUS
  <2>1. ClockTypes
    BY ManualClockAssumption DEF Init, ClockTypes, Advances, Idle
  <2>2. Created = {}
    BY DEF Init, Created
  <2>3. Waiting = {} /\ Pending = {}
    BY <2>2 DEF Init, Waiting, Pending
  <2>4. KeepsWaiting
    <3>1. Cardinality(Waiting) = 0
      BY <2>3, FS_EmptySet
    <3> QED BY <2>3, <3>1 DEF Init, KeepsWaiting
  <2> QED BY <2>1, <2>2, <2>4 DEF Init, ClockInv, FiresWhenReached, OrderOfCreated, NotifiesInOrder
<1>2. ClockInv /\ [Next]_vars => ClockInv'
  <2> SUFFICES ASSUME ClockInv, [Next]_vars PROVE ClockInv'
    OBVIOUS
  <2>1. /\ Instant \subseteq Int /\ Duration \subseteq Int /\ now \in Int
        /\ advancing \in Advances
    BY ManualClockAssumption DEF Duration, ClockInv, ClockTypes
  <2>2. ASSUME NEW d \in Duration, NewTimer(d) PROVE ClockInv'
    BY <2>1, <2>2, NewTimerKeeps
  <2>3. ASSUME NEW at \in Instant, Set(at) PROVE ClockInv'
    <3>1. SetLocked(at) /\ advancing' \in Advances
      BY <2>1, <2>3 DEF Set
    <3> QED BY <2>1, <3>1, SetKeeps
  <2>4. ASSUME NEW c \in Client, NEW d \in Duration, AdvanceReads(c, d) PROVE ClockInv'
    <3>1. /\ advancing' = [advancing EXCEPT ![c] = [pending |-> TRUE, at |-> now + d]]
          /\ UNCHANGED <<now, timers, timer, order, latest>>
      BY <2>4 DEF AdvanceReads
    <3>2. advancing' \in Advances
      BY <2>1, <3>1 DEF Advances
    <3> QED BY <3>1, <3>2, SameTimers
  <2>5. ASSUME NEW c \in Client, AdvanceSets(c) PROVE ClockInv'
    <3>1. SetLocked(advancing[c].at) /\ advancing' = [advancing EXCEPT ![c] = Idle]
      BY <2>5 DEF AdvanceSets
    <3>2. advancing[c].at \in Int /\ advancing' \in Advances
      BY <2>1, <3>1 DEF Advances, Idle
    <3> QED BY <3>1, <3>2, SetKeeps
  <2>6. ASSUME NEW t \in Created, Stop(t) \/ Receive(t) PROVE ClockInv'
    BY <2>6, StopKeeps, ReceiveKeeps
  <2>7. CASE UNCHANGED vars
    BY <2>1, <2>7, SameTimers DEF vars
  <2> QED BY <2>2, <2>3, <2>4, <2>5, <2>6, <2>7 DEF Next
<1> QED BY <1>1, <1>2, PTL DEF Spec

(***************************************************************************)
(* NewTimer, Set, Advance and Stop, however Advances overwrite each other: *)
(* the clock retains exactly the timers still to fire, each of them once   *)
(* and with room in its channel, and a timer has fired exactly when the    *)
(* clock has shown its deadline.                                           *)
(***************************************************************************)
THEOREM TimersAlwaysExact == Spec => []TimersExact
<1>1. ClockInv => TimersExact
  <2> SUFFICES ASSUME ClockInv PROVE TimersExact
    OBVIOUS
  <2>1. KeepsWaiting /\ FiresWhenReached
    BY DEF ClockInv
  <2>2. ActiveTimers = Cardinality(Waiting)
    <3>1. /\ DOMAIN timers = 1..Len(timers) /\ Len(timers) \in Nat
          /\ \A i \in DOMAIN timers : timers[i] \in Waiting
      BY RetainedCreated
    <3>2. {i \in DOMAIN timers : ~timer[timers[i]].stopped} = 1..Len(timers)
      BY <3>1 DEF Waiting
    <3>3. Cardinality(1..Len(timers)) = Len(timers)
      BY <3>1, FS_Interval
    <3>4. ActiveTimers = Cardinality(1..Len(timers))
      BY <3>2 DEF ActiveTimers
    <3> QED BY <2>1, <3>3, <3>4 DEF KeepsWaiting
  <2>3. Retained
    BY <2>1, <2>2 DEF Retained, KeepsWaiting, Waiting
  <2> QED BY <2>1, <2>3 DEF TimersExact
<1> QED BY <1>1, ClockInvAlways, PTL

(***************************************************************************)
(* Set enqueues notifications by deadline, and those of equal deadline in  *)
(* the order of registration, as its documentation promises, however often *)
(* the clock was sorted and whichever timers were stopped before.          *)
(***************************************************************************)
THEOREM NotifiesAlwaysInOrder == Spec => []NotifiesInOrder
<1>1. ClockInv => NotifiesInOrder
  BY DEF ClockInv
<1> QED BY <1>1, ClockInvAlways, PTL

=============================================================================
