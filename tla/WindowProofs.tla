--------------------------- MODULE WindowProofs ----------------------------
(***************************************************************************)
(* Proofs about the two rolling windows, for a ring of any size, and about *)
(* New, which builds one from a Config.  The count window retains the last *)
(* WindowSize classified records in order, wherever its ring has wrapped   *)
(* around, and its running aggregate never drifts from them.  A snapshot   *)
(* of the time window counts exactly the completions of the last           *)
(* BucketCount buckets.  A Config New accepts fits every other module, and *)
(* the field it names when it refuses one is the field to change.          *)
(***************************************************************************)
EXTENDS CountWindowSpec, TimeWindowSpec, Config, Induction, FunctionTheorems,
        SequenceTheorems

\* The records a ring slot can hold.
Classified == {r \in Record : r.Class # Ignored}

\* Until the ring is full it fills from slot 0; an ignored record is in no slot.
Ring ==
  /\ w \in CountWindows(WindowSize)
  /\ w.length < WindowSize => w.next = w.length
  /\ \A k \in 0..(WindowSize - 1) : w.records[k] \in Classified

-----------------------------------------------------------------------------
(* The ring *)

\* What the remainder does to an index that is at most one turn off.
LEMMA Wrap ==
  ASSUME NEW n \in Nat \ {0}, NEW k \in 0..(n - 1)
  PROVE  k % n = k /\ (k + n) % n = k /\ (k - n) % n = k
OBVIOUS

\* The slot that follows the k-th.
LEMMA NextSlot ==
  ASSUME NEW n \in Nat \ {0}, NEW k \in 0..(n - 1)
  PROVE  (k + 1) % n = IF k + 1 = n THEN 0 ELSE k + 1
<1>1. CASE k + 1 = n
  <2>1. (0 + n) % n = 0
    BY Wrap
  <2> QED BY <1>1, <2>1
<1>2. CASE k + 1 # n
  BY <1>2, Wrap
<1> QED BY <1>1, <1>2

\* Where the ring keeps the i-th oldest record: counted from slot 0 while the ring
\* fills, from the next slot on, and around, when it is full.
Slot(next, length, i) ==
  IF length < WindowSize THEN i - 1
  ELSE IF next + i - 1 < WindowSize THEN next + i - 1 ELSE next + i - 1 - WindowSize

\* Recent looks into that slot.
LEMMA SlotOf ==
  ASSUME NEW next \in 0..(WindowSize - 1), NEW length \in 0..WindowSize, NEW i \in 1..length,
         length < WindowSize => next = length
  PROVE  /\ Slot(next, length, i) \in 0..(WindowSize - 1)
         /\ (next - length + i - 1) % WindowSize = Slot(next, length, i)
<1> USE CountWindowAssumption
<1>1. Slot(next, length, i) \in 0..(WindowSize - 1)
  BY DEF Slot
<1>2. CASE length < WindowSize
  <2>1. next - length + i - 1 = Slot(next, length, i)
    BY <1>2 DEF Slot
  <2> QED BY <1>1, <2>1, Wrap
<1>3. CASE length = WindowSize
  <2>1. \/ next - length + i - 1 = Slot(next, length, i)
        \/ next - length + i - 1 = Slot(next, length, i) - WindowSize
    BY <1>3 DEF Slot
  <2> QED BY <1>1, <2>1, Wrap
<1> QED BY <1>1, <1>2, <1>3

\* The retained records, slot by slot.
RecentInSlots ==
  /\ Recent \in Seq(Classified) /\ Len(Recent) = w.length
  /\ \A i \in 1..w.length : Recent[i] = w.records[Slot(w.next, w.length, i)]

\* All of them are classified, as many as length says.
LEMMA RecentIs == Ring => RecentInSlots
<1> SUFFICES ASSUME Ring PROVE RecentInSlots
  OBVIOUS
<1>1. w.next \in 0..(WindowSize - 1) /\ w.length \in 0..WindowSize
  BY DEF Ring, CountWindows
<1>2. \A i \in 1..w.length :
        /\ Slot(w.next, w.length, i) \in 0..(WindowSize - 1)
        /\ (w.next - w.length + i - 1) % WindowSize = Slot(w.next, w.length, i)
  BY <1>1, SlotOf DEF Ring
<1>3. \A i \in 1..w.length : /\ Recent[i] = w.records[Slot(w.next, w.length, i)]
                             /\ Recent[i] \in Classified
  BY <1>2 DEF Recent, Ring
<1>4. Recent \in [1..w.length -> Classified]
  BY <1>3 DEF Recent
<1>5. w.length \in Nat
  BY <1>1, CountWindowAssumption
<1>6. Recent \in Seq(Classified) /\ Len(Recent) = w.length
  BY <1>4, <1>5
<1> QED BY <1>3, <1>6 DEF RecentInSlots

-----------------------------------------------------------------------------
(* Steps of the ring *)

\* Snapshot.add and Snapshot.remove keep the aggregate an aggregate.
LEMMA AggregateType ==
  ASSUME NEW s \in Aggregate, NEW r \in Record
  PROVE  SnapshotAdd(s, r) \in Aggregate /\ SnapshotRemove(s, r) \in Aggregate
<1>1. \A c : One(c) \in Int
  BY DEF One
<1>2. SnapshotAdd(s, r) \in Aggregate
  BY <1>1 DEF Aggregate, SnapshotAdd
<1>3. SnapshotRemove(s, r) \in Aggregate
  BY <1>1 DEF Aggregate, SnapshotRemove
<1> QED BY <1>2, <1>3

\* What Count.Add does to the ring: an ignored record moves nothing.
LEMMA AddIgnored ==
  ASSUME Ring, NEW r \in Recordable, r.Class = Ignored, Add(r)
  PROVE  /\ w'.records = w.records /\ w'.next = w.next /\ w'.length = w.length
         /\ w'.snapshot = SnapshotAdd(w.snapshot, r)
         /\ Ring'
<1>1. /\ w.records \in [0..(WindowSize - 1) -> Record] /\ w.next \in 0..(WindowSize - 1)
      /\ w.length \in 0..WindowSize /\ w.snapshot \in Aggregate
  BY DEF Ring, CountWindows
<1>2. w' = [w EXCEPT !.snapshot = SnapshotAdd(@, r)]
  BY DEF Add, CountAdd
<1>3. SnapshotAdd(w.snapshot, r) \in Aggregate
  BY <1>1, AggregateType DEF Recordable
<1>4. w \in CountWindows(WindowSize)
  BY DEF Ring
<1>5. /\ w'.records = w.records /\ w'.next = w.next /\ w'.length = w.length
      /\ w'.snapshot = SnapshotAdd(w.snapshot, r)
      /\ w' \in CountWindows(WindowSize)
  BY <1>2, <1>3, <1>4 DEF CountWindows
<1> QED BY <1>5 DEF Ring

\* The records that stay when a classified one arrives, and their aggregate.
Full == w.length = WindowSize
Staying == IF Full THEN Tail(Recent) ELSE Recent
StayingSnapshot == IF Full THEN SnapshotRemove(w.snapshot, w.records[w.next]) ELSE w.snapshot

\* A classified record replaces the slot after the newest, which is the oldest's
\* when the ring is full.
LEMMA AddClassified ==
  ASSUME Ring, NEW r \in Recordable, r.Class # Ignored, Add(r)
  PROVE  /\ w'.records = [w.records EXCEPT ![w.next] = r]
         /\ w'.next = (IF w.next + 1 = WindowSize THEN 0 ELSE w.next + 1)
         /\ w'.length = (IF Full THEN WindowSize ELSE w.length + 1)
         /\ w'.snapshot = SnapshotAdd(StayingSnapshot, r)
         /\ Ring'
<1> USE CountWindowAssumption
<1>1. /\ w.records \in [0..(WindowSize - 1) -> Record] /\ w.next \in 0..(WindowSize - 1)
      /\ w.length \in 0..WindowSize /\ w.snapshot \in Aggregate
      /\ w.length < WindowSize => w.next = w.length
      /\ \A k \in 0..(WindowSize - 1) : w.records[k] \in Classified
  BY DEF Ring, CountWindows
<1>2. r \in Record /\ r \in Classified
  BY DEF Recordable, Classified
<1>3. /\ w'.records = [w.records EXCEPT ![w.next] = r]
      /\ w'.next = (w.next + 1) % WindowSize
      /\ w'.length = (IF Full THEN WindowSize ELSE w.length + 1)
      /\ w'.snapshot = SnapshotAdd(StayingSnapshot, r)
      /\ w' = [records |-> w'.records, next |-> w'.next, length |-> w'.length,
               snapshot |-> w'.snapshot]
  BY DEF Add, CountAdd, Full, StayingSnapshot
<1>4. w'.next = (IF w.next + 1 = WindowSize THEN 0 ELSE w.next + 1)
  BY <1>1, <1>3, NextSlot
<1>5. w'.snapshot \in Aggregate
  BY <1>1, <1>2, <1>3, AggregateType DEF StayingSnapshot
<1>6. /\ w'.next \in 0..(WindowSize - 1) /\ w'.length \in 0..WindowSize
      /\ w'.length < WindowSize => w'.next = w'.length
  BY <1>1, <1>3, <1>4 DEF Full
<1>7. /\ w'.records \in [0..(WindowSize - 1) -> Record]
      /\ \A k \in 0..(WindowSize - 1) : w'.records[k] \in Classified
  BY <1>1, <1>2, <1>3
<1>8. w' \in CountWindows(WindowSize)
  BY <1>3, <1>5, <1>6, <1>7 DEF CountWindows
<1> QED BY <1>3, <1>4, <1>6, <1>7, <1>8 DEF Ring

\* The retained records move as a queue of bounded length does.
LEMMA RecentMoves ==
  ASSUME Ring, NEW r \in Recordable, r.Class # Ignored, Add(r)
  PROVE  Recent' = Append(Staying, r)
<1> USE CountWindowAssumption
<1>1. /\ w.records \in [0..(WindowSize - 1) -> Record] /\ w.next \in 0..(WindowSize - 1)
      /\ w.length \in 0..WindowSize
      /\ w.length < WindowSize => w.next = w.length
  BY DEF Ring, CountWindows
<1>2. /\ w'.records = [w.records EXCEPT ![w.next] = r]
      /\ w'.next = (IF w.next + 1 = WindowSize THEN 0 ELSE w.next + 1)
      /\ w'.length = (IF Full THEN WindowSize ELSE w.length + 1)
      /\ Ring'
  BY AddClassified
<1>3. /\ Recent \in Seq(Classified) /\ Len(Recent) = w.length
      /\ \A i \in 1..w.length : Recent[i] = w.records[Slot(w.next, w.length, i)]
  BY RecentIs DEF RecentInSlots
<1>4. /\ Recent' \in Seq(Classified) /\ Len(Recent') = w'.length
      /\ \A i \in 1..w'.length : Recent'[i] = w'.records[Slot(w'.next, w'.length, i)]
  <2>1. Ring' => RecentInSlots'
    BY RecentIs, PTL
  <2> QED BY <1>2, <2>1 DEF RecentInSlots
<1>5. r \in Classified
  BY DEF Recordable, Classified
<1> HIDE DEF Recent
<1>6. CASE Full
  <2>1. w'.length = WindowSize /\ w.length = WindowSize /\ Recent # <<>>
    BY <1>2, <1>3, <1>6 DEF Full
  <2>2. /\ Tail(Recent) \in Seq(Classified) /\ Len(Tail(Recent)) = WindowSize - 1
        /\ \A i \in 1..(WindowSize - 1) : Tail(Recent)[i] = Recent[i + 1]
    BY <1>3, <2>1
  <2>3. ASSUME NEW i \in 1..(WindowSize - 1) PROVE Recent'[i] = Recent[i + 1]
    <3>1. /\ Slot(w'.next, WindowSize, i) = Slot(w.next, WindowSize, i + 1)
          /\ Slot(w'.next, WindowSize, i) # w.next
          /\ Slot(w'.next, WindowSize, i) \in 0..(WindowSize - 1)
      BY <1>1, <1>2 DEF Slot
    <3>2. i \in 1..WindowSize /\ i + 1 \in 1..WindowSize
      OBVIOUS
    <3> DEFINE k == Slot(w.next, WindowSize, i + 1)
    <3>3. Recent'[i] = w'.records[k] /\ Recent[i + 1] = w.records[k]
      BY <1>3, <1>4, <2>1, <3>1, <3>2
    <3>4. w'.records[k] = w.records[k]
      BY <1>1, <1>2, <3>1
    <3> QED BY <3>3, <3>4
  <2>4. Recent'[WindowSize] = r
    <3>1. Slot(w'.next, WindowSize, WindowSize) = w.next /\ WindowSize \in 1..WindowSize
      BY <1>1, <1>2 DEF Slot
    <3> QED BY <1>1, <1>2, <1>4, <2>1, <3>1
  <2>5. Recent' = Append(Tail(Recent), r)
    BY <1>4, <1>5, <2>1, <2>2, <2>3, <2>4
  <2> QED BY <1>6, <2>5 DEF Staying
<1>7. CASE ~Full
  <2>1. w.length < WindowSize /\ w'.length = w.length + 1 /\ w.next = w.length
    BY <1>1, <1>2, <1>7 DEF Full
  <2>2. ASSUME NEW i \in 1..w'.length PROVE Slot(w'.next, w'.length, i) = i - 1
    BY <1>1, <1>2, <2>1 DEF Slot
  <2>3. ASSUME NEW i \in 1..w.length PROVE Recent'[i] = Recent[i]
    <3>1. Slot(w.next, w.length, i) = i - 1
      BY <2>1 DEF Slot
    <3>2. i \in 1..w'.length /\ i - 1 # w.next /\ i - 1 \in 0..(WindowSize - 1)
      BY <1>1, <2>1
    <3>3. Recent'[i] = w'.records[i - 1] /\ Recent[i] = w.records[i - 1]
      BY <1>3, <1>4, <2>2, <3>1, <3>2
    <3>4. w'.records[i - 1] = w.records[i - 1]
      BY <1>1, <1>2, <3>2
    <3> QED BY <3>3, <3>4
  <2>4. Recent'[w.length + 1] = r
    <3>1. w.length + 1 \in 1..w'.length /\ (w.length + 1) - 1 = w.next
      BY <1>1, <2>1
    <3> QED BY <1>1, <1>2, <1>4, <2>2, <3>1
  <2>5. Recent' = Append(Recent, r)
    BY <1>3, <1>4, <1>5, <2>1, <2>3, <2>4
  <2> QED BY <1>7, <2>5 DEF Staying
<1> QED BY <1>6, <1>7

-----------------------------------------------------------------------------
(* Recounting *)

\* The positions of a sequence that hold a member of S.
Places(s, S) == {i \in DOMAIN s : s[i] \in S}

\* They can be counted.
LEMMA PlacesFinite ==
  ASSUME NEW s \in Seq(Classified), NEW S
  PROVE  IsFiniteSet(Places(s, S)) /\ Cardinality(Places(s, S)) \in Nat
<1>1. DOMAIN s = 1..Len(s) /\ Len(s) \in Nat /\ Places(s, S) \subseteq 1..Len(s)
  BY DEF Places
<1>2. IsFiniteSet(1..Len(s))
  BY <1>1, FS_Interval
<1>3. IsFiniteSet(Places(s, S))
  BY <1>1, <1>2, FS_Subset, Zenon
<1> QED BY <1>3, FS_CardinalityType, Zenon

\* A record that arrives is counted where it belongs.
LEMMA AppendCount ==
  ASSUME NEW s \in Seq(Classified), NEW r \in Classified, NEW S
  PROVE  Cardinality(Places(Append(s, r), S)) = Cardinality(Places(s, S)) + One(r \in S)
<1> DEFINE n == Len(s) + 1
           t == Append(s, r)
<1>1. /\ n \in Nat \ {0} /\ DOMAIN s = 1..(n - 1) /\ DOMAIN t = 1..n
      /\ t[n] = r /\ \A i \in 1..(n - 1) : t[i] = s[i]
  OBVIOUS
<1>2. IsFiniteSet(Places(s, S)) /\ Cardinality(Places(s, S)) \in Nat
  BY PlacesFinite
<1> HIDE DEF n, t
<1>3. n \notin Places(s, S)
  BY <1>1 DEF Places
<1>4. CASE r \in S
  <2>1. ASSUME NEW i PROVE i \in Places(t, S) <=> i \in Places(s, S) \cup {n}
    <3>1. CASE i = n
      BY <1>1, <1>4, <3>1 DEF Places
    <3>2. CASE i # n
      <4>1. i \in 1..n <=> i \in 1..(n - 1)
        BY <1>1, <3>2
      <4> QED BY <1>1, <3>2, <4>1 DEF Places
    <3> QED BY <3>1, <3>2
  <2>2. Cardinality(Places(s, S) \cup {n}) = Cardinality(Places(s, S)) + 1
    BY <1>2, <1>3, FS_AddElement
  <2>3. Places(t, S) = Places(s, S) \cup {n}
    BY <2>1
  <2> QED BY <1>4, <2>2, <2>3 DEF One, t
<1>5. CASE r \notin S
  <2>1. Places(t, S) = Places(s, S)
    BY <1>1, <1>5 DEF Places
  <2> QED BY <1>2, <1>5, <2>1 DEF One, t
<1> QED BY <1>4, <1>5

\* One that is evicted is counted no longer.
LEMMA TailCount ==
  ASSUME NEW s \in Seq(Classified), s # <<>>, NEW S
  PROVE  Cardinality(Places(Tail(s), S)) = Cardinality(Places(s, S)) - One(s[1] \in S)
<1> DEFINE t == Tail(s)
           later == Places(s, S) \ {1}
           Shift == [i \in Places(t, S) |-> i + 1]
<1>1. /\ Len(s) \in Nat \ {0} /\ DOMAIN s = 1..Len(s) /\ DOMAIN t = 1..(Len(s) - 1)
      /\ \A i \in 1..(Len(s) - 1) : t[i] = s[i + 1]
      /\ t \in Seq(Classified)
  OBVIOUS
<1>2. IsFiniteSet(Places(s, S)) /\ Cardinality(Places(s, S)) \in Nat /\ IsFiniteSet(Places(t, S))
  BY <1>1, PlacesFinite
<1> HIDE DEF t
<1>3. Shift \in Bijection(Places(t, S), later)
  <2>1. Places(t, S) \subseteq 1..(Len(s) - 1)
    BY <1>1 DEF Places
  <2>2. \A i \in Places(t, S) : i + 1 \in later
    BY <1>1, <2>1 DEF Places
  <2>3. \A i, j \in Places(t, S) : Shift[i] = Shift[j] => i = j
    BY <2>1
  <2>4. ASSUME NEW k \in later PROVE \E i \in Places(t, S) : Shift[i] = k
    <3>1. k \in 2..Len(s) /\ s[k] \in S
      BY <1>1 DEF Places
    <3>2. k - 1 \in 1..(Len(s) - 1) /\ t[k - 1] = s[(k - 1) + 1] /\ (k - 1) + 1 = k
      BY <1>1, <3>1
    <3>3. k - 1 \in Places(t, S)
      BY <1>1, <3>1, <3>2 DEF Places
    <3>4. Shift[k - 1] = k
      BY <3>2, <3>3
    <3> QED BY <3>3, <3>4
  <2>5. Shift \in [Places(t, S) -> later]
    BY <2>2
  <2> HIDE DEF Shift, later
  <2> QED BY <2>3, <2>4, <2>5, Fun_IsBij
<1>4. Cardinality(Places(t, S)) = Cardinality(later)
  <2> HIDE DEF Shift, later
  <2>1. ExistsBijection(Places(t, S), later)
    BY <1>3, Fun_ExistsBij, Zenon
  <2> QED BY <1>2, <2>1, FS_Bijection, Zenon
<1>5. CASE s[1] \in S
  <2>1. 1 \in Places(s, S)
    BY <1>1, <1>5 DEF Places
  <2>2. Cardinality(later) = Cardinality(Places(s, S)) - 1
    BY <1>2, <2>1, FS_RemoveElement
  <2> QED BY <1>4, <1>5, <2>2 DEF One, t
<1>6. CASE s[1] \notin S
  <2>1. later = Places(s, S)
    BY <1>6 DEF Places
  <2>2. Cardinality(Places(t, S)) = Cardinality(Places(s, S)) /\ One(s[1] \in S) = 0
    BY <1>4, <1>6, <2>1 DEF One
  <2> QED BY <1>2, <2>2 DEF t
<1> QED BY <1>5, <1>6

-----------------------------------------------------------------------------
(* The theorems *)

\* NewCount: an empty ring.
LEMMA InitRing == Init => Ring /\ Recent = <<>>
<1> SUFFICES ASSUME Init PROVE Ring /\ Recent = <<>>
  OBVIOUS
<1>1. Ring /\ w.length = 0
  BY CountWindowAssumption
     DEF Init, Ring, NewCount, CountWindows, EmptySnapshot, Aggregate, ZeroRecord, Record, Class,
         Classified, Success, Ignored
<1> QED BY <1>1 DEF Recent

\* Count.Add keeps the ring in order.
LEMMA RingStep == Ring /\ [Next]_w => Ring'
<1> SUFFICES ASSUME Ring, [Next]_w PROVE Ring'
  OBVIOUS
<1>1. ASSUME NEW r \in Recordable, Add(r) PROVE Ring'
  BY <1>1, AddIgnored, AddClassified
<1>2. CASE UNCHANGED w
  BY <1>2 DEF Ring
<1> QED BY <1>1, <1>2 DEF Next

\* The ring is in order in every reachable state.
LEMMA RingAlways == Spec => []Ring
<1>1. Init => Ring
  BY InitRing
<1> QED BY <1>1, RingStep, PTL DEF Spec

(***************************************************************************)
(* Count.Add is a step of the sliding window: the ring, wherever it has    *)
(* wrapped around, retains the last WindowSize classified records in       *)
(* order, and an ignored completion evicts nothing.                        *)
(***************************************************************************)
THEOREM RingSlides == Spec => ImplementsSlidingWindow
<1>1. Init => Sliding!Init
  BY InitRing DEF Init, Sliding!Init, NewCount, EmptySnapshot
<1>2. Ring /\ [Next]_w => [Sliding!Next]_<<Recent, w.snapshot.Ignored>>
  <2> SUFFICES ASSUME Ring, [Next]_w PROVE [Sliding!Next]_<<Recent, w.snapshot.Ignored>>
    OBVIOUS
  <2>1. w.snapshot.Ignored \in Int /\ w.snapshot \in Aggregate
    BY DEF Ring, CountWindows, Aggregate
  <2>2. ASSUME NEW r \in Recordable, Add(r), r.Class = Ignored
        PROVE  Sliding!Next
    <3>1. UNCHANGED Recent
      BY <2>2, AddIgnored DEF Recent
    <3>2. w'.snapshot = SnapshotAdd(w.snapshot, r)
      BY <2>2, AddIgnored
    <3>3. w'.snapshot.Ignored = w.snapshot.Ignored + 1
      BY <2>2, <3>2 DEF SnapshotAdd, One
    <3> QED BY <3>1, <3>3 DEF Sliding!Next, Sliding!Ignore
  <2>3. ASSUME NEW r \in Recordable, Add(r), r.Class # Ignored
        PROVE  Sliding!Next
    <3>1. Recent' = Append(IF Len(Recent) = WindowSize THEN Tail(Recent) ELSE Recent, r)
      BY <2>3, RecentMoves, RecentIs DEF RecentInSlots, Staying, Full
    <3>2. w'.snapshot.Ignored = w.snapshot.Ignored
      <4>1. StayingSnapshot.Ignored = w.snapshot.Ignored
        BY DEF StayingSnapshot, SnapshotRemove
      <4>2. w'.snapshot = SnapshotAdd(StayingSnapshot, r)
        BY <2>3, AddClassified
      <4>3. w'.snapshot.Ignored = StayingSnapshot.Ignored + 0
        BY <2>3, <4>2 DEF SnapshotAdd, One
      <4> QED BY <2>1, <4>1, <4>3
    <3>3. r \in Sliding!Recordable /\ r.Class # Sliding!Ignored
      BY <2>3 DEF Recordable, Record, Class, Success, Failure, Ignored, Sliding!Recordable,
                  Sliding!Record, Sliding!Class, Sliding!Success, Sliding!Failure, Sliding!Ignored
    <3> QED BY <3>1, <3>2, <3>3 DEF Sliding!Next, Sliding!Classify
  <2>4. CASE UNCHANGED w
    BY <2>4 DEF Recent
  <2> QED BY <2>2, <2>3, <2>4 DEF Next
<1> QED BY <1>1, <1>2, RingAlways, PTL DEF Spec, ImplementsSlidingWindow, Sliding!Spec

-----------------------------------------------------------------------------
(* The aggregate *)

\* The records the fields of a snapshot count.
OfClass(class) == {r \in Record : r.Class = class}
SlowOf(class) == {r \in Record : r.Class = class /\ r.Slow}

\* A recount, with its sets of positions named.
LEMMA TallyIs ==
  ASSUME NEW s, NEW k
  PROVE  Tally(s, k) = [Classified  |-> Len(s),
                        Successes   |-> Cardinality(Places(s, OfClass(Success))),
                        Failures    |-> Cardinality(Places(s, OfClass(Failure))),
                        Ignored     |-> k,
                        SlowSuccess |-> Cardinality(Places(s, SlowOf(Success))),
                        SlowFailure |-> Cardinality(Places(s, SlowOf(Failure)))]
BY DEF Tally, Places, OfClass, SlowOf

\* What one classified record contributes to each counter.
LEMMA OneOf ==
  ASSUME NEW r \in Classified
  PROVE  /\ \A class : One(r \in OfClass(class)) = One(r.Class = class)
         /\ \A class : One(r \in SlowOf(class)) = One(r.Class = class /\ r.Slow)
         /\ One(r.Class # Ignored) = 1 /\ One(r.Class = Ignored) = 0
BY DEF Classified, OfClass, SlowOf, One

\* Recounting and counting along agree on a record that arrives.
LEMMA TallyAdds ==
  ASSUME NEW s \in Seq(Classified), NEW r \in Classified, NEW k \in Int
  PROVE  Tally(Append(s, r), k) = SnapshotAdd(Tally(s, k), r)
<1>1. Len(Append(s, r)) = Len(s) + One(r.Class # Ignored) /\ k = k + One(r.Class = Ignored)
  BY OneOf
<1>2. \A class :
        /\ Cardinality(Places(Append(s, r), OfClass(class)))
             = Cardinality(Places(s, OfClass(class))) + One(r.Class = class)
        /\ Cardinality(Places(Append(s, r), SlowOf(class)))
             = Cardinality(Places(s, SlowOf(class))) + One(r.Class = class /\ r.Slow)
  BY AppendCount, OneOf
<1> QED BY <1>1, <1>2, TallyIs DEF SnapshotAdd

\* They agree on the oldest record when it leaves.
LEMMA TallyRemoves ==
  ASSUME NEW s \in Seq(Classified), s # <<>>, NEW k \in Int
  PROVE  Tally(Tail(s), k) = SnapshotRemove(Tally(s, k), s[1])
<1>0. s[1] \in Classified
  OBVIOUS
<1>1. Len(Tail(s)) = Len(s) - One(s[1].Class # Ignored)
  <2>1. One(s[1].Class # Ignored) = 1
    BY <1>0, OneOf
  <2>2. Len(Tail(s)) = Len(s) - 1
    OBVIOUS
  <2> QED BY <2>1, <2>2
<1>2. \A class :
        /\ Cardinality(Places(Tail(s), OfClass(class)))
             = Cardinality(Places(s, OfClass(class))) - One(s[1].Class = class)
        /\ Cardinality(Places(Tail(s), SlowOf(class)))
             = Cardinality(Places(s, SlowOf(class))) - One(s[1].Class = class /\ s[1].Slow)
  BY <1>0, TailCount, OneOf
<1> QED BY <1>1, <1>2, TallyIs DEF SnapshotRemove

(***************************************************************************)
(* The aggregate that Count.Add maintains equals a recount of the retained *)
(* records, for a ring of any size and any sequence of completions.        *)
(***************************************************************************)
THEOREM AggregateExact == Spec => []AggregateMatchesRecount
<1>1. Init => AggregateMatchesRecount
  <2> SUFFICES ASSUME Init PROVE AggregateMatchesRecount
    OBVIOUS
  <2>1. Recent = <<>> /\ w.snapshot = EmptySnapshot
    BY InitRing DEF Init, NewCount
  <2>2. \A S : Places(<<>>, S) = {}
    BY DEF Places
  <2>3. Cardinality({}) = 0
    BY FS_EmptySet
  <2>4. Tally(<<>>, 0) = EmptySnapshot
    BY <2>2, <2>3, TallyIs DEF EmptySnapshot
  <2> QED BY <2>1, <2>4 DEF AggregateMatchesRecount, EmptySnapshot
<1>2. Ring /\ AggregateMatchesRecount /\ [Next]_w => AggregateMatchesRecount'
  <2> SUFFICES ASSUME Ring, AggregateMatchesRecount, [Next]_w PROVE AggregateMatchesRecount'
    OBVIOUS
  <2> DEFINE k == w.snapshot.Ignored
  <2>1. k \in Int /\ w.snapshot = Tally(Recent, k)
    BY DEF Ring, CountWindows, Aggregate, AggregateMatchesRecount
  <2>2. /\ Recent \in Seq(Classified) /\ Len(Recent) = w.length
        /\ \A i \in 1..w.length : Recent[i] = w.records[Slot(w.next, w.length, i)]
    BY RecentIs DEF RecentInSlots
  <2>3. ASSUME NEW r \in Recordable, Add(r), r.Class = Ignored
        PROVE  AggregateMatchesRecount'
    <3>1. Recent' = Recent
      BY <2>3, AddIgnored DEF Recent
    <3>2. w'.snapshot = SnapshotAdd(Tally(Recent, k), r)
      BY <2>1, <2>3, AddIgnored
    <3>3. Tally(Recent, k + 1) = SnapshotAdd(Tally(Recent, k), r)
      <4>1. /\ One(r.Class = Ignored) = 1 /\ One(r.Class # Ignored) = 0
            /\ One(r.Class = Success) = 0 /\ One(r.Class = Success /\ r.Slow) = 0
            /\ One(r.Class = Failure) = 0 /\ One(r.Class = Failure /\ r.Slow) = 0
        BY <2>3 DEF One, Success, Failure, Ignored
      <4>2. Len(Recent) \in Nat /\ \A S : Cardinality(Places(Recent, S)) \in Nat
        BY <2>2, PlacesFinite
      <4> QED BY <4>1, <4>2, TallyIs DEF SnapshotAdd
    <3>4. w'.snapshot.Ignored = k + 1
      BY <3>2, <3>3, TallyIs
    <3> QED BY <3>1, <3>2, <3>3, <3>4 DEF AggregateMatchesRecount
  <2>4. ASSUME NEW r \in Recordable, Add(r), r.Class # Ignored
        PROVE  AggregateMatchesRecount'
    <3>1. r \in Classified
      BY <2>4 DEF Recordable, Classified
    <3>2. Staying \in Seq(Classified) /\ StayingSnapshot = Tally(Staying, k)
      <4>1. CASE Full
        <5>1. Recent # <<>> /\ 1 \in 1..w.length /\ Slot(w.next, w.length, 1) = w.next
          BY <2>2, <4>1, CountWindowAssumption DEF Full, Slot, Ring, CountWindows
        <5>2. Recent[1] = w.records[w.next]
          BY <2>2, <5>1
        <5>3. Tally(Tail(Recent), k) = SnapshotRemove(Tally(Recent, k), Recent[1])
          BY <2>1, <2>2, <5>1, TallyRemoves
        <5>4. Tail(Recent) \in Seq(Classified)
          BY <2>2, <5>1
        <5> QED BY <2>1, <4>1, <5>2, <5>3, <5>4 DEF Staying, StayingSnapshot
      <4>2. CASE ~Full
        BY <2>1, <2>2, <4>2 DEF Staying, StayingSnapshot
      <4> QED BY <4>1, <4>2
    <3>3. w'.snapshot = Tally(Append(Staying, r), k)
      BY <2>1, <2>4, <3>1, <3>2, AddClassified, TallyAdds
    <3>4. Recent' = Append(Staying, r)
      BY <2>4, RecentMoves
    <3>5. w'.snapshot.Ignored = k
      BY <3>3, TallyIs
    <3> QED BY <3>3, <3>4, <3>5 DEF AggregateMatchesRecount
  <2>5. CASE UNCHANGED w
    BY <2>5 DEF AggregateMatchesRecount, Recent
  <2> QED BY <2>3, <2>4, <2>5 DEF Next
<1> QED BY <1>1, <1>2, RingAlways, PTL DEF Spec

-----------------------------------------------------------------------------
(* The time window *)

\* A member of the log.
Entry == [id : Int, record : Recordable]

\* The places of a log that hold the completions of one bucket.
OfBucket(entries, id) == {i \in DOMAIN entries : entries[i].id = id}

\* Those of some places whose record is in S.
Hits(entries, places, S) == {i \in places : entries[i].record \in S}

\* The types of the time window and of its history.
TimeTypes ==
  tw \in TimeWindows(BucketCount) /\ log \in Seq(Entry) /\ observed \in SUBSET Int

\* lastBucketID is the latest bucket id any call has presented.
Progress ==
  /\ tw.initialized <=> observed # {}
  /\ tw.initialized => /\ tw.lastBucketID \in observed
                       /\ \A id \in observed : id <= tw.lastBucketID

\* A slot in use belongs to one bucket, has that bucket's place in the ring, and
\* counts exactly the completions of that bucket.
Owned ==
  \A k \in 0..(BucketCount - 1) :
    tw.buckets[k].occupied =>
      /\ tw.initialized /\ tw.buckets[k].id <= tw.lastBucketID
      /\ Index(tw.buckets[k].id, BucketCount) = k
      /\ tw.buckets[k].snapshot = Recount(log, OfBucket(log, tw.buckets[k].id))

\* Only a later bucket takes a slot away from a completion's bucket.
Replaced ==
  \A i \in DOMAIN log :
    /\ tw.buckets[Index(log[i].id, BucketCount)].occupied
    /\ log[i].id <= tw.buckets[Index(log[i].id, BucketCount)].id

\* The inductive invariant of the time window.
TimeInv == TimeTypes /\ Progress /\ Owned /\ Replaced

\* Two bucket ids less than one turn of the ring apart share no slot.
LEMMA Congruent ==
  ASSUME NEW n \in Nat \ {0}, NEW x \in Int, NEW y \in Int,
         x % n = y % n, x <= y, y < x + n
  PROVE  x = y
<1> DEFINE p == x \div n
           q == y \div n
           r == x % n
<1>1. p \in Int /\ q \in Int /\ x = n * p + r /\ y = n * q + r /\ r \in Int
  OBVIOUS
<1> HIDE DEF p, q, r
<1>2. y - x = n * (q - p)
  BY <1>1
<1>3. CASE q - p >= 1
  <2>1. n * (q - p) >= n
    BY <1>1, <1>3
  <2> QED BY <1>2, <2>1
<1>4. CASE q - p <= -1
  <2>1. n * (q - p) <= -n
    BY <1>1, <1>4
  <2> QED BY <1>2, <2>1
<1>5. CASE q = p
  BY <1>1, <1>5
<1> QED BY <1>1, <1>3, <1>4, <1>5

\* Every bucket id has a slot of the ring.
LEMMA IndexType ==
  ASSUME NEW id \in Int
  PROVE  Index(id, BucketCount) \in 0..(BucketCount - 1)
BY TimeWindowAssumption DEF Index

\* observe moves lastBucketID to the latest id presented, and nothing else.
LEMMA ObserveIs ==
  ASSUME TimeTypes, Progress, NEW at \in Int
  PROVE  LET o == TimeObserve(tw, BucketDuration, at)
         IN /\ o \in TimeWindows(BucketCount)
            /\ o.buckets = tw.buckets /\ o.initialized = TRUE
            /\ o.lastBucketID = Max(Seen(at)) /\ o.lastBucketID \in Seen(at)
            /\ \A id \in Seen(at) : id <= o.lastBucketID
            /\ tw.initialized => tw.lastBucketID <= o.lastBucketID
<1> DEFINE id == BucketIDAt(at, BucketDuration)
           o == TimeObserve(tw, BucketDuration, at)
<1>1. id \in Int
  BY TimeWindowAssumption DEF BucketIDAt
<1>2. o = [tw EXCEPT !.initialized = TRUE,
                     !.lastBucketID = IF ~tw.initialized \/ id > tw.lastBucketID
                                      THEN id ELSE tw.lastBucketID]
  BY DEF TimeObserve
<1> HIDE DEF id, o
<1>3. tw \in TimeWindows(BucketCount) /\ tw.lastBucketID \in Int
  BY DEF TimeTypes, TimeWindows
<1>4. /\ o \in TimeWindows(BucketCount)
      /\ o.buckets = tw.buckets /\ o.initialized = TRUE
      /\ o.lastBucketID = IF ~tw.initialized \/ id > tw.lastBucketID
                          THEN id ELSE tw.lastBucketID
  BY <1>1, <1>2, <1>3 DEF TimeWindows
<1>5. Seen(at) = observed \cup {id} /\ Seen(at) \in SUBSET Int
  BY <1>1 DEF Seen, id, TimeTypes
<1>6. o.lastBucketID \in Seen(at) /\ \A x \in Seen(at) : x <= o.lastBucketID
  <2>1. CASE tw.initialized
    <3>1. tw.lastBucketID \in observed /\ \A x \in observed : x <= tw.lastBucketID
      BY <2>1 DEF Progress
    <3>2. \A x \in observed : x \in Int
      BY DEF TimeTypes
    <3> QED BY <1>1, <1>3, <1>4, <1>5, <2>1, <3>1, <3>2
  <2>2. CASE ~tw.initialized
    <3>1. observed = {}
      BY <2>2 DEF Progress
    <3> QED BY <1>1, <1>4, <1>5, <2>2, <3>1
  <2> QED BY <2>1, <2>2
<1>7. o.lastBucketID = Max(Seen(at))
  <2>1. \E x \in Seen(at) : \A y \in Seen(at) : x >= y
    BY <1>5, <1>6
  <2>2. Max(Seen(at)) \in Seen(at) /\ \A y \in Seen(at) : Max(Seen(at)) >= y
    BY <2>1, Zenon DEF Max
  <2> QED BY <1>5, <1>6, <2>2
<1>8. tw.initialized => tw.lastBucketID <= o.lastBucketID
  BY <1>1, <1>3, <1>4
<1> QED BY <1>4, <1>6, <1>7, <1>8 DEF o

\* Places of a log can be counted.
LEMMA HitsFinite ==
  ASSUME NEW entries \in Seq(Entry), NEW places \in SUBSET DOMAIN entries, NEW S
  PROVE  /\ IsFiniteSet(Hits(entries, places, S))
         /\ Cardinality(Hits(entries, places, S)) \in Nat
<1>1. /\ DOMAIN entries = 1..Len(entries) /\ Len(entries) \in Nat
      /\ Hits(entries, places, S) \subseteq 1..Len(entries)
  BY DEF Hits
<1>2. IsFiniteSet(1..Len(entries))
  BY <1>1, FS_Interval
<1>3. IsFiniteSet(Hits(entries, places, S))
  BY <1>1, <1>2, FS_Subset, Zenon
<1> QED BY <1>3, FS_CardinalityType, Zenon

\* A recount, with its sets of places named.
LEMMA RecountIs ==
  ASSUME NEW entries, NEW places
  PROVE  Recount(entries, places) =
           [Classified  |-> Cardinality(Hits(entries, places, Classified)),
            Successes   |-> Cardinality(Hits(entries, places, OfClass(Success))),
            Failures    |-> Cardinality(Hits(entries, places, OfClass(Failure))),
            Ignored     |-> Cardinality(Hits(entries, places, OfClass(Ignored))),
            SlowSuccess |-> Cardinality(Hits(entries, places, SlowOf(Success))),
            SlowFailure |-> Cardinality(Hits(entries, places, SlowOf(Failure)))]
BY DEF Recount, Hits, Classified, OfClass, SlowOf

\* It is an aggregate, and zero where there is nothing to count.
LEMMA RecountType ==
  ASSUME NEW entries \in Seq(Entry), NEW places \in SUBSET DOMAIN entries
  PROVE  /\ Recount(entries, places) \in Aggregate
         /\ places = {} => Recount(entries, places) = EmptySnapshot
<1>1. \A S : Cardinality(Hits(entries, places, S)) \in Int
  BY HitsFinite
<1>2. Recount(entries, places) \in Aggregate
  BY <1>1, RecountIs DEF Aggregate
<1>3. ASSUME places = {} PROVE Recount(entries, places) = EmptySnapshot
  <2>1. \A S : Hits(entries, places, S) = {}
    BY <1>3 DEF Hits
  <2>2. \A S : Cardinality(Hits(entries, places, S)) = 0
    BY <2>1, FS_EmptySet
  <2> QED BY <2>2, RecountIs DEF EmptySnapshot
<1> QED BY <1>2, <1>3

\* A completion that is recorded belongs to its own bucket and to no other.
LEMMA AppendBucket ==
  ASSUME NEW entries \in Seq(Entry), NEW e \in Entry
  PROVE  /\ Append(entries, e) \in Seq(Entry)
         /\ Len(entries) + 1 \notin OfBucket(entries, e.id)
         /\ \A i \in DOMAIN entries : Append(entries, e)[i] = entries[i]
         /\ Append(entries, e)[Len(entries) + 1] = e
         /\ OfBucket(Append(entries, e), e.id) = OfBucket(entries, e.id) \cup {Len(entries) + 1}
         /\ \A id : id # e.id => OfBucket(Append(entries, e), id) = OfBucket(entries, id)
<1> DEFINE n == Len(entries) + 1
           t == Append(entries, e)
<1>1. /\ n \in Nat \ {0} /\ DOMAIN entries = 1..(n - 1) /\ DOMAIN t = 1..n
      /\ t[n] = e /\ (\A i \in 1..(n - 1) : t[i] = entries[i])
      /\ t \in Seq(Entry)
  OBVIOUS
<1> HIDE DEF n, t
<1>2. \A i : i \in 1..n <=> (i \in 1..(n - 1) \/ i = n)
  BY <1>1
<1>3. n \notin 1..(n - 1)
  BY <1>1
<1>4. n \notin OfBucket(entries, e.id)
  BY <1>1, <1>3 DEF OfBucket
<1>5. OfBucket(t, e.id) = OfBucket(entries, e.id) \cup {n}
  BY <1>1, <1>2 DEF OfBucket
<1>6. \A id : id # e.id => OfBucket(t, id) = OfBucket(entries, id)
  BY <1>1, <1>2, <1>3 DEF OfBucket
<1> QED BY <1>1, <1>4, <1>5, <1>6 DEF n, t

\* The recount of its bucket counts it.
LEMMA RecountAdds ==
  ASSUME NEW entries \in Seq(Entry), NEW e \in Entry
  PROVE  Recount(Append(entries, e), OfBucket(Append(entries, e), e.id)) =
           SnapshotAdd(Recount(entries, OfBucket(entries, e.id)), e.record)
<1> DEFINE t == Append(entries, e)
           n == Len(entries) + 1
           before == OfBucket(entries, e.id)
           after == OfBucket(t, e.id)
<1>1. ASSUME NEW S
      PROVE  Cardinality(Hits(t, after, S)) =
               Cardinality(Hits(entries, before, S)) + One(e.record \in S)
  <2>1. /\ after = before \cup {n} /\ n \notin before /\ t[n] = e
        /\ before \in SUBSET DOMAIN entries /\ \A i \in before : t[i] = entries[i]
    BY AppendBucket DEF OfBucket
  <2>2. IsFiniteSet(Hits(entries, before, S)) /\ Cardinality(Hits(entries, before, S)) \in Nat
    BY <2>1, HitsFinite
  <2> HIDE DEF t, n, before, after
  <2>3. CASE e.record \in S
    <3>1. Hits(t, after, S) = Hits(entries, before, S) \cup {n} /\ n \notin Hits(entries, before, S)
      BY <2>1, <2>3 DEF Hits
    <3>2. Cardinality(Hits(entries, before, S) \cup {n}) = Cardinality(Hits(entries, before, S)) + 1
      BY <2>2, <3>1, FS_AddElement
    <3> QED BY <2>3, <3>1, <3>2 DEF One
  <2>4. CASE e.record \notin S
    <3>1. Hits(t, after, S) = Hits(entries, before, S)
      BY <2>1, <2>4 DEF Hits
    <3> QED BY <2>2, <2>4, <3>1 DEF One
  <2> QED BY <2>3, <2>4
<1>2. e.record \in Record
  BY DEF Entry, Recordable
<1>3. /\ One(e.record \in Classified) = One(e.record.Class # Ignored)
      /\ \A class : One(e.record \in OfClass(class)) = One(e.record.Class = class)
      /\ \A class : One(e.record \in SlowOf(class)) = One(e.record.Class = class /\ e.record.Slow)
  BY <1>2 DEF Classified, OfClass, SlowOf, One
<1>4. /\ Cardinality(Hits(t, after, Classified)) =
           Cardinality(Hits(entries, before, Classified)) + One(e.record.Class # Ignored)
      /\ \A class : Cardinality(Hits(t, after, OfClass(class))) =
           Cardinality(Hits(entries, before, OfClass(class))) + One(e.record.Class = class)
      /\ \A class : Cardinality(Hits(t, after, SlowOf(class))) =
           Cardinality(Hits(entries, before, SlowOf(class)))
             + One(e.record.Class = class /\ e.record.Slow)
  BY <1>1, <1>3
<1> HIDE DEF t, before, after
<1>5. Recount(t, after) = SnapshotAdd(Recount(entries, before), e.record)
  BY <1>4, RecountIs DEF SnapshotAdd
<1> QED BY <1>5 DEF t, before, after

\* The recount of every other bucket is what it was.
LEMMA RecountKeeps ==
  ASSUME NEW entries \in Seq(Entry), NEW e \in Entry, NEW id, id # e.id
  PROVE  Recount(Append(entries, e), OfBucket(Append(entries, e), id)) =
           Recount(entries, OfBucket(entries, id))
<1> DEFINE t == Append(entries, e)
<1>1. /\ OfBucket(t, id) = OfBucket(entries, id)
      /\ \A i \in OfBucket(entries, id) : t[i] = entries[i]
  BY AppendBucket DEF OfBucket
<1> HIDE DEF t
<1>2. \A S : Hits(t, OfBucket(t, id), S) = Hits(entries, OfBucket(entries, id), S)
  BY <1>1 DEF Hits
<1>3. Recount(t, OfBucket(t, id)) = Recount(entries, OfBucket(entries, id))
  BY <1>2, RecountIs
<1> QED BY <1>3 DEF t

\* What a call that only observes leaves true.
LEMMA ObserveKeeps ==
  ASSUME TimeInv, NEW at \in Int
  PROVE  LET o == TimeObserve(tw, BucketDuration, at)
         IN /\ o.buckets \in [0..(BucketCount - 1) ->
                                [id : Int, occupied : BOOLEAN, snapshot : Aggregate]]
            /\ o.lastBucketID \in Int
            /\ \A k \in 0..(BucketCount - 1) :
                 o.buckets[k].occupied =>
                   /\ o.buckets[k].id <= o.lastBucketID
                   /\ Index(o.buckets[k].id, BucketCount) = k
                   /\ o.buckets[k].snapshot = Recount(log, OfBucket(log, o.buckets[k].id))
            /\ \A i \in DOMAIN log :
                 /\ log[i].id \in Int /\ log[i].id <= o.lastBucketID
                 /\ Index(log[i].id, BucketCount) \in 0..(BucketCount - 1)
                 /\ o.buckets[Index(log[i].id, BucketCount)].occupied
                 /\ log[i].id <= o.buckets[Index(log[i].id, BucketCount)].id
<1> DEFINE o == TimeObserve(tw, BucketDuration, at)
<1>1. /\ o \in TimeWindows(BucketCount) /\ o.buckets = tw.buckets
      /\ tw.initialized => tw.lastBucketID <= o.lastBucketID
  BY ObserveIs DEF TimeInv
<1> HIDE DEF o
<1>2. /\ o.buckets \in [0..(BucketCount - 1) ->
                          [id : Int, occupied : BOOLEAN, snapshot : Aggregate]]
      /\ o.lastBucketID \in Int /\ tw.lastBucketID \in Int
  BY <1>1 DEF TimeWindows, TimeInv, TimeTypes
<1>3. ASSUME NEW k \in 0..(BucketCount - 1), o.buckets[k].occupied
      PROVE  /\ o.buckets[k].id <= o.lastBucketID
             /\ Index(o.buckets[k].id, BucketCount) = k
             /\ o.buckets[k].snapshot = Recount(log, OfBucket(log, o.buckets[k].id))
  <2>1. /\ tw.initialized /\ tw.buckets[k].id <= tw.lastBucketID
        /\ Index(tw.buckets[k].id, BucketCount) = k
        /\ tw.buckets[k].snapshot = Recount(log, OfBucket(log, tw.buckets[k].id))
    BY <1>1, <1>3 DEF TimeInv, Owned
  <2>2. o.buckets[k].id \in Int
    BY <1>2
  <2> QED BY <1>1, <1>2, <2>1, <2>2
<1>4. ASSUME NEW i \in DOMAIN log
      PROVE  /\ log[i].id \in Int /\ log[i].id <= o.lastBucketID
             /\ Index(log[i].id, BucketCount) \in 0..(BucketCount - 1)
             /\ o.buckets[Index(log[i].id, BucketCount)].occupied
             /\ log[i].id <= o.buckets[Index(log[i].id, BucketCount)].id
  <2>1. log[i] \in Entry
    BY DEF TimeInv, TimeTypes
  <2>2. log[i].id \in Int
    BY <2>1 DEF Entry
  <2> DEFINE k == Index(log[i].id, BucketCount)
  <2>3. k \in 0..(BucketCount - 1)
    BY <2>2, IndexType
  <2>4. o.buckets[k].occupied /\ log[i].id <= o.buckets[k].id
    BY <1>1 DEF TimeInv, Replaced
  <2> HIDE DEF k
  <2>5. o.buckets[k].id \in Int /\ o.buckets[k].id <= o.lastBucketID
    BY <1>2, <1>3, <2>3, <2>4
  <2>6. log[i].id <= o.lastBucketID
    BY <1>2, <2>2, <2>4, <2>5
  <2> QED BY <2>2, <2>3, <2>4, <2>6 DEF k
<1> QED BY <1>2, <1>3, <1>4 DEF o

\* lastBucketID stays the latest id presented.
LEMMA ProgressStep ==
  ASSUME TimeInv, NEW at \in Int, observed' = Seen(at),
         tw'.initialized = TRUE,
         tw'.lastBucketID = TimeObserve(tw, BucketDuration, at).lastBucketID
  PROVE  Progress' /\ observed' \in SUBSET Int
<1>1. BucketIDAt(at, BucketDuration) \in Int
  BY TimeWindowAssumption DEF BucketIDAt
<1>2. observed' # {} /\ observed' \in SUBSET Int
  BY <1>1 DEF Seen, TimeInv, TimeTypes
<1> QED BY <1>2, ObserveIs DEF Progress, TimeInv

\* A step of Snapshot moves no bucket.
LEMMA SnapshotKeeps ==
  ASSUME TimeInv, NEW at \in Instants, SnapshotAt(at)
  PROVE  TimeInv'
<1>1. at \in Int
  BY TimeWindowAssumption
<1> DEFINE o == TimeObserve(tw, BucketDuration, at)
<1>2. /\ o \in TimeWindows(BucketCount) /\ o.buckets = tw.buckets /\ o.initialized = TRUE
      /\ tw.initialized => tw.lastBucketID <= o.lastBucketID
  BY <1>1, ObserveIs DEF TimeInv
<1>3. tw' = o /\ observed' = Seen(at) /\ log' = log
  BY DEF SnapshotAt
<1>4. Progress' /\ observed' \in SUBSET Int
  BY <1>1, <1>2, <1>3, ProgressStep
<1>5. Owned'
  <2>1. \A k \in 0..(BucketCount - 1) :
          o.buckets[k].occupied =>
            /\ o.buckets[k].id <= o.lastBucketID
            /\ Index(o.buckets[k].id, BucketCount) = k
            /\ o.buckets[k].snapshot = Recount(log, OfBucket(log, o.buckets[k].id))
    BY <1>1, ObserveKeeps
  <2> HIDE DEF o
  <2> QED BY <1>2, <1>3, <2>1 DEF Owned
<1> HIDE DEF o
<1>6. Replaced'
  BY <1>2, <1>3 DEF TimeInv, Replaced
<1>7. TimeTypes'
  BY <1>2, <1>3, <1>4 DEF TimeInv, TimeTypes
<1> QED BY <1>4, <1>5, <1>6, <1>7 DEF TimeInv

\* A step of Add: the slot of the latest bucket is taken over or counts one more.
LEMMA AddKeeps ==
  ASSUME TimeInv, NEW at \in Instants, NEW r \in Recordable, AddAt(at, r)
  PROVE  TimeInv'
<1>1. at \in Int
  BY TimeWindowAssumption
<1> DEFINE o == TimeObserve(tw, BucketDuration, at)
           id == o.lastBucketID
           slot == Index(id, BucketCount)
           e == [id |-> id, record |-> r]
           old == IF o.buckets[slot].occupied /\ o.buckets[slot].id = id
                  THEN o.buckets[slot].snapshot ELSE EmptySnapshot
           new == [id |-> id, occupied |-> TRUE, snapshot |-> SnapshotAdd(old, r)]
<1>2. /\ o \in TimeWindows(BucketCount) /\ o.buckets = tw.buckets /\ o.initialized = TRUE
      /\ id = Max(Seen(at))
  BY <1>1, ObserveIs DEF TimeInv
<1>3. /\ o.buckets \in [0..(BucketCount - 1) ->
                          [id : Int, occupied : BOOLEAN, snapshot : Aggregate]]
      /\ id \in Int
      /\ \A k \in 0..(BucketCount - 1) :
           o.buckets[k].occupied =>
             /\ o.buckets[k].id <= id
             /\ Index(o.buckets[k].id, BucketCount) = k
             /\ o.buckets[k].snapshot = Recount(log, OfBucket(log, o.buckets[k].id))
      /\ \A i \in DOMAIN log :
           /\ log[i].id \in Int /\ log[i].id <= id
           /\ Index(log[i].id, BucketCount) \in 0..(BucketCount - 1)
           /\ o.buckets[Index(log[i].id, BucketCount)].occupied
           /\ log[i].id <= o.buckets[Index(log[i].id, BucketCount)].id
  BY <1>1, ObserveKeeps
<1>4. slot \in 0..(BucketCount - 1)
  BY <1>3, IndexType
<1>5. /\ tw' = [o EXCEPT !.buckets[slot] = new]
      /\ observed' = Seen(at) /\ log' = Append(log, e)
  BY <1>2 DEF AddAt, TimeAdd
<1>6. log \in Seq(Entry) /\ e \in Entry /\ r \in Record
  BY <1>3 DEF TimeInv, TimeTypes, Entry, Recordable
<1>7. old = Recount(log, OfBucket(log, id))
  <2> DEFINE b == o.buckets[slot]
  <2>1. CASE b.occupied /\ b.id = id
    BY <1>3, <1>4, <2>1
  <2>2. CASE ~(b.occupied /\ b.id = id)
    <3>1. ASSUME NEW i \in DOMAIN log, log[i].id = id PROVE FALSE
      <4>1. b.occupied /\ id <= b.id
        BY <1>3, <3>1
      <4>2. b.id \in Int /\ b.id <= id
        BY <1>3, <1>4, <4>1
      <4> HIDE DEF b
      <4> QED BY <1>3, <2>2, <4>1, <4>2
    <3>2. OfBucket(log, id) = {}
      BY <3>1 DEF OfBucket
    <3>3. Recount(log, OfBucket(log, id)) = EmptySnapshot
      BY <1>6, <3>2, RecountType
    <3> QED BY <2>2, <3>3
  <2> QED BY <2>1, <2>2
<1>8. SnapshotAdd(old, r) = Recount(log', OfBucket(log', id))
  <2>1. e.id = id /\ e.record = r
    OBVIOUS
  <2> HIDE DEF e, id, old
  <2> QED BY <1>5, <1>6, <1>7, <2>1, RecountAdds
<1>9. /\ log' \in Seq(Entry) /\ DOMAIN log' = 1..(Len(log) + 1) /\ DOMAIN log = 1..Len(log)
      /\ \A i \in DOMAIN log : log'[i] = log[i]
      /\ log'[Len(log) + 1] = e
  BY <1>5, <1>6, AppendBucket
<1>10. new \in [id : Int, occupied : BOOLEAN, snapshot : Aggregate]
  <2>1. OfBucket(log', id) \in SUBSET DOMAIN log'
    BY DEF OfBucket
  <2>2. SnapshotAdd(old, r) \in Aggregate
    BY <1>8, <1>9, <2>1, RecountType
  <2> QED BY <1>3, <2>2
<1>11. e.id = id /\ new.id = id /\ new.occupied /\ new.snapshot = SnapshotAdd(old, r)
  OBVIOUS
<1> HIDE DEF new, old, e
<1>12. /\ tw' \in TimeWindows(BucketCount)
       /\ tw'.initialized = TRUE /\ tw'.lastBucketID = id
       /\ tw'.buckets = [o.buckets EXCEPT ![slot] = new]
  <2> HIDE DEF o, slot
  <2> QED BY <1>2, <1>4, <1>5, <1>10 DEF TimeWindows
<1>13. Progress' /\ observed' \in SUBSET Int
  BY <1>1, <1>5, <1>12, ProgressStep
<1>14. /\ tw'.buckets[slot] = new
       /\ \A k \in 0..(BucketCount - 1) : k # slot => tw'.buckets[k] = o.buckets[k]
  <2> HIDE DEF o, slot
  <2> QED BY <1>3, <1>4, <1>12
<1> HIDE DEF o, id
<1>15. Owned'
  <2> SUFFICES ASSUME NEW k \in 0..(BucketCount - 1), tw'.buckets[k].occupied
               PROVE  /\ tw'.initialized /\ tw'.buckets[k].id <= tw'.lastBucketID
                      /\ Index(tw'.buckets[k].id, BucketCount) = k
                      /\ tw'.buckets[k].snapshot
                           = Recount(log', OfBucket(log', tw'.buckets[k].id))
    BY DEF Owned
  <2>1. CASE k = slot
    <3>1. tw'.buckets[k].id = id /\ Index(id, BucketCount) = k
      BY <1>11, <1>14, <2>1
    <3> QED BY <1>3, <1>8, <1>11, <1>12, <1>14, <2>1, <3>1
  <2>2. CASE k # slot
    <3>1. tw'.buckets[k] = o.buckets[k]
      BY <1>14, <2>2
    <3> DEFINE own == o.buckets[k].id
    <3>2. /\ own <= id /\ Index(own, BucketCount) = k
          /\ o.buckets[k].snapshot = Recount(log, OfBucket(log, own))
      BY <1>3, <3>1
    <3>3. own # e.id
      BY <1>11, <2>2, <3>2
    <3>4. Recount(log', OfBucket(log', own)) = Recount(log, OfBucket(log, own))
      <4> HIDE DEF own
      <4> QED BY <1>5, <1>6, <3>3, RecountKeeps
    <3> QED BY <1>12, <3>1, <3>2, <3>4
  <2> QED BY <2>1, <2>2
<1>16. Replaced'
  <2> SUFFICES ASSUME NEW i \in DOMAIN log'
               PROVE  /\ tw'.buckets[Index(log'[i].id, BucketCount)].occupied
                      /\ log'[i].id <= tw'.buckets[Index(log'[i].id, BucketCount)].id
    BY DEF Replaced
  <2>1. CASE i = Len(log) + 1
    BY <1>3, <1>9, <1>11, <1>14, <2>1
  <2>2. CASE i # Len(log) + 1
    <3>1. i \in DOMAIN log /\ log'[i] = log[i]
      BY <1>6, <1>9, <2>2
    <3> DEFINE k == Index(log[i].id, BucketCount)
    <3>2. /\ log[i].id \in Int /\ log[i].id <= id /\ k \in 0..(BucketCount - 1)
          /\ o.buckets[k].occupied /\ log[i].id <= o.buckets[k].id
      BY <1>3, <3>1
    <3> HIDE DEF k
    <3>3. tw'.buckets[k].occupied /\ log[i].id <= tw'.buckets[k].id
      BY <1>11, <1>14, <3>2
    <3> QED BY <3>1, <3>3 DEF k
  <2> QED BY <2>1, <2>2
<1>17. TimeTypes'
  BY <1>9, <1>12, <1>13 DEF TimeTypes
<1> QED BY <1>13, <1>15, <1>16, <1>17 DEF TimeInv

\* The ring stays in order.
LEMMA TimeInvAlways == TimeSpec => []TimeInv
<1>1. TimeInit => TimeInv
  <2> SUFFICES ASSUME TimeInit PROVE TimeInv
    OBVIOUS
  <2>1. EmptySnapshot \in Aggregate
    BY DEF EmptySnapshot, Aggregate
  <2>2. TimeTypes
    BY <2>1 DEF TimeInit, NewTime, TimeTypes, TimeWindows
  <2>3. Progress
    BY DEF TimeInit, NewTime, Progress
  <2>4. Owned
    BY DEF TimeInit, NewTime, Owned
  <2>5. Replaced
    BY DEF TimeInit, Replaced
  <2> QED BY <2>2, <2>3, <2>4, <2>5 DEF TimeInv
<1>2. TimeInv /\ [TimeNext]_timeVars => TimeInv'
  <2> SUFFICES ASSUME TimeInv, [TimeNext]_timeVars PROVE TimeInv'
    OBVIOUS
  <2>1. ASSUME NEW at \in Instants, SnapshotAt(at) PROVE TimeInv'
    BY <2>1, SnapshotKeeps
  <2>2. ASSUME NEW at \in Instants, NEW r \in Recordable, AddAt(at, r) PROVE TimeInv'
    BY <2>2, AddKeeps
  <2>3. CASE UNCHANGED timeVars
    BY <2>3 DEF TimeInv, TimeTypes, Progress, Owned, Replaced, timeVars
  <2> QED BY <2>1, <2>2, <2>3 DEF TimeNext
<1> QED BY <1>1, <1>2, PTL DEF TimeSpec

-----------------------------------------------------------------------------
(* The loop of Snapshot *)

\* Adding up what the slots hold counts every place in some slot once.
LEMMA SumOverSlots ==
  ASSUME NEW n \in Nat, NEW P, IsFiniteSet(P), NEW slot \in [P -> 0..(n - 1)],
         NEW total \in [0..n -> Int], total[0] = 0,
         \A k \in 0..(n - 1) : total[k + 1] = total[k] + Cardinality({i \in P : slot[i] = k})
  PROVE  total[n] = Cardinality(P)
<1> DEFINE Below(k) == {i \in P : slot[i] < k}
           Right == {k \in Nat : k <= n => total[k] = Cardinality(Below(k))}
<1>1. 0 \in Right
  <2>1. Below(0) = {}
    OBVIOUS
  <2>2. Cardinality(Below(0)) = 0
    BY <2>1, FS_EmptySet
  <2> QED BY <2>2
<1>2. ASSUME NEW k \in Right PROVE k + 1 \in Right
  <2>1. SUFFICES ASSUME k + 1 <= n PROVE total[k + 1] = Cardinality(Below(k + 1))
    <3>1. k + 1 \in Nat
      OBVIOUS
    <3> HIDE DEF Below
    <3> QED BY <3>1
  <2> DEFINE Here == {i \in P : slot[i] = k}
  <2>2. k \in Nat /\ k \in 0..(n - 1) /\ total[k] = Cardinality(Below(k))
    BY <2>1
  <2>3. total[k + 1] = total[k] + Cardinality(Here)
    BY <2>2
  <2>4. \A i \in P : slot[i] \in Int
    OBVIOUS
  <2>5. Below(k + 1) = Below(k) \cup Here /\ Below(k) \cap Here = {}
    BY <2>2, <2>4
  <2>6. Below(k) \in SUBSET P /\ Here \in SUBSET P
    OBVIOUS
  <2> HIDE DEF Below, Here
  <2>7. IsFiniteSet(Below(k)) /\ IsFiniteSet(Here)
    BY <2>6, FS_Subset, Zenon
  <2>8. /\ Cardinality(Below(k) \cup Here) =
             Cardinality(Below(k)) + Cardinality(Here) - Cardinality(Below(k) \cap Here)
        /\ Cardinality(Below(k)) \in Nat /\ Cardinality(Here) \in Nat
    BY <2>7, FS_Union, FS_CardinalityType, Zenon
  <2>9. Cardinality(Below(k) \cap Here) = 0
    BY <2>5, FS_EmptySet
  <2> HIDE DEF Right
  <2>10. Cardinality(Below(k + 1)) = Cardinality(Below(k)) + Cardinality(Here)
    <3>1. Cardinality(Below(k + 1)) = Cardinality(Below(k) \cup Here)
      BY <2>5, Zenon
    <3> QED BY <2>8, <2>9, <3>1
  <2> QED BY <2>2, <2>3, <2>10
<1>3. n \in Right
  <2>1. Right \in SUBSET Nat
    OBVIOUS
  <2> HIDE DEF Right
  <2> QED BY <1>1, <1>2, <2>1, SetInduction
<1>4. Below(n) = P
  <2>1. \A i \in P : slot[i] < n
    OBVIOUS
  <2> QED BY <2>1
<1> HIDE DEF Below
<1> QED BY <1>3, <1>4

\* merge keeps the aggregate an aggregate.
LEMMA MergeType ==
  ASSUME NEW s \in Aggregate, NEW t \in Aggregate
  PROVE  Merge(s, t) \in Aggregate
BY DEF Merge, Aggregate

\* The recursive definition of the loop describes a function.
LEMMA MergedIs ==
  ASSUME NEW v, NEW n \in Nat, NEW B \in [0..(n - 1) -> Aggregate],
         \A k \in 0..(n - 1) : v.buckets[k].snapshot = B[k]
  PROVE  /\ Merged(v, n) \in [0..n -> Aggregate]
         /\ Merged(v, n)[0] = EmptySnapshot
         /\ \A k \in 0..(n - 1) :
              Merged(v, n)[k + 1] = IF Live(v, n, k) THEN Merge(Merged(v, n)[k], B[k])
                                    ELSE Merged(v, n)[k]
<1> DEFINE Loop(g) == [k \in 0..n |->
             IF k = 0 THEN EmptySnapshot
             ELSE IF Live(v, n, k - 1) THEN Merge(g[k - 1], v.buckets[k - 1].snapshot)
             ELSE g[k - 1]]
           Step == [k \in Nat |-> [s \in Aggregate |->
             IF k < n /\ Live(v, n, k) THEN Merge(s, B[k]) ELSE s]]
<1>1. \A s, t \in Aggregate : Merge(s, t) \in Aggregate
  BY MergeType
<1>2. EmptySnapshot \in Aggregate
  BY DEF EmptySnapshot, Aggregate
<1>3. Step \in [Nat -> [Aggregate -> Aggregate]]
  <2>1. \A k \in Nat : k < n => k \in 0..(n - 1)
    OBVIOUS
  <2> QED BY <1>1, <2>1
<1>4. PICK g : /\ g \in [Nat -> Aggregate]
               /\ g[0] = EmptySnapshot /\ \A k \in Nat : g[k + 1] = Step[k][g[k]]
  <2> HIDE DEF Step, Loop
  <2>1. PICK g : Iterates(g, Aggregate, EmptySnapshot, Step)
    BY <1>2, <1>3, Iteration
  <2> QED BY <2>1 DEF Iterates
<1> DEFINE h == [k \in 0..n |-> g[k]]
<1>5. h = Loop(h)
  <2>1. ASSUME NEW k \in 0..n PROVE h[k] = Loop(h)[k]
    <3>1. CASE k = 0
      BY <1>4, <3>1
    <3>2. CASE k > 0
      <4>1. k - 1 \in Nat /\ k - 1 \in 0..(n - 1) /\ k - 1 < n /\ k - 1 \in 0..n /\ (k - 1) + 1 = k
        BY <3>2
      <4>2. g[k] = Step[k - 1][g[k - 1]] /\ g[k - 1] \in Aggregate
        BY <1>4, <4>1
      <4>3. h[k] = g[k] /\ h[k - 1] = g[k - 1]
        BY <4>1
      <4>4. v.buckets[k - 1].snapshot = B[k - 1]
        BY <4>1
      <4>5. g[k] = IF Live(v, n, k - 1) THEN Merge(g[k - 1], B[k - 1]) ELSE g[k - 1]
        BY <4>1, <4>2
      <4> HIDE DEF h
      <4> QED BY <3>2, <4>1, <4>3, <4>4, <4>5
    <3> QED BY <3>1, <3>2
  <2> QED BY <2>1
<1>6. Merged(v, n) = CHOOSE f : f = Loop(f)
  BY DEF Merged
<1>7. Merged(v, n) = Loop(Merged(v, n))
  <2> HIDE DEF Loop, h
  <2> QED BY <1>5, <1>6, Zenon
<1> DEFINE M == Merged(v, n)
<1>8. /\ M[0] = EmptySnapshot
      /\ \A k \in 0..(n - 1) :
           M[k + 1] = IF Live(v, n, k) THEN Merge(M[k], B[k]) ELSE M[k]
  <2> HIDE DEF M
  <2>1. M = Loop(M)
    BY <1>7 DEF M
  <2>2. M[0] = EmptySnapshot
    BY <2>1
  <2>3. ASSUME NEW k \in 0..(n - 1)
        PROVE  M[k + 1] = IF Live(v, n, k) THEN Merge(M[k], B[k]) ELSE M[k]
    <3>1. k + 1 \in 0..n /\ k + 1 > 0 /\ (k + 1) - 1 = k
      OBVIOUS
    <3>2. Loop(M)[k + 1] = IF Live(v, n, k) THEN Merge(M[k], v.buckets[k].snapshot) ELSE M[k]
      BY <3>1
    <3>3. M[k + 1] = Loop(M)[k + 1]
      BY <2>1
    <3>4. v.buckets[k].snapshot = B[k]
      OBVIOUS
    <3> HIDE DEF Loop
    <3> QED BY <3>2, <3>3, <3>4
  <2> QED BY <2>2, <2>3
<1>9. M \in [0..n -> Aggregate]
  <2> DEFINE Typed == {k \in Nat : k <= n => M[k] \in Aggregate}
  <2>1. 0 \in Typed
    BY <1>2, <1>8
  <2>2. ASSUME NEW k \in Typed PROVE k + 1 \in Typed
    <3>1. SUFFICES ASSUME k + 1 <= n PROVE M[k + 1] \in Aggregate
      OBVIOUS
    <3>2. k \in 0..(n - 1) /\ M[k] \in Aggregate
      BY <3>1
    <3> HIDE DEF M
    <3> QED BY <1>1, <1>8, <3>2
  <2>3. Typed \in SUBSET Nat
    OBVIOUS
  <2>4. \A k \in Nat : k \in Typed
    <3> HIDE DEF Typed
    <3> QED BY <2>1, <2>2, <2>3, SetInduction
  <2>5. \A k \in 0..n : M[k] \in Aggregate
    BY <2>4
  <2>6. M = [k \in 0..n |-> M[k]]
    <3> HIDE DEF M
    <3>1. M = Loop(M)
      BY <1>7 DEF M
    <3> QED BY <3>1
  <2> HIDE DEF M
  <2> QED BY <2>5, <2>6
<1> QED BY <1>8, <1>9

\* The retained completions whose bucket has this slot.
InSlot(at, k) == {i \in Retained(at) : Index(log[i].id, BucketCount) = k}

\* A live slot counts them, and a slot that is skipped hides none.
LEMMA SlotHolds ==
  ASSUME TimeInv, NEW at \in Instants, NEW k \in 0..(BucketCount - 1)
  PROVE  LET o == TimeObserve(tw, BucketDuration, at)
         IN /\ Live(o, BucketCount, k) => o.buckets[k].snapshot = Recount(log, InSlot(at, k))
            /\ ~Live(o, BucketCount, k) => InSlot(at, k) = {}
<1> USE TimeWindowAssumption
<1> DEFINE o == TimeObserve(tw, BucketDuration, at)
           last == o.lastBucketID
<1>1. at \in Int
  OBVIOUS
<1>2. last = Max(Seen(at))
  BY <1>1, ObserveIs DEF TimeInv
<1>3. /\ o.buckets \in [0..(BucketCount - 1) ->
                          [id : Int, occupied : BOOLEAN, snapshot : Aggregate]]
      /\ last \in Int
      /\ \A j \in 0..(BucketCount - 1) :
           o.buckets[j].occupied =>
             /\ o.buckets[j].id <= last
             /\ Index(o.buckets[j].id, BucketCount) = j
             /\ o.buckets[j].snapshot = Recount(log, OfBucket(log, o.buckets[j].id))
      /\ \A i \in DOMAIN log :
           /\ log[i].id \in Int /\ log[i].id <= last
           /\ Index(log[i].id, BucketCount) \in 0..(BucketCount - 1)
           /\ o.buckets[Index(log[i].id, BucketCount)].occupied
           /\ log[i].id <= o.buckets[Index(log[i].id, BucketCount)].id
  BY <1>1, ObserveKeeps
<1>4. Retained(at) = {i \in DOMAIN log : log[i].id \in (last - BucketCount + 1)..last}
  BY <1>2 DEF Retained
<1>5. Live(o, BucketCount, k) <=>
        /\ o.buckets[k].occupied
        /\ o.buckets[k].id \in (last - (BucketCount - 1))..last
  BY DEF Live
<1> HIDE DEF o, last
<1> DEFINE own == o.buckets[k].id
<1>6. own \in Int
  BY <1>3
<1>7. ASSUME NEW i \in InSlot(at, k)
      PROVE  i \in DOMAIN log /\ Live(o, BucketCount, k) /\ log[i].id = own
  <2>1. /\ i \in DOMAIN log /\ log[i].id \in (last - BucketCount + 1)..last
        /\ Index(log[i].id, BucketCount) = k
    BY <1>4 DEF InSlot
  <2>2. log[i].id \in Int /\ o.buckets[k].occupied /\ log[i].id <= own
    BY <1>3, <2>1
  <2>3. own <= last /\ Index(own, BucketCount) = k
    BY <1>3, <2>2
  <2> HIDE DEF own
  <2>4. own < log[i].id + BucketCount /\ own \in (last - (BucketCount - 1))..last
    BY <1>3, <1>6, <2>1, <2>2, <2>3
  <2>5. log[i].id = own
    BY <1>6, <2>1, <2>2, <2>3, <2>4, Congruent DEF Index
  <2> QED BY <1>5, <2>1, <2>2, <2>4, <2>5 DEF own
<1>8. ASSUME Live(o, BucketCount, k)
      PROVE  o.buckets[k].snapshot = Recount(log, InSlot(at, k))
  <2>1. /\ o.buckets[k].snapshot = Recount(log, OfBucket(log, own))
        /\ Index(own, BucketCount) = k
        /\ own \in (last - (BucketCount - 1))..last
    BY <1>3, <1>5, <1>8
  <2>2. own \in (last - BucketCount + 1)..last
    <3> HIDE DEF own
    <3> QED BY <1>3, <1>6, <2>1
  <2>3. OfBucket(log, own) \subseteq InSlot(at, k)
    BY <1>4, <2>1, <2>2 DEF OfBucket, InSlot
  <2>4. InSlot(at, k) \subseteq OfBucket(log, own)
    BY <1>7 DEF OfBucket
  <2>5. InSlot(at, k) = OfBucket(log, own)
    BY <2>3, <2>4
  <2> QED BY <2>1, <2>5
<1>9. ~Live(o, BucketCount, k) => InSlot(at, k) = {}
  BY <1>7
<1> QED BY <1>8, <1>9 DEF o

\* One counter of the aggregate, summed up slot by slot.
LEMMA CounterOverSlots ==
  ASSUME TimeInv, NEW at \in Instants, NEW S, NEW total \in [0..BucketCount -> Int],
         total[0] = 0,
         \A k \in 0..(BucketCount - 1) :
           total[k + 1] = total[k] + Cardinality(Hits(log, InSlot(at, k), S))
  PROVE  total[BucketCount] = Cardinality(Hits(log, Retained(at), S))
<1> DEFINE P == Hits(log, Retained(at), S)
           slot == [i \in P |-> Index(log[i].id, BucketCount)]
<1>1. log \in Seq(Entry) /\ Retained(at) \in SUBSET DOMAIN log
  BY DEF TimeInv, TimeTypes, Retained
<1>2. IsFiniteSet(P)
  BY <1>1, HitsFinite
<1>3. slot \in [P -> 0..(BucketCount - 1)]
  <2>1. ASSUME NEW i \in P PROVE Index(log[i].id, BucketCount) \in 0..(BucketCount - 1)
    <3>1. i \in DOMAIN log
      BY <1>1 DEF Hits
    <3>2. log[i] \in Entry
      BY <1>1, <3>1
    <3>3. log[i].id \in Int
      BY <3>2 DEF Entry
    <3> QED BY <3>3, IndexType
  <2> QED BY <2>1
<1>4. \A k : Hits(log, InSlot(at, k), S) = {i \in P : slot[i] = k}
  BY DEF Hits, InSlot
<1>5. \A k \in 0..(BucketCount - 1) :
        total[k + 1] = total[k] + Cardinality({i \in P : slot[i] = k})
  <2> HIDE DEF P, slot
  <2> QED BY <1>4
<1>6. BucketCount \in Nat
  BY TimeWindowAssumption
<1> HIDE DEF P, slot
<1>7. total[BucketCount] = Cardinality(P)
  BY <1>2, <1>3, <1>5, <1>6, SumOverSlots
<1> QED BY <1>7 DEF P

(***************************************************************************)
(* For any ring and any bucket length, whatever instants Add and Snapshot  *)
(* were given and in whatever order, a snapshot counts exactly the         *)
(* completions of the BucketCount buckets that end with the latest one     *)
(* observed.                                                               *)
(***************************************************************************)
THEOREM SnapshotExact == TimeSpec => []SnapshotMatchesHistory
<1>1. TimeInv => SnapshotMatchesHistory
  <2> SUFFICES ASSUME TimeInv, NEW at \in Instants
               PROVE  TimeSnapshot(tw, BucketCount, BucketDuration, at)
                        = Recount(log, Retained(at))
    BY DEF SnapshotMatchesHistory
  <2> DEFINE o == TimeObserve(tw, BucketDuration, at)
             B == [k \in 0..(BucketCount - 1) |-> o.buckets[k].snapshot]
             M == Merged(o, BucketCount)
             R(k) == Recount(log, InSlot(at, k))
  <2>1. at \in Int /\ BucketCount \in Nat
    BY TimeWindowAssumption
  <2>2. o.buckets \in [0..(BucketCount - 1) ->
                         [id : Int, occupied : BOOLEAN, snapshot : Aggregate]]
    BY <2>1, ObserveKeeps
  <2>3. B \in [0..(BucketCount - 1) -> Aggregate]
    <3> HIDE DEF o
    <3> QED BY <2>2
  <2>4. /\ M \in [0..BucketCount -> Aggregate] /\ M[0] = EmptySnapshot
        /\ \A k \in 0..(BucketCount - 1) :
             M[k + 1] = IF Live(o, BucketCount, k) THEN Merge(M[k], B[k]) ELSE M[k]
    <3>1. \A k \in 0..(BucketCount - 1) : o.buckets[k].snapshot = B[k]
      OBVIOUS
    <3> HIDE DEF o, B
    <3> QED BY <2>1, <2>3, <3>1, MergedIs
  <2>5. log \in Seq(Entry) /\ \A k : InSlot(at, k) \in SUBSET DOMAIN log
    BY DEF TimeInv, TimeTypes, InSlot, Retained
  <2>6. \A s \in Aggregate : Merge(s, EmptySnapshot) = s
    BY DEF Merge, Aggregate, EmptySnapshot
  <2>7. ASSUME NEW k \in 0..(BucketCount - 1)
        PROVE  M[k + 1] = Merge(M[k], R(k)) /\ M[k] \in Aggregate /\ R(k) \in Aggregate
    <3>1. M[k] \in Aggregate /\ R(k) \in Aggregate
      <4>1. k \in 0..BucketCount
        BY <2>1
      <4> HIDE DEF M
      <4> QED BY <2>4, <2>5, <4>1, RecountType
    <3>2. CASE Live(o, BucketCount, k)
      <4>1. B[k] = R(k)
        BY <3>2, SlotHolds
      <4> HIDE DEF M, B, R, o
      <4> QED BY <2>4, <3>1, <3>2, <4>1
    <3>3. CASE ~Live(o, BucketCount, k)
      <4>1. R(k) = EmptySnapshot
        BY <2>5, <3>3, SlotHolds, RecountType
      <4> HIDE DEF M, B, R, o
      <4> QED BY <2>4, <2>6, <3>1, <3>3, <4>1
    <3> QED BY <3>2, <3>3, <3>1
  <2> HIDE DEF M
  <2> DEFINE Size(k, S) == Cardinality(Hits(log, InSlot(at, k), S))
             Adds(k) ==
               /\ M[k + 1].Classified = M[k].Classified + Size(k, Classified)
               /\ M[k + 1].Successes = M[k].Successes + Size(k, OfClass(Success))
               /\ M[k + 1].Failures = M[k].Failures + Size(k, OfClass(Failure))
               /\ M[k + 1].Ignored = M[k].Ignored + Size(k, OfClass(Ignored))
               /\ M[k + 1].SlowSuccess = M[k].SlowSuccess + Size(k, SlowOf(Success))
               /\ M[k + 1].SlowFailure = M[k].SlowFailure + Size(k, SlowOf(Failure))
  <2>8. \A k \in 0..(BucketCount - 1) : Adds(k)
    <3> SUFFICES ASSUME NEW k \in 0..(BucketCount - 1)
                 PROVE  Adds(k)
      OBVIOUS
    <3>1. M[k + 1] = Merge(M[k], R(k))
      BY <2>7
    <3>2. R(k) = [Classified  |-> Cardinality(Hits(log, InSlot(at, k), Classified)),
                  Successes   |-> Cardinality(Hits(log, InSlot(at, k), OfClass(Success))),
                  Failures    |-> Cardinality(Hits(log, InSlot(at, k), OfClass(Failure))),
                  Ignored     |-> Cardinality(Hits(log, InSlot(at, k), OfClass(Ignored))),
                  SlowSuccess |-> Cardinality(Hits(log, InSlot(at, k), SlowOf(Success))),
                  SlowFailure |-> Cardinality(Hits(log, InSlot(at, k), SlowOf(Failure)))]
      BY RecountIs
    <3> HIDE DEF R
    <3> QED BY <3>1, <3>2 DEF Merge
  <2>9. \A k \in 0..BucketCount :
          /\ M[k].Classified \in Int /\ M[k].Successes \in Int /\ M[k].Failures \in Int
          /\ M[k].Ignored \in Int /\ M[k].SlowSuccess \in Int /\ M[k].SlowFailure \in Int
    BY <2>4 DEF Aggregate
  <2>10. \A k \in 0..(BucketCount - 1) : k \in 0..BucketCount /\ k + 1 \in 0..BucketCount
    BY <2>1
  <2>11. BucketCount \in 0..BucketCount /\ 0 \in 0..BucketCount
    BY <2>1
  <2>12. M[BucketCount].Classified = Cardinality(Hits(log, Retained(at), Classified))
    <3> DEFINE total == [k \in 0..BucketCount |-> M[k].Classified]
    <3>1. total \in [0..BucketCount -> Int]
      BY <2>9
    <3>2. total[0] = 0 /\ total[BucketCount] = M[BucketCount].Classified
      BY <2>4, <2>11 DEF EmptySnapshot
    <3>3. \A k \in 0..(BucketCount - 1) :
            total[k + 1] = total[k] + Cardinality(Hits(log, InSlot(at, k), Classified))
      BY <2>8, <2>10
    <3> HIDE DEF total
    <3> QED BY <3>1, <3>2, <3>3, CounterOverSlots
  <2>13. M[BucketCount].Successes = Cardinality(Hits(log, Retained(at), OfClass(Success)))
    <3> DEFINE total == [k \in 0..BucketCount |-> M[k].Successes]
    <3>1. total \in [0..BucketCount -> Int]
      BY <2>9
    <3>2. total[0] = 0 /\ total[BucketCount] = M[BucketCount].Successes
      BY <2>4, <2>11 DEF EmptySnapshot
    <3>3. \A k \in 0..(BucketCount - 1) :
            total[k + 1] = total[k] + Cardinality(Hits(log, InSlot(at, k), OfClass(Success)))
      BY <2>8, <2>10
    <3> HIDE DEF total
    <3> QED BY <3>1, <3>2, <3>3, CounterOverSlots
  <2>14. M[BucketCount].Failures = Cardinality(Hits(log, Retained(at), OfClass(Failure)))
    <3> DEFINE total == [k \in 0..BucketCount |-> M[k].Failures]
    <3>1. total \in [0..BucketCount -> Int]
      BY <2>9
    <3>2. total[0] = 0 /\ total[BucketCount] = M[BucketCount].Failures
      BY <2>4, <2>11 DEF EmptySnapshot
    <3>3. \A k \in 0..(BucketCount - 1) :
            total[k + 1] = total[k] + Cardinality(Hits(log, InSlot(at, k), OfClass(Failure)))
      BY <2>8, <2>10
    <3> HIDE DEF total
    <3> QED BY <3>1, <3>2, <3>3, CounterOverSlots
  <2>15. M[BucketCount].Ignored = Cardinality(Hits(log, Retained(at), OfClass(Ignored)))
    <3> DEFINE total == [k \in 0..BucketCount |-> M[k].Ignored]
    <3>1. total \in [0..BucketCount -> Int]
      BY <2>9
    <3>2. total[0] = 0 /\ total[BucketCount] = M[BucketCount].Ignored
      BY <2>4, <2>11 DEF EmptySnapshot
    <3>3. \A k \in 0..(BucketCount - 1) :
            total[k + 1] = total[k] + Cardinality(Hits(log, InSlot(at, k), OfClass(Ignored)))
      BY <2>8, <2>10
    <3> HIDE DEF total
    <3> QED BY <3>1, <3>2, <3>3, CounterOverSlots
  <2>16. M[BucketCount].SlowSuccess = Cardinality(Hits(log, Retained(at), SlowOf(Success)))
    <3> DEFINE total == [k \in 0..BucketCount |-> M[k].SlowSuccess]
    <3>1. total \in [0..BucketCount -> Int]
      BY <2>9
    <3>2. total[0] = 0 /\ total[BucketCount] = M[BucketCount].SlowSuccess
      BY <2>4, <2>11 DEF EmptySnapshot
    <3>3. \A k \in 0..(BucketCount - 1) :
            total[k + 1] = total[k] + Cardinality(Hits(log, InSlot(at, k), SlowOf(Success)))
      BY <2>8, <2>10
    <3> HIDE DEF total
    <3> QED BY <3>1, <3>2, <3>3, CounterOverSlots
  <2>17. M[BucketCount].SlowFailure = Cardinality(Hits(log, Retained(at), SlowOf(Failure)))
    <3> DEFINE total == [k \in 0..BucketCount |-> M[k].SlowFailure]
    <3>1. total \in [0..BucketCount -> Int]
      BY <2>9
    <3>2. total[0] = 0 /\ total[BucketCount] = M[BucketCount].SlowFailure
      BY <2>4, <2>11 DEF EmptySnapshot
    <3>3. \A k \in 0..(BucketCount - 1) :
            total[k + 1] = total[k] + Cardinality(Hits(log, InSlot(at, k), SlowOf(Failure)))
      BY <2>8, <2>10
    <3> HIDE DEF total
    <3> QED BY <3>1, <3>2, <3>3, CounterOverSlots
  <2>18. M[BucketCount] = Recount(log, Retained(at))
    <3>1. M[BucketCount] \in Aggregate
      BY <2>4, <2>11
    <3> QED BY <2>12, <2>13, <2>14, <2>15, <2>16, <2>17, <3>1, RecountIs DEF Aggregate
  <2> QED BY <2>18 DEF TimeSnapshot, M
<1> QED BY <1>1, TimeInvAlways, PTL

-----------------------------------------------------------------------------
(* Construction: lists of checks *)

\* The fields an InvalidConfigError can name.
FieldNames ==
  {"Name", "Window", "Window.Size", "Window.BucketDuration", "Window.BucketCount",
   "MinimumThroughput", "SlowCallDuration", "Opening", "Opening.Combination",
   "Opening.IgnoredBehavior", "Opening.FailureRatio", "Opening.SlowRatio",
   "Opening.FailureCount", "Opening.SlowCount", "OpenDuration", "OpenDuration.Initial",
   "OpenDuration.Multiplier", "OpenDuration.Maximum", "HalfOpen", "HalfOpen.MaxProbes",
   "HalfOpen.FailureAction", "HalfOpen.SuccessRatio", "HalfOpen.RequiredSuccesses", "Clock",
   "PermitTTL", "HalfOpenAdmission", "HalfOpenAdmission.MaxWait", "EventDelivery",
   "EventDelivery.Buffer", "EventDelivery.Overflow", "OpenDurationJitter", "Random"}

\* A check names a field and says whether it fails.
Check == FieldNames \X BOOLEAN

\* The places of a list where a check fails, and the fields at fault.
Failed(checks) == {i \in DOMAIN checks : checks[i][2]}
Faults(checks) == {checks[i][1] : i \in Failed(checks)}

\* A list passes as a whole when it names no field.
LEMMA NoFault ==
  ASSUME NEW s
  PROVE  Faults(s) = {} <=> Failed(s) = {}
BY DEF Faults

\* A list that follows another one adds its faults.
LEMMA Joined ==
  ASSUME NEW s \in Seq(Check), NEW t \in Seq(Check)
  PROVE  s \o t \in Seq(Check) /\ Faults(s \o t) = Faults(s) \cup Faults(t)
<1>1. s \o t \in Seq(Check) /\ Len(s \o t) = Len(s) + Len(t)
  OBVIOUS
<1>2. /\ \A i \in 1..Len(s) : (s \o t)[i] = s[i]
      /\ \A i \in 1..Len(t) : (s \o t)[Len(s) + i] = t[i]
  OBVIOUS
<1>3. /\ Len(s) \in Nat /\ Len(t) \in Nat
      /\ DOMAIN s = 1..Len(s) /\ DOMAIN t = 1..Len(t) /\ DOMAIN (s \o t) = 1..(Len(s) + Len(t))
  BY <1>1
<1>4. ASSUME NEW i \in 1..Len(t) PROVE Len(s) + i \in 1..(Len(s) + Len(t))
  BY <1>3
<1>5. ASSUME NEW i \in 1..Len(s) PROVE i \in 1..(Len(s) + Len(t))
  BY <1>3
<1>6. ASSUME NEW i \in 1..(Len(s) + Len(t)), i \notin 1..Len(s)
      PROVE  i - Len(s) \in 1..Len(t) /\ i = Len(s) + (i - Len(s))
  BY <1>3, <1>6
<1>7. ASSUME NEW f \in Faults(s) PROVE f \in Faults(s \o t)
  <2>1. PICK i \in 1..Len(s) : s[i][2] /\ f = s[i][1]
    BY <1>3 DEF Faults, Failed
  <2>2. i \in DOMAIN (s \o t) /\ (s \o t)[i] = s[i]
    BY <1>2, <1>3, <1>5
  <2> QED BY <2>1, <2>2 DEF Faults, Failed
<1>8. ASSUME NEW f \in Faults(t) PROVE f \in Faults(s \o t)
  <2>1. PICK i \in 1..Len(t) : t[i][2] /\ f = t[i][1]
    BY <1>3 DEF Faults, Failed
  <2>2. Len(s) + i \in DOMAIN (s \o t) /\ (s \o t)[Len(s) + i] = t[i]
    BY <1>2, <1>3, <1>4
  <2> QED BY <2>1, <2>2 DEF Faults, Failed
<1>9. ASSUME NEW f \in Faults(s \o t) PROVE f \in Faults(s) \cup Faults(t)
  <2>1. PICK i \in 1..(Len(s) + Len(t)) : (s \o t)[i][2] /\ f = (s \o t)[i][1]
    BY <1>3 DEF Faults, Failed
  <2>2. CASE i \in 1..Len(s)
    BY <1>2, <1>3, <2>1, <2>2 DEF Faults, Failed
  <2>3. CASE i \notin 1..Len(s)
    <3>1. i - Len(s) \in 1..Len(t) /\ (s \o t)[i] = t[i - Len(s)]
      BY <1>2, <1>6, <2>3
    <3> QED BY <1>3, <2>1, <3>1 DEF Faults, Failed
  <2> QED BY <2>2, <2>3
<1> QED BY <1>1, <1>7, <1>8, <1>9

\* A list of checks, and the fields it finds at fault.
Names(s, F) == s \in Seq(Check) /\ Faults(s) = F

\* What one check contributes.
Fault(a) == {f \in {a[1]} : a[2]}

\* A check is a field and a verdict.
LEMMA IsCheck ==
  ASSUME NEW m \in FieldNames, NEW p \in BOOLEAN
  PROVE  <<m, p>> \in Check
BY Zenon DEF Check

\* Lists written out.
LEMMA NoChecks == Names(<< >>, {})
BY DEF Names, Faults, Failed

\* A list of checks has the faults of its members.
LEMMA OneCheck ==
  ASSUME NEW a \in Check
  PROVE  Names(<< a >>, Fault(a))
BY DEF Names, Faults, Failed, Fault

\* The same of two checks.
LEMMA TwoChecks ==
  ASSUME NEW a \in Check, NEW b \in Check
  PROVE  Names(<< a, b >>, Fault(a) \cup Fault(b))
BY DEF Names, Faults, Failed, Fault

\* The same of three checks.
LEMMA ThreeChecks ==
  ASSUME NEW a \in Check, NEW b \in Check, NEW d \in Check
  PROVE  Names(<< a, b, d >>, Fault(a) \cup Fault(b) \cup Fault(d))
BY DEF Names, Faults, Failed, Fault

\* The same of four checks.
LEMMA FourChecks ==
  ASSUME NEW a \in Check, NEW b \in Check, NEW d \in Check, NEW e \in Check
  PROVE  Names(<< a, b, d, e >>, Fault(a) \cup Fault(b) \cup Fault(d) \cup Fault(e))
BY DEF Names, Faults, Failed, Fault

\* The same of seven checks.
LEMMA SevenChecks ==
  ASSUME NEW a \in Check, NEW b \in Check, NEW d \in Check, NEW e \in Check,
         NEW g \in Check, NEW h \in Check, NEW i \in Check
  PROVE  Names(<< a, b, d, e, g, h, i >>,
               Fault(a) \cup Fault(b) \cup Fault(d) \cup Fault(e) \cup Fault(g)
                 \cup Fault(h) \cup Fault(i))
BY DEF Names, Faults, Failed, Fault

\* Some check fails first.
LEMMA LeastPlace ==
  ASSUME NEW s \in Seq(Check), Failed(s) # {}
  PROVE  Min(Failed(s)) \in Failed(s) /\ \A i \in Failed(s) : Min(Failed(s)) <= i
<1>1. Failed(s) \in SUBSET Nat
  BY DEF Failed
<1>2. \E x \in Failed(s) : \A y \in Failed(s) : x <= y
  BY <1>1, LeastElement
<1>3. Min(Failed(s)) = CHOOSE x \in Failed(s) : \A y \in Failed(s) : x <= y
  BY Zenon DEF Min
<1> QED BY <1>2, <1>3, Zenon

\* The field at fault is that of the first check to fail.
LEMMA FirstFault ==
  ASSUME NEW c, Checks(c) \in Seq(Check)
  PROVE  /\ InvalidField(c) = NoError <=> Faults(Checks(c)) = {}
         /\ InvalidField(c) # NoError => InvalidField(c) \in Faults(Checks(c))
<1> DEFINE s == Checks(c)
<1>1. InvalidField(c) = IF Failed(s) = {} THEN NoError ELSE s[Min(Failed(s))][1]
  BY Zenon DEF InvalidField, Failed
<1>2. CASE Failed(s) = {}
  BY <1>1, <1>2, NoFault
<1>3. CASE Failed(s) # {}
  <2>1. Min(Failed(s)) \in Failed(s)
    BY <1>3, LeastPlace
  <2>2. InvalidField(c) \in Faults(s)
    BY <1>1, <1>3, <2>1 DEF Faults
  <2>3. s[Min(Failed(s))] \in Check
    BY <2>1 DEF Failed
  <2>4. s[Min(Failed(s))][1] \in FieldNames
    BY <2>3 DEF Check
  <2>5. InvalidField(c) # NoError
    BY <1>1, <1>3, <2>4 DEF FieldNames, NoError
  <2> QED BY <1>3, <2>2, <2>5, NoFault
<1> QED BY <1>2, <1>3
\* A check that always fails.
LEMMA NeverPasses ==
  ASSUME NEW m \in FieldNames
  PROVE  Names(<< <<m, TRUE>> >>, {m})
<1>1. <<m, TRUE>> \in Check
  BY IsCheck
<1>2. Names(<< <<m, TRUE>> >>, Fault(<<m, TRUE>>))
  BY <1>1, OneCheck, Zenon
<1> QED BY <1>2 DEF Fault

-----------------------------------------------------------------------------
(* Construction: the checks of each part *)

\* The window: without a fault, its constructor will not fail.
LEMMA WindowFaults ==
  ASSUME NEW win \in Windows
  PROVE  /\ WindowChecks(win) \in Seq(Check)
         /\ Faults(WindowChecks(win)) \subseteq {"Window", "Window.Size", "Window.BucketDuration",
                                               "Window.BucketCount"}
         /\ win = Nil => Faults(WindowChecks(win)) = {}
         /\ Faults(WindowChecks(win)) = {} =>
              /\ ~ConstructorFails(NormalWindow(win))
              /\ win.type # "TimeWindow" => CountWindowSize(win) \in Nat \ {0}
<1> USE ConfigAssumption
<1>1. win.type \in {"nil", "unsupported", "CountWindow", "TimeWindow"}
  BY DEF Windows, Nil, Unsupported
<1>2. win = Nil => win.type = "nil"
  BY DEF Nil
<1>3. {"Window", "Window.Size", "Window.BucketDuration", "Window.BucketCount"} \subseteq FieldNames
  BY DEF FieldNames
<1>4. CASE win.type = "nil"
  <2>1. WindowChecks(win) = << >>
    BY <1>4, Zenon DEF WindowChecks
  <2>2. CountWindowSize(win) = DefaultCountWindowSize
    BY <1>4, Zenon DEF CountWindowSize
  <2>3. NormalWindow(win) = [type |-> "CountWindow", Size |-> DefaultCountWindowSize]
    BY <1>4, <2>2 DEF NormalWindow
  <2>4. ~ConstructorFails(NormalWindow(win))
    BY <2>3 DEF ConstructorFails
  <2> QED BY <2>1, <2>2, <2>4, NoChecks DEF Names
<1>5. CASE win.type = "CountWindow"
  <2>1. WindowChecks(win) = << <<"Window.Size", win.Size <= 0>>,
                             <<"Window.Size", win.Size > MaxCountSize>> >>
    BY <1>5, Zenon DEF WindowChecks
  <2>2. CountWindowSize(win) = win.Size
    BY <1>5, Zenon DEF CountWindowSize
  <2>3. win.Size \in Nat
    BY <1>5 DEF Windows, Nil, Unsupported
  <2>4. (win.Size <= 0) \in BOOLEAN /\ (win.Size > MaxCountSize) \in BOOLEAN
    OBVIOUS
  <2>5. /\ WindowChecks(win) \in Seq(Check)
        /\ \A f : f \in Faults(WindowChecks(win)) <=>
             (f = "Window.Size" /\ win.Size <= 0) \/ (f = "Window.Size" /\ win.Size > MaxCountSize)
    <3>1. /\ <<"Window.Size", win.Size <= 0>> \in Check
          /\ <<"Window.Size", win.Size > MaxCountSize>> \in Check
      BY <1>3, <2>4, IsCheck, Zenon
    <3>2. Names(WindowChecks(win), Fault(<<"Window.Size", win.Size <= 0>>)
                                   \cup Fault(<<"Window.Size", win.Size > MaxCountSize>>))
      BY <2>1, <3>1, TwoChecks, Zenon
    <3> QED BY <3>2 DEF Names, Fault
  <2>6. NormalWindow(win) = [type |-> "CountWindow", Size |-> win.Size]
    BY <1>5, <2>2 DEF NormalWindow
  <2>7. Faults(WindowChecks(win)) = {} => ~(win.Size <= 0) /\ ~(win.Size > MaxCountSize)
    BY <2>5
  <2>8. Faults(WindowChecks(win)) = {} => ~ConstructorFails(NormalWindow(win))
    BY <2>6, <2>7 DEF ConstructorFails
  <2> QED BY <1>2, <1>5, <2>2, <2>3, <2>5, <2>7, <2>8
<1>6. CASE win.type = "TimeWindow"
  <2>1. WindowChecks(win) = << <<"Window.BucketDuration", win.BucketDuration <= 0>>,
                             <<"Window.BucketCount", win.BucketCount <= 0>>,
                             <<"Window.BucketCount", win.BucketCount > MaxBucketCount>>,
                             <<"Window", IntervalOverflows(win)>> >>
    BY <1>6, Zenon DEF WindowChecks
  <2>2. /\ (win.BucketDuration <= 0) \in BOOLEAN /\ (win.BucketCount <= 0) \in BOOLEAN
        /\ (win.BucketCount > MaxBucketCount) \in BOOLEAN /\ IntervalOverflows(win) \in BOOLEAN
    BY DEF IntervalOverflows
  <2>3. /\ WindowChecks(win) \in Seq(Check)
        /\ \A f : f \in Faults(WindowChecks(win)) <=>
             \/ f = "Window.BucketDuration" /\ win.BucketDuration <= 0
             \/ f = "Window.BucketCount" /\ win.BucketCount <= 0
             \/ f = "Window.BucketCount" /\ win.BucketCount > MaxBucketCount
             \/ f = "Window" /\ IntervalOverflows(win)
    <3> DEFINE a == <<"Window.BucketDuration", win.BucketDuration <= 0>>
               b == <<"Window.BucketCount", win.BucketCount <= 0>>
               d == <<"Window.BucketCount", win.BucketCount > MaxBucketCount>>
               e == <<"Window", IntervalOverflows(win)>>
    <3>1. a \in Check /\ b \in Check /\ d \in Check /\ e \in Check
      BY <1>3, <2>2, IsCheck, Zenon
    <3>2. Names(<< a, b, d, e >>, Fault(a) \cup Fault(b) \cup Fault(d) \cup Fault(e))
      <4> HIDE DEF a, b, d, e
      <4> QED BY <3>1, FourChecks
    <3> QED BY <2>1, <3>2 DEF Names, Fault
  <2>4. NormalWindow(win) = win
    BY <1>6 DEF NormalWindow
  <2>5. Faults(WindowChecks(win)) = {} => ~ConstructorFails(win)
    BY <1>6, <2>3 DEF ConstructorFails
  <2> QED BY <1>2, <1>6, <2>3, <2>4, <2>5
<1>7. CASE win.type = "unsupported"
  <2>1. WindowChecks(win) = << <<"Window", TRUE>> >>
    BY <1>7, Zenon DEF WindowChecks
  <2>2. Names(WindowChecks(win), {"Window"})
    BY <1>3, <2>1, NeverPasses
  <2> QED BY <1>2, <1>7, <2>2 DEF Names
<1> QED BY <1>1, <1>4, <1>5, <1>6, <1>7

\* What a caller can write into the two policies a Config points to, and into
\* the Config.
OpeningWritten(rules) ==
  \/ rules = Nil
  \/ /\ rules \in [DOMAIN OpeningChoices ->
                    UNION {OpeningChoices[f] : f \in DOMAIN OpeningChoices}]
     /\ \A f \in DOMAIN OpeningChoices : rules[f] \in OpeningChoices[f]

\* The same of HalfOpen.
HalfOpenWritten(policy) ==
  \/ policy = Nil
  \/ /\ policy \in [DOMAIN HalfOpenChoices ->
                     UNION {HalfOpenChoices[f] : f \in DOMAIN HalfOpenChoices}]
     /\ \A f \in DOMAIN HalfOpenChoices : policy[f] \in HalfOpenChoices[f]

\* A Config a caller can have written.
Written(c) ==
  /\ DOMAIN c = DOMAIN ZeroConfig
  /\ \A f \in DOMAIN FieldChoices : c[f] \in FieldChoices[f]
  /\ OpeningWritten(c.Opening) /\ HalfOpenWritten(c.HalfOpen)

\* The fields one by one.
LEMMA FieldsOf ==
  ASSUME NEW c, Written(c)
  PROVE  /\ c.Name \in {0, 1, MaxNameBytes, MaxNameBytes + 1}
         /\ c.Window \in Windows
         /\ c.MinimumThroughput \in {-1, 0, 1, MaxCountSize, MaxCountSize + 1}
         /\ c.SlowCallDuration \in {-1, 0, 1} /\ c.PermitTTL \in {-1, 0, 1}
         /\ c.OpenDuration \in Durations
         /\ c.Clock \in {Nil, TypedNil, Given} /\ c.Random \in {Nil, TypedNil, Given}
         /\ c.HalfOpenAdmission \in Admissions
         /\ c.Observer \in {Nil, Given} /\ c.EventDelivery \in Deliveries
         /\ c.OpenDurationJitter \in {NaN, -50, 0, 50, 100, Inf}
BY DEF Written, FieldChoices

\* The fields of Opening one by one.
LEMMA OpeningOf ==
  ASSUME NEW r, OpeningWritten(r), r # Nil
  PROVE  /\ r.ConsecutiveFailures \in {0, 1, MaxCountSize + 1}
         /\ r.FailureCount \in {0, MaxCountSize, MaxCountSize + 1}
         /\ r.FailureRatio \in Floats
         /\ r.SlowCount \in {0, MaxCountSize, MaxCountSize + 1}
         /\ r.SlowRatio \in Floats
         /\ r.Combination \in {OpenWhenAny, OpenWhenAll, "unknown"}
         /\ r.IgnoredBehavior \in {PreserveConsecutiveFailures, ResetConsecutiveFailures, "unknown"}
         /\ DOMAIN r = DOMAIN OpeningChoices
BY DEF OpeningWritten, OpeningChoices

\* The fields of HalfOpen one by one.
LEMMA HalfOpenOf ==
  ASSUME NEW p, HalfOpenWritten(p), p # Nil
  PROVE  /\ p.MaxProbes \in {0, 1, MaxHalfOpenProbes, MaxHalfOpenProbes + 1}
         /\ p.RequiredSuccesses \in {-1, 0, 1, MaxHalfOpenProbes, MaxHalfOpenProbes + 1}
         /\ p.SuccessRatio \in Floats
         /\ p.FailureAction \in {ReopenImmediately, ReopenAfterSample, "unknown"}
         /\ DOMAIN p = DOMAIN HalfOpenChoices
BY DEF HalfOpenWritten, HalfOpenChoices

\* A ratio that passes is a percentage.
LEMMA RatioPasses ==
  ASSUME NEW x \in Floats
  PROVE  InvalidRatio(x) \in BOOLEAN /\ (~InvalidRatio(x) => x \in Percent)
BY DEF Floats, InvalidRatio, finite, Less, NaN, Inf, Percent

\* The opening rules.
LEMMA OpeningFaults ==
  ASSUME NEW r, OpeningWritten(r)
  PROVE  /\ OpeningChecks(r) \in Seq(Check)
         /\ r = Nil => Faults(OpeningChecks(r)) = {}
         /\ r # Nil => \A f : f \in Faults(OpeningChecks(r)) <=>
              \/ f = "Opening.Combination" /\ r.Combination = "unknown"
              \/ f = "Opening.IgnoredBehavior" /\ r.IgnoredBehavior = "unknown"
              \/ f = "Opening.FailureRatio" /\ InvalidRatio(r.FailureRatio)
              \/ f = "Opening.SlowRatio" /\ InvalidRatio(r.SlowRatio)
              \/ f = "Opening" /\ (\A k \in Rules : r[k] = 0)
<1>1. CASE r = Nil
  <2>1. OpeningChecks(r) = << >>
    BY <1>1 DEF OpeningChecks
  <2> QED BY <1>1, <2>1, NoChecks DEF Names
<1>2. CASE r # Nil
  <2> DEFINE s == << <<"Opening.Combination", r.Combination = "unknown">>,
                     <<"Opening.IgnoredBehavior", r.IgnoredBehavior = "unknown">> >>
             t == << <<"Opening.FailureRatio", InvalidRatio(r.FailureRatio)>>,
                     <<"Opening.SlowRatio", InvalidRatio(r.SlowRatio)>> >>
             u == << <<"Opening", \A k \in Rules : r[k] = 0>> >>
  <2>1. OpeningChecks(r) = s \o t \o u
    BY <1>2 DEF OpeningChecks, RatioChecks
  <2>2. /\ "Opening" \in FieldNames /\ "Opening.Combination" \in FieldNames
        /\ "Opening.IgnoredBehavior" \in FieldNames /\ "Opening.FailureRatio" \in FieldNames
        /\ "Opening.SlowRatio" \in FieldNames
    BY DEF FieldNames
  <2>3. InvalidRatio(r.FailureRatio) \in BOOLEAN /\ InvalidRatio(r.SlowRatio) \in BOOLEAN
    BY <1>2, OpeningOf, RatioPasses
  <2>4. /\ (r.Combination = "unknown") \in BOOLEAN /\ (r.IgnoredBehavior = "unknown") \in BOOLEAN
        /\ (\A k \in Rules : r[k] = 0) \in BOOLEAN
    OBVIOUS
  <2>5. s \in Seq(Check) /\ \A f : f \in Faults(s) <=>
          \/ f = "Opening.Combination" /\ r.Combination = "unknown"
          \/ f = "Opening.IgnoredBehavior" /\ r.IgnoredBehavior = "unknown"
    <3>1. /\ <<"Opening.Combination", r.Combination = "unknown">> \in Check
          /\ <<"Opening.IgnoredBehavior", r.IgnoredBehavior = "unknown">> \in Check
      BY <2>2, <2>4, IsCheck, Zenon
    <3>2. Names(s, Fault(<<"Opening.Combination", r.Combination = "unknown">>)
                     \cup Fault(<<"Opening.IgnoredBehavior", r.IgnoredBehavior = "unknown">>))
      BY <3>1, TwoChecks, Zenon
    <3> QED BY <3>2 DEF Names, Fault
  <2>6. t \in Seq(Check) /\ \A f : f \in Faults(t) <=>
          \/ f = "Opening.FailureRatio" /\ InvalidRatio(r.FailureRatio)
          \/ f = "Opening.SlowRatio" /\ InvalidRatio(r.SlowRatio)
    <3>1. /\ <<"Opening.FailureRatio", InvalidRatio(r.FailureRatio)>> \in Check
          /\ <<"Opening.SlowRatio", InvalidRatio(r.SlowRatio)>> \in Check
      BY <2>2, <2>3, IsCheck, Zenon
    <3>2. Names(t, Fault(<<"Opening.FailureRatio", InvalidRatio(r.FailureRatio)>>)
                     \cup Fault(<<"Opening.SlowRatio", InvalidRatio(r.SlowRatio)>>))
      BY <3>1, TwoChecks, Zenon
    <3> QED BY <3>2 DEF Names, Fault
  <2>7. u \in Seq(Check)
        /\ \A f : f \in Faults(u) <=> f = "Opening" /\ (\A k \in Rules : r[k] = 0)
    <3>1. <<"Opening", \A k \in Rules : r[k] = 0>> \in Check
      BY <2>2, <2>4, IsCheck, Zenon
    <3>2. Names(u, Fault(<<"Opening", \A k \in Rules : r[k] = 0>>))
      BY <3>1, OneCheck, Zenon
    <3> QED BY <3>2 DEF Names, Fault
  <2> HIDE DEF s, t, u
  <2>8. s \o t \in Seq(Check) /\ Faults(s \o t) = Faults(s) \cup Faults(t)
    BY <2>5, <2>6, Joined
  <2>9. /\ s \o t \o u \in Seq(Check)
        /\ Faults(s \o t \o u) = Faults(s) \cup Faults(t) \cup Faults(u)
    BY <2>7, <2>8, Joined
  <2> QED BY <1>2, <2>1, <2>5, <2>6, <2>7, <2>9
<1> QED BY <1>1, <1>2

\* Without a fault they are valid.
LEMMA OpeningPasses ==
  ASSUME NEW r, OpeningWritten(r), Faults(OpeningChecks(r)) = {}
  PROVE  ValidOpening(NormalOpening(r))
<1> USE ConfigAssumption
<1>1. CASE r = Nil
  <2>1. NormalOpening(r) = [ZeroOpening EXCEPT !.FailureRatio = 50]
    BY <1>1 DEF NormalOpening
  <2> QED BY <2>1 DEF ValidOpening, ZeroOpening, OpeningRules, Rules, Percent, OpenWhenAny,
                PreserveConsecutiveFailures
<1>2. CASE r # Nil
  <2>1. /\ r.Combination # "unknown" /\ r.IgnoredBehavior # "unknown"
        /\ ~InvalidRatio(r.FailureRatio) /\ ~InvalidRatio(r.SlowRatio)
        /\ \E k \in Rules : r[k] # 0
    BY <1>2, OpeningFaults
  <2>2. r.FailureRatio \in Percent /\ r.SlowRatio \in Percent
    BY <1>2, <2>1, OpeningOf, RatioPasses
  <2>3. r.ConsecutiveFailures \in Nat /\ r.FailureCount \in Nat /\ r.SlowCount \in Nat
    BY <1>2, OpeningOf
  <2>4. /\ r.Combination \in {OpenWhenAny, OpenWhenAll}
        /\ r.IgnoredBehavior \in {PreserveConsecutiveFailures, ResetConsecutiveFailures}
    BY <1>2, <2>1, OpeningOf
  <2>5. r \in OpeningRules
    BY <1>2, <2>2, <2>3, <2>4 DEF OpeningRules, OpeningWritten, OpeningChoices
  <2>6. \A k \in Rules : r[k] \in Nat
    BY <2>2, <2>3 DEF Rules, Percent
  <2>7. \E k \in Rules : r[k] > 0
    BY <2>1, <2>6
  <2>8. NormalOpening(r) = r
    BY <1>2 DEF NormalOpening
  <2> QED BY <2>5, <2>7, <2>8 DEF ValidOpening
<1> QED BY <1>1, <1>2
\* The rules that a count window must be able to meet.
LEMMA CapacityFaults ==
  ASSUME NEW c, Written(c)
  PROVE  /\ CapacityChecks(c) \in Seq(Check)
         /\ \A f : f \in Faults(CapacityChecks(c)) <=>
              /\ c.Window.type # "TimeWindow"
              /\ \/ /\ f = "Opening.FailureCount"
                    /\ NormalOpening(c.Opening).FailureCount > CountWindowSize(c.Window)
                 \/ /\ f = "Opening.SlowCount"
                    /\ NormalOpening(c.Opening).SlowCount > CountWindowSize(c.Window)
<1> DEFINE limited == c.Window.type # "TimeWindow"
           p == limited /\ NormalOpening(c.Opening).FailureCount > CountWindowSize(c.Window)
           q == limited /\ NormalOpening(c.Opening).SlowCount > CountWindowSize(c.Window)
           a == <<"Opening.FailureCount", p>>
           b == <<"Opening.SlowCount", q>>
<1>1. CapacityChecks(c) = << a, b >>
  BY Zenon DEF CapacityChecks
<1>2. p \in BOOLEAN /\ q \in BOOLEAN
  OBVIOUS
<1>3. a \in Check /\ b \in Check
  <2> HIDE DEF p, q
  <2>1. "Opening.FailureCount" \in FieldNames /\ "Opening.SlowCount" \in FieldNames
    BY DEF FieldNames
  <2> QED BY <1>2, <2>1, IsCheck, Zenon
<1>4. Names(<< a, b >>, Fault(a) \cup Fault(b))
  <2> HIDE DEF a, b
  <2> QED BY <1>3, TwoChecks
<1> QED BY <1>1, <1>4 DEF Names, Fault

\* The open interval.
LEMMA OpenDurationFaults ==
  ASSUME NEW d \in Durations
  PROVE  /\ OpenDurationChecks(d) \in Seq(Check)
         /\ Faults(OpenDurationChecks(d)) \subseteq
              {"OpenDuration", "OpenDuration.Initial", "OpenDuration.Multiplier",
               "OpenDuration.Maximum"}
         /\ d = Nil => Faults(OpenDurationChecks(d)) = {}
         /\ Faults(OpenDurationChecks(d)) = {} => /\ ValidOpenDuration(NormalOpenDuration(d))
                                                  /\ NormalOpenDuration(d).Multiplier # Inf
<1> USE ConfigAssumption
<1>1. d.type \in {"nil", "unsupported", "Fixed", "Exponential"}
  BY DEF Durations, Nil, Unsupported
<1>2. d = Nil => d.type = "nil"
  BY DEF Nil
<1>3. {"OpenDuration", "OpenDuration.Initial", "OpenDuration.Multiplier",
       "OpenDuration.Maximum"} \subseteq FieldNames
  BY DEF FieldNames
<1>4. CASE d.type = "nil"
  <2>1. OpenDurationChecks(d) = << >>
    BY <1>4, Zenon DEF OpenDurationChecks
  <2>2. NormalOpenDuration(d) =
          [Initial |-> DefaultDuration, Multiplier |-> 100, Maximum |-> DefaultDuration]
    BY <1>4, Zenon DEF NormalOpenDuration
  <2>3. ValidOpenDuration(NormalOpenDuration(d)) /\ NormalOpenDuration(d).Multiplier # Inf
    BY <2>2 DEF ValidOpenDuration, OpenDurationPolicies, Inf
  <2> QED BY <2>1, <2>3, NoChecks DEF Names
<1>5. CASE d.type = "Fixed"
  <2> DEFINE a == <<"OpenDuration", d.Initial <= 0>>
  <2>1. OpenDurationChecks(d) = << a >>
    BY <1>5, Zenon DEF OpenDurationChecks
  <2>2. NormalOpenDuration(d) =
          [Initial |-> d.Initial, Multiplier |-> 100, Maximum |-> d.Initial]
    BY <1>5, Zenon DEF NormalOpenDuration
  <2>3. d.Initial \in Nat
    BY <1>5 DEF Durations, Nil, Unsupported
  <2>4. (d.Initial <= 0) \in BOOLEAN
    OBVIOUS
  <2>5. a \in Check
    BY <1>3, <2>4, IsCheck, Zenon
  <2>6. Names(<< a >>, Fault(a))
    <3> HIDE DEF a
    <3> QED BY <2>5, OneCheck
  <2>7. /\ OpenDurationChecks(d) \in Seq(Check)
        /\ \A f : f \in Faults(OpenDurationChecks(d)) <=> f = "OpenDuration" /\ d.Initial <= 0
    BY <2>1, <2>6 DEF Names, Fault
  <2>8. Faults(OpenDurationChecks(d)) = {} => ~(d.Initial <= 0)
    BY <2>7
  <2>9. ~(d.Initial <= 0) => /\ ValidOpenDuration(NormalOpenDuration(d))
                             /\ NormalOpenDuration(d).Multiplier # Inf
    BY <2>2, <2>3 DEF ValidOpenDuration, OpenDurationPolicies, Inf
  <2> QED BY <1>2, <1>5, <2>7, <2>8, <2>9
<1>6. CASE d.type = "Exponential"
  <2> DEFINE p == ~finite(d.Multiplier) \/ Less(d.Multiplier, 100)
             a == <<"OpenDuration.Initial", d.Initial <= 0>>
             b == <<"OpenDuration.Multiplier", p>>
             e == <<"OpenDuration.Maximum", d.Maximum < d.Initial>>
  <2>1. OpenDurationChecks(d) = << a, b, e >>
    BY <1>6, Zenon DEF OpenDurationChecks
  <2>2. NormalOpenDuration(d) =
          [Initial |-> d.Initial, Multiplier |-> d.Multiplier, Maximum |-> d.Maximum]
    BY <1>6, Zenon DEF NormalOpenDuration
  <2>3. d.Initial \in Nat /\ d.Maximum \in Nat /\ d.Multiplier \in {NaN, 50, 150, Inf}
    BY <1>6 DEF Durations, Nil, Unsupported
  <2>4. (d.Initial <= 0) \in BOOLEAN /\ p \in BOOLEAN /\ (d.Maximum < d.Initial) \in BOOLEAN
    OBVIOUS
  <2>5. a \in Check /\ b \in Check /\ e \in Check
    <3> HIDE DEF p
    <3> QED BY <1>3, <2>4, IsCheck, Zenon
  <2>6. Names(<< a, b, e >>, Fault(a) \cup Fault(b) \cup Fault(e))
    <3> HIDE DEF a, b, e
    <3> QED BY <2>5, ThreeChecks
  <2>7. /\ OpenDurationChecks(d) \in Seq(Check)
        /\ \A f : f \in Faults(OpenDurationChecks(d)) <=>
             \/ f = "OpenDuration.Initial" /\ d.Initial <= 0
             \/ f = "OpenDuration.Multiplier" /\ p
             \/ f = "OpenDuration.Maximum" /\ d.Maximum < d.Initial
    <3> HIDE DEF p
    <3> QED BY <2>1, <2>6 DEF Names, Fault
  <2>8. Faults(OpenDurationChecks(d)) = {} =>
          ~(d.Initial <= 0) /\ ~p /\ ~(d.Maximum < d.Initial)
    <3> HIDE DEF p
    <3> QED BY <2>7
  <2>9. ~p => d.Multiplier = 150
    BY <2>3 DEF finite, Less, NaN, Inf
  <2>10. Faults(OpenDurationChecks(d)) = {} => /\ ValidOpenDuration(NormalOpenDuration(d))
                                              /\ NormalOpenDuration(d).Multiplier # Inf
    <3> HIDE DEF p
    <3> QED BY <2>2, <2>3, <2>8, <2>9 DEF ValidOpenDuration, OpenDurationPolicies, Inf
  <2>11. Faults(OpenDurationChecks(d)) \subseteq
           {"OpenDuration.Initial", "OpenDuration.Multiplier", "OpenDuration.Maximum"}
    <3> HIDE DEF p
    <3> QED BY <2>7
  <2> QED BY <1>2, <1>6, <2>7, <2>10, <2>11
<1>7. CASE d.type = "unsupported"
  <2>1. OpenDurationChecks(d) = << <<"OpenDuration", TRUE>> >>
    BY <1>7, Zenon DEF OpenDurationChecks
  <2>2. Names(OpenDurationChecks(d), {"OpenDuration"})
    BY <1>3, <2>1, NeverPasses
  <2> QED BY <1>2, <1>7, <2>2 DEF Names
<1> QED BY <1>1, <1>4, <1>5, <1>6, <1>7

\* The half-open policy.
LEMMA HalfOpenFaults ==
  ASSUME NEW p, HalfOpenWritten(p)
  PROVE  /\ HalfOpenChecks(p) \in Seq(Check)
         /\ p = Nil => Faults(HalfOpenChecks(p)) = {}
         /\ p # Nil => \A f : f \in Faults(HalfOpenChecks(p)) <=>
              \/ f = "HalfOpen.MaxProbes" /\ p.MaxProbes < 1
              \/ f = "HalfOpen.MaxProbes" /\ p.MaxProbes > MaxHalfOpenProbes
              \/ f = "HalfOpen.FailureAction" /\ p.FailureAction = "unknown"
              \/ f = "HalfOpen.SuccessRatio" /\ InvalidRatio(p.SuccessRatio)
              \/ f = "HalfOpen" /\ p.RequiredSuccesses > 0 /\ Less(0, p.SuccessRatio)
              \/ f = "HalfOpen" /\ p.RequiredSuccesses <= 0 /\ p.SuccessRatio = 0
              \/ f = "HalfOpen.RequiredSuccesses" /\ Unreachable(p)
<1>1. CASE p = Nil
  <2>1. HalfOpenChecks(p) = << >>
    BY <1>1 DEF HalfOpenChecks
  <2> QED BY <1>1, <2>1, NoChecks DEF Names
<1>2. CASE p # Nil
  <2> DEFINE q1 == p.MaxProbes < 1
             q2 == p.MaxProbes > MaxHalfOpenProbes
             q3 == p.FailureAction = "unknown"
             q4 == InvalidRatio(p.SuccessRatio)
             q5 == p.RequiredSuccesses > 0 /\ Less(0, p.SuccessRatio)
             q6 == p.RequiredSuccesses <= 0 /\ p.SuccessRatio = 0
             q7 == Unreachable(p)
             a == <<"HalfOpen.MaxProbes", q1>>
             b == <<"HalfOpen.MaxProbes", q2>>
             d == <<"HalfOpen.FailureAction", q3>>
             e == <<"HalfOpen.SuccessRatio", q4>>
             g == <<"HalfOpen", q5>>
             h == <<"HalfOpen", q6>>
             i == <<"HalfOpen.RequiredSuccesses", q7>>
  <2>1. HalfOpenChecks(p) = << a, b, d, e, g, h, i >>
    BY <1>2 DEF HalfOpenChecks
  <2>2. /\ q1 \in BOOLEAN /\ q2 \in BOOLEAN /\ q3 \in BOOLEAN /\ q5 \in BOOLEAN
        /\ q6 \in BOOLEAN
    OBVIOUS
  <2>3. q4 \in BOOLEAN /\ q7 \in BOOLEAN
    BY <1>2, HalfOpenOf, RatioPasses DEF Unreachable
  <2> HIDE DEF q1, q2, q3, q4, q5, q6, q7
  <2>4. /\ a \in Check /\ b \in Check /\ d \in Check /\ e \in Check /\ g \in Check
        /\ h \in Check /\ i \in Check
    <3>1. {"HalfOpen", "HalfOpen.MaxProbes", "HalfOpen.FailureAction", "HalfOpen.SuccessRatio",
           "HalfOpen.RequiredSuccesses"} \subseteq FieldNames
      BY DEF FieldNames
    <3> QED BY <2>2, <2>3, <3>1, IsCheck
  <2>5. Names(<< a, b, d, e, g, h, i >>,
              Fault(a) \cup Fault(b) \cup Fault(d) \cup Fault(e) \cup Fault(g)
                \cup Fault(h) \cup Fault(i))
    <3> HIDE DEF a, b, d, e, g, h, i
    <3> QED BY <2>4, SevenChecks
  <2>6. /\ HalfOpenChecks(p) \in Seq(Check)
        /\ \A f : f \in Faults(HalfOpenChecks(p)) <=>
             \/ f = "HalfOpen.MaxProbes" /\ q1
             \/ f = "HalfOpen.MaxProbes" /\ q2
             \/ f = "HalfOpen.FailureAction" /\ q3
             \/ f = "HalfOpen.SuccessRatio" /\ q4
             \/ f = "HalfOpen" /\ q5
             \/ f = "HalfOpen" /\ q6
             \/ f = "HalfOpen.RequiredSuccesses" /\ q7
    BY <2>1, <2>5 DEF Names, Fault
  <2> QED BY <1>2, <2>6 DEF q1, q2, q3, q4, q5, q6, q7
<1> QED BY <1>1, <1>2

\* Without a fault it is valid.
LEMMA HalfOpenPasses ==
  ASSUME NEW p, HalfOpenWritten(p), Faults(HalfOpenChecks(p)) = {}
  PROVE  ValidHalfOpen([NormalHalfOpen(p) EXCEPT !.RequiredSuccesses = IF @ < 0 THEN 0 ELSE @])
<1> USE ConfigAssumption
<1>1. CASE p = Nil
  <2>1. NormalHalfOpen(p) = [ZeroHalfOpen EXCEPT !.MaxProbes = DefaultHalfOpenProbeCount,
                                                 !.RequiredSuccesses = DefaultHalfOpenProbeCount]
    BY <1>1 DEF NormalHalfOpen
  <2>2. NormalHalfOpen(p) = [MaxProbes |-> DefaultHalfOpenProbeCount,
                             RequiredSuccesses |-> DefaultHalfOpenProbeCount,
                             SuccessRatio |-> 0, FailureAction |-> ReopenImmediately]
    BY <2>1 DEF ZeroHalfOpen
  <2> QED BY <2>2 DEF ValidHalfOpen, HalfOpenPolicies, Percent
<1>2. CASE p # Nil
  <2>1. /\ ~(p.MaxProbes < 1) /\ p.FailureAction # "unknown" /\ ~InvalidRatio(p.SuccessRatio)
        /\ ~(p.RequiredSuccesses > 0 /\ Less(0, p.SuccessRatio))
        /\ ~(p.RequiredSuccesses <= 0 /\ p.SuccessRatio = 0) /\ ~Unreachable(p)
    BY <1>2, HalfOpenFaults
  <2>2. /\ p.MaxProbes \in Nat /\ p.RequiredSuccesses \in Int /\ p.SuccessRatio \in Percent
        /\ p.FailureAction \in {ReopenImmediately, ReopenAfterSample}
        /\ p.SuccessRatio # NaN
    BY <1>2, <2>1, HalfOpenOf, RatioPasses DEF Percent, NaN
  <2>3. /\ p.MaxProbes > 0 /\ p.RequiredSuccesses <= p.MaxProbes
        /\ p.RequiredSuccesses > 0 => p.SuccessRatio = 0
        /\ p.RequiredSuccesses <= 0 => p.SuccessRatio > 0
    BY <2>1, <2>2 DEF Unreachable, Less, Percent, NaN
  <2>4. NormalHalfOpen(p) = p
    BY <1>2 DEF NormalHalfOpen
  <2> DEFINE n == [p EXCEPT !.RequiredSuccesses = IF @ < 0 THEN 0 ELSE @]
  <2>5. /\ n.MaxProbes = p.MaxProbes /\ n.SuccessRatio = p.SuccessRatio
        /\ n.FailureAction = p.FailureAction
        /\ n.RequiredSuccesses = IF p.RequiredSuccesses < 0 THEN 0 ELSE p.RequiredSuccesses
    BY <1>2, HalfOpenOf DEF HalfOpenChoices
  <2>6. n \in HalfOpenPolicies
    BY <1>2, <2>2, <2>5 DEF HalfOpenPolicies, HalfOpenWritten, HalfOpenChoices
  <2>7. ValidHalfOpen(n)
    <3> HIDE DEF n
    <3> QED BY <2>2, <2>3, <2>5, <2>6 DEF ValidHalfOpen, Percent
  <2> QED BY <2>4, <2>7
<1> QED BY <1>1, <1>2

\* Waiting.
LEMMA AdmissionFaults ==
  ASSUME NEW a \in Admissions
  PROVE  /\ AdmissionChecks(a) \in Seq(Check)
         /\ Faults(AdmissionChecks(a)) \subseteq {"HalfOpenAdmission", "HalfOpenAdmission.MaxWait"}
         /\ a = Nil => Faults(AdmissionChecks(a)) = {}
         /\ Faults(AdmissionChecks(a)) = {} /\ a.type = "WaitForProbe" => a.MaxWait > 0
<1>1. a.type \in {"nil", "unsupported", "RejectExcessProbes", "WaitForProbe"}
  BY DEF Admissions, Nil, Unsupported
<1>2. a = Nil => a.type = "nil"
  BY DEF Nil
<1>3. "HalfOpenAdmission" \in FieldNames /\ "HalfOpenAdmission.MaxWait" \in FieldNames
  BY DEF FieldNames
<1>4. CASE a.type \in {"nil", "RejectExcessProbes"}
  <2>1. AdmissionChecks(a) = << >>
    BY <1>4, Zenon DEF AdmissionChecks
  <2> QED BY <1>4, <2>1, NoChecks DEF Names
<1>5. CASE a.type = "WaitForProbe"
  <2> DEFINE b == <<"HalfOpenAdmission.MaxWait", a.MaxWait <= 0>>
  <2>1. AdmissionChecks(a) = << b >>
    BY <1>5, Zenon DEF AdmissionChecks
  <2>2. (a.MaxWait <= 0) \in BOOLEAN
    OBVIOUS
  <2>3. b \in Check
    BY <1>3, <2>2, IsCheck, Zenon
  <2>4. Names(<< b >>, Fault(b))
    <3> HIDE DEF b
    <3> QED BY <2>3, OneCheck
  <2>5. /\ AdmissionChecks(a) \in Seq(Check)
        /\ \A f : f \in Faults(AdmissionChecks(a)) <=>
             f = "HalfOpenAdmission.MaxWait" /\ a.MaxWait <= 0
    BY <2>1, <2>4 DEF Names, Fault
  <2>6. a.MaxWait \in Nat
    BY <1>5 DEF Admissions, Nil, Unsupported
  <2> QED BY <1>2, <1>5, <2>5, <2>6
<1>6. CASE a.type = "unsupported"
  <2>1. AdmissionChecks(a) = << <<"HalfOpenAdmission", TRUE>> >>
    BY <1>6, Zenon DEF AdmissionChecks
  <2>2. Names(AdmissionChecks(a), {"HalfOpenAdmission"})
    BY <1>3, <2>1, NeverPasses
  <2> QED BY <1>2, <1>6, <2>2 DEF Names
<1> QED BY <1>1, <1>4, <1>5, <1>6

\* The observer and its delivery.
LEMMA ObserverFaults ==
  ASSUME NEW o \in {Nil, Given}, NEW v \in Deliveries
  PROVE  /\ ObserverChecks(o, v) \in Seq(Check)
         /\ Faults(ObserverChecks(o, v)) \subseteq
              {"EventDelivery", "EventDelivery.Buffer", "EventDelivery.Overflow"}
         /\ v = Nil => Faults(ObserverChecks(o, v)) = {}
         /\ Faults(ObserverChecks(o, v)) = {} /\ NormalObserver(o, v).mode = "asynchronous" =>
              /\ NormalObserver(o, v).buffer \in 1..MaxEventBuffer
              /\ NormalObserver(o, v).overflow # "unknown"
<1> USE ConfigAssumption
<1>1. v.type \in {"nil", "unsupported", "Synchronous", "Asynchronous"}
  BY DEF Deliveries, Nil, Unsupported
<1>2. v = Nil <=> v.type = "nil"
  BY DEF Deliveries, Nil, Unsupported
<1>3. /\ "EventDelivery" \in FieldNames /\ "EventDelivery.Buffer" \in FieldNames
      /\ "EventDelivery.Overflow" \in FieldNames
  BY DEF FieldNames
<1>4. CASE o = Nil
  <2> DEFINE a == <<"EventDelivery", v # Nil>>
  <2>1. ObserverChecks(o, v) = << a >>
    BY <1>4 DEF ObserverChecks
  <2>2. (v # Nil) \in BOOLEAN
    OBVIOUS
  <2>3. a \in Check
    BY <1>3, <2>2, IsCheck, Zenon
  <2>4. Names(<< a >>, Fault(a))
    <3> HIDE DEF a
    <3> QED BY <2>3, OneCheck
  <2>5. /\ ObserverChecks(o, v) \in Seq(Check)
        /\ \A f : f \in Faults(ObserverChecks(o, v)) <=> f = "EventDelivery" /\ v # Nil
    BY <2>1, <2>4 DEF Names, Fault
  <2>6. NormalObserver(o, v) = [mode |-> "disabled", buffer |-> 0, overflow |-> "newest"]
    BY <1>4, Zenon DEF NormalObserver
  <2>7. NormalObserver(o, v).mode # "asynchronous"
    BY <2>6
  <2>8. Faults(ObserverChecks(o, v)) \subseteq {"EventDelivery"}
    BY <2>5
  <2>9. v = Nil => Faults(ObserverChecks(o, v)) = {}
    BY <2>5
  <2> HIDE DEF a
  <2> QED BY <2>5, <2>7, <2>8, <2>9
<1>5. CASE o # Nil /\ v.type = "nil"
  <2>1. ObserverChecks(o, v) = << >>
    BY <1>5, Zenon DEF ObserverChecks
  <2>2. NormalObserver(o, v) =
          [mode |-> "asynchronous", buffer |-> DefaultEventBuffer, overflow |-> "newest"]
    BY <1>2, <1>5, Zenon DEF NormalObserver
  <2>3. NormalObserver(o, v).buffer = DefaultEventBuffer /\ NormalObserver(o, v).overflow = "newest"
    BY <2>2
  <2> QED BY <2>1, <2>3, NoChecks DEF Names
<1>6. CASE o # Nil /\ v.type = "Synchronous"
  <2>1. ObserverChecks(o, v) = << >>
    BY <1>6, Zenon DEF ObserverChecks
  <2>2. v # Nil
    BY <1>2, <1>6
  <2>3. NormalObserver(o, v) = [mode |-> "synchronous", buffer |-> 0, overflow |-> "newest"]
    BY <1>6, <2>2, Zenon DEF NormalObserver
  <2>4. NormalObserver(o, v).mode # "asynchronous"
    BY <2>3
  <2> QED BY <2>1, <2>4, NoChecks DEF Names
<1>7. CASE o # Nil /\ v.type = "Asynchronous"
  <2> DEFINE a == <<"EventDelivery.Buffer", v.Buffer <= 0>>
             b == <<"EventDelivery.Buffer", v.Buffer > MaxEventBuffer>>
             d == <<"EventDelivery.Overflow", v.Overflow = "unknown">>
  <2>1. ObserverChecks(o, v) = << a, b, d >>
    BY <1>7, Zenon DEF ObserverChecks
  <2>2. /\ (v.Buffer <= 0) \in BOOLEAN /\ (v.Buffer > MaxEventBuffer) \in BOOLEAN
        /\ (v.Overflow = "unknown") \in BOOLEAN
    OBVIOUS
  <2>3. a \in Check /\ b \in Check /\ d \in Check
    BY <1>3, <2>2, IsCheck, Zenon
  <2>4. Names(<< a, b, d >>, Fault(a) \cup Fault(b) \cup Fault(d))
    <3> HIDE DEF a, b, d
    <3> QED BY <2>3, ThreeChecks
  <2>5. /\ ObserverChecks(o, v) \in Seq(Check)
        /\ \A f : f \in Faults(ObserverChecks(o, v)) <=>
             \/ f = "EventDelivery.Buffer" /\ v.Buffer <= 0
             \/ f = "EventDelivery.Buffer" /\ v.Buffer > MaxEventBuffer
             \/ f = "EventDelivery.Overflow" /\ v.Overflow = "unknown"
    BY <2>1, <2>4 DEF Names, Fault
  <2>6. v # Nil /\ v.type # "Synchronous"
    BY <1>2, <1>7
  <2>7. NormalObserver(o, v) =
          [mode |-> "asynchronous", buffer |-> v.Buffer, overflow |-> v.Overflow]
    BY <1>7, <2>6, Zenon DEF NormalObserver
  <2>8. NormalObserver(o, v).buffer = v.Buffer /\ NormalObserver(o, v).overflow = v.Overflow
    BY <2>7
  <2>9. v.Buffer \in Nat
    BY <1>7 DEF Deliveries, Nil, Unsupported
  <2>10. Faults(ObserverChecks(o, v)) = {} =>
           ~(v.Buffer <= 0) /\ ~(v.Buffer > MaxEventBuffer) /\ v.Overflow # "unknown"
    BY <2>5
  <2>11. Faults(ObserverChecks(o, v)) \subseteq {"EventDelivery.Buffer", "EventDelivery.Overflow"}
    BY <2>5
  <2> HIDE DEF a, b, d
  <2> QED BY <2>5, <2>6, <2>8, <2>9, <2>10, <2>11
<1>8. CASE o # Nil /\ v.type = "unsupported"
  <2>1. ObserverChecks(o, v) = << <<"EventDelivery", TRUE>> >>
    BY <1>8, Zenon DEF ObserverChecks
  <2>2. Names(ObserverChecks(o, v), {"EventDelivery"})
    BY <1>3, <2>1, NeverPasses
  <2> QED BY <1>2, <1>8, <2>2 DEF Names
<1> QED BY <1>1, <1>4, <1>5, <1>6, <1>7, <1>8

\* The checks of normalizeConfig's own.
NameChecks(c) == << <<"Name", c.Name = 0>>, <<"Name", c.Name > MaxNameBytes>> >>
ThroughputChecks(c) ==
  << <<"MinimumThroughput", c.MinimumThroughput < 0>>,
     <<"MinimumThroughput", WindowTooSmall(c)>> >>
SlowChecks(c) == << <<"SlowCallDuration", c.SlowCallDuration < 0>> >>
ClockChecks(c) == << <<"Clock", nilValue(c.Clock)>>, <<"PermitTTL", c.PermitTTL < 0>> >>
InvalidJitter(x) == \/ ~finite(x) \/ Less(x, 0) \/ ~Less(x, 100)
JitterChecks(c) ==
  << <<"OpenDurationJitter", InvalidJitter(c.OpenDurationJitter)>>,
     <<"Random", nilValue(c.Random)>> >>

\* The checks a Config makes of its own fields.
LEMMA OwnFaults ==
  ASSUME NEW c, Written(c)
  PROVE  /\ NameChecks(c) \in Seq(Check) /\ ThroughputChecks(c) \in Seq(Check)
         /\ SlowChecks(c) \in Seq(Check) /\ ClockChecks(c) \in Seq(Check)
         /\ JitterChecks(c) \in Seq(Check)
         /\ \A f : f \in Faults(NameChecks(c)) <=>
              f = "Name" /\ (c.Name = 0 \/ c.Name > MaxNameBytes)
         /\ \A f : f \in Faults(ThroughputChecks(c)) <=>
              f = "MinimumThroughput" /\ (c.MinimumThroughput < 0 \/ WindowTooSmall(c))
         /\ \A f : f \in Faults(SlowChecks(c)) <=> f = "SlowCallDuration" /\ c.SlowCallDuration < 0
         /\ \A f : f \in Faults(ClockChecks(c)) <=>
              (f = "Clock" /\ c.Clock = TypedNil) \/ (f = "PermitTTL" /\ c.PermitTTL < 0)
         /\ \A f : f \in Faults(JitterChecks(c)) <=>
              \/ f = "OpenDurationJitter" /\ InvalidJitter(c.OpenDurationJitter)
              \/ f = "Random" /\ c.Random = TypedNil
<1>1. {"Name", "MinimumThroughput", "SlowCallDuration", "Clock", "PermitTTL",
       "OpenDurationJitter", "Random"} \subseteq FieldNames
  BY DEF FieldNames
<1>2. /\ NameChecks(c) \in Seq(Check)
      /\ \A f : f \in Faults(NameChecks(c)) <=>
           f = "Name" /\ (c.Name = 0 \/ c.Name > MaxNameBytes)
  <2> DEFINE p == c.Name = 0  q == c.Name > MaxNameBytes
  <2>1. p \in BOOLEAN /\ q \in BOOLEAN
    OBVIOUS
  <2>2. NameChecks(c) = << <<"Name", p>>, <<"Name", q>> >>
    BY Zenon DEF NameChecks
  <2> HIDE DEF p, q
  <2>3. /\ NameChecks(c) \in Seq(Check)
        /\ \A f : f \in Faults(NameChecks(c)) <=> (f = "Name" /\ p) \/ (f = "Name" /\ q)
    <3> DEFINE a == <<"Name", p>>  b == <<"Name", q>>
    <3>1. a \in Check /\ b \in Check
      BY <1>1, <2>1, IsCheck
    <3>2. Names(<< a, b >>, Fault(a) \cup Fault(b))
      <4> HIDE DEF a, b
      <4> QED BY <3>1, TwoChecks
    <3> QED BY <2>2, <3>2 DEF Names, Fault
  <2> QED BY <2>3 DEF p, q
<1>3. /\ ThroughputChecks(c) \in Seq(Check)
      /\ \A f : f \in Faults(ThroughputChecks(c)) <=>
           f = "MinimumThroughput" /\ (c.MinimumThroughput < 0 \/ WindowTooSmall(c))
  <2> DEFINE p == c.MinimumThroughput < 0  q == WindowTooSmall(c)
  <2>1. p \in BOOLEAN /\ q \in BOOLEAN
    BY DEF WindowTooSmall
  <2>2. ThroughputChecks(c) = << <<"MinimumThroughput", p>>, <<"MinimumThroughput", q>> >>
    BY Zenon DEF ThroughputChecks
  <2> HIDE DEF p, q
  <2>3. /\ ThroughputChecks(c) \in Seq(Check)
        /\ \A f : f \in Faults(ThroughputChecks(c)) <=>
             (f = "MinimumThroughput" /\ p) \/ (f = "MinimumThroughput" /\ q)
    <3> DEFINE a == <<"MinimumThroughput", p>>  b == <<"MinimumThroughput", q>>
    <3>1. a \in Check /\ b \in Check
      BY <1>1, <2>1, IsCheck
    <3>2. Names(<< a, b >>, Fault(a) \cup Fault(b))
      <4> HIDE DEF a, b
      <4> QED BY <3>1, TwoChecks
    <3> QED BY <2>2, <3>2 DEF Names, Fault
  <2> QED BY <2>3 DEF p, q
<1>4. /\ SlowChecks(c) \in Seq(Check)
      /\ \A f : f \in Faults(SlowChecks(c)) <=> f = "SlowCallDuration" /\ c.SlowCallDuration < 0
  <2> DEFINE p == c.SlowCallDuration < 0
             a == <<"SlowCallDuration", p>>
  <2>1. p \in BOOLEAN
    OBVIOUS
  <2>2. SlowChecks(c) = << a >>
    BY Zenon DEF SlowChecks
  <2> HIDE DEF p
  <2>3. a \in Check
    BY <1>1, <2>1, IsCheck
  <2>4. Names(<< a >>, Fault(a))
    <3> HIDE DEF a
    <3> QED BY <2>3, OneCheck
  <2>5. /\ SlowChecks(c) \in Seq(Check)
        /\ \A f : f \in Faults(SlowChecks(c)) <=> f = "SlowCallDuration" /\ p
    BY <2>2, <2>4 DEF Names, Fault
  <2> QED BY <2>5 DEF p
<1>5. /\ ClockChecks(c) \in Seq(Check)
      /\ \A f : f \in Faults(ClockChecks(c)) <=>
           (f = "Clock" /\ c.Clock = TypedNil) \/ (f = "PermitTTL" /\ c.PermitTTL < 0)
  <2> DEFINE p == c.Clock = TypedNil  q == c.PermitTTL < 0
  <2>1. p \in BOOLEAN /\ q \in BOOLEAN
    OBVIOUS
  <2>2. ClockChecks(c) = << <<"Clock", p>>, <<"PermitTTL", q>> >>
    BY Zenon DEF ClockChecks, nilValue
  <2> HIDE DEF p, q
  <2>3. /\ ClockChecks(c) \in Seq(Check)
        /\ \A f : f \in Faults(ClockChecks(c)) <=> (f = "Clock" /\ p) \/ (f = "PermitTTL" /\ q)
    <3> DEFINE a == <<"Clock", p>>  b == <<"PermitTTL", q>>
    <3>1. a \in Check /\ b \in Check
      BY <1>1, <2>1, IsCheck
    <3>2. Names(<< a, b >>, Fault(a) \cup Fault(b))
      <4> HIDE DEF a, b
      <4> QED BY <3>1, TwoChecks
    <3> QED BY <2>2, <3>2 DEF Names, Fault
  <2> QED BY <2>3 DEF p, q
<1>6. /\ JitterChecks(c) \in Seq(Check)
      /\ \A f : f \in Faults(JitterChecks(c)) <=>
           \/ f = "OpenDurationJitter" /\ InvalidJitter(c.OpenDurationJitter)
           \/ f = "Random" /\ c.Random = TypedNil
  <2> DEFINE p == InvalidJitter(c.OpenDurationJitter)  q == c.Random = TypedNil
  <2>1. p \in BOOLEAN /\ q \in BOOLEAN
    BY DEF InvalidJitter
  <2>2. JitterChecks(c) = << <<"OpenDurationJitter", p>>, <<"Random", q>> >>
    BY Zenon DEF JitterChecks, nilValue
  <2> HIDE DEF p, q
  <2>3. /\ JitterChecks(c) \in Seq(Check)
        /\ \A f : f \in Faults(JitterChecks(c)) <=>
             (f = "OpenDurationJitter" /\ p) \/ (f = "Random" /\ q)
    <3> DEFINE a == <<"OpenDurationJitter", p>>  b == <<"Random", q>>
    <3>1. a \in Check /\ b \in Check
      BY <1>1, <2>1, IsCheck
    <3>2. Names(<< a, b >>, Fault(a) \cup Fault(b))
      <4> HIDE DEF a, b
      <4> QED BY <3>1, TwoChecks
    <3> QED BY <2>2, <3>2 DEF Names, Fault
  <2> QED BY <2>3 DEF p, q
<1> QED BY <1>2, <1>3, <1>4, <1>5, <1>6

-----------------------------------------------------------------------------
(* Construction: all the checks *)

\* The field of the first check that fails.
First(s) == s[Min(Failed(s))][1]

\* What fails first fails first in every continuation.
Leads(s, t) == Faults(s) # {} => Faults(t) # {} /\ First(t) = First(s)

\* A list leads every list that begins with it.
LEMMA FirstStays ==
  ASSUME NEW s \in Seq(Check), NEW t \in Seq(Check)
  PROVE  Leads(s, s \o t)
<1> SUFFICES ASSUME Faults(s) # {} PROVE Faults(s \o t) # {} /\ First(s \o t) = First(s)
  BY DEF Leads
<1> DEFINE u == s \o t
           i == Min(Failed(s))
           j == Min(Failed(u))
<1>1. /\ u \in Seq(Check) /\ Faults(u) # {}
      /\ Failed(s) # {} /\ Failed(u) # {}
  BY Joined, NoFault
<1>2. i \in Failed(s) /\ \A k \in Failed(s) : i <= k
  BY <1>1, LeastPlace
<1>3. j \in Failed(u) /\ \A k \in Failed(u) : j <= k
  <2> HIDE DEF u
  <2> QED BY <1>1, LeastPlace
<1> HIDE DEF i, j
<1>4. /\ DOMAIN s = 1..Len(s) /\ Len(s) \in Nat /\ Len(t) \in Nat
      /\ DOMAIN u = 1..(Len(s) + Len(t))
      /\ \A k \in 1..Len(s) : u[k] = s[k]
  OBVIOUS
<1> HIDE DEF u
<1>5. i \in 1..Len(s) /\ i \in Failed(u)
  BY <1>2, <1>4 DEF Failed
<1>6. j \in 1..Len(s) /\ j \in Failed(s)
  BY <1>3, <1>4, <1>5 DEF Failed
<1>7. i = j
  BY <1>2, <1>3, <1>5, <1>6
<1>8. u[j] = s[i]
  BY <1>4, <1>6, <1>7
<1> QED BY <1>1, <1>8 DEF First, i, j, u

\* One more part of the list.
LEMMA Continued ==
  ASSUME NEW s, NEW F, Names(s, F), NEW t \in Seq(Check)
  PROVE  Names(s \o t, F \cup Faults(t)) /\ Leads(s, s \o t)
BY Joined, FirstStays DEF Names

\* Leading is transitive.
LEMMA LeadsOn ==
  ASSUME NEW r, NEW s, NEW t, Leads(r, s), Leads(s, t)
  PROVE  Leads(r, t)
BY DEF Leads

\* The faults of a Config are those of its parts, and a fault of the window is
\* named before any but the name's.
LEMMA ChecksOf ==
  ASSUME NEW c, Written(c)
  PROVE  /\ Checks(c) \in Seq(Check)
         /\ Faults(Checks(c)) =
              Faults(NameChecks(c)) \cup Faults(WindowChecks(c.Window))
                \cup Faults(ThroughputChecks(c)) \cup Faults(SlowChecks(c))
                \cup Faults(OpeningChecks(c.Opening)) \cup Faults(CapacityChecks(c))
                \cup Faults(OpenDurationChecks(c.OpenDuration))
                \cup Faults(HalfOpenChecks(c.HalfOpen)) \cup Faults(ClockChecks(c))
                \cup Faults(AdmissionChecks(c.HalfOpenAdmission))
                \cup Faults(ObserverChecks(c.Observer, c.EventDelivery))
                \cup Faults(JitterChecks(c))
         /\ Faults(WindowChecks(c.Window)) # {} =>
              InvalidField(c) \in Faults(NameChecks(c)) \cup Faults(WindowChecks(c.Window))
<1> DEFINE s1 == NameChecks(c)        t2 == WindowChecks(c.Window)
           t3 == ThroughputChecks(c)  t4 == SlowChecks(c)
           t5 == OpeningChecks(c.Opening)  t6 == CapacityChecks(c)
           t7 == OpenDurationChecks(c.OpenDuration)
           t8 == HalfOpenChecks(c.HalfOpen)  t9 == ClockChecks(c)
           t10 == AdmissionChecks(c.HalfOpenAdmission)
           t11 == ObserverChecks(c.Observer, c.EventDelivery)
           t12 == JitterChecks(c)
           s2 == s1 \o t2  s3 == s2 \o t3  s4 == s3 \o t4  s5 == s4 \o t5  s6 == s5 \o t6
           s7 == s6 \o t7  s8 == s7 \o t8  s9 == s8 \o t9  s10 == s9 \o t10
           s11 == s10 \o t11  s12 == s11 \o t12
           F2 == Faults(s1) \cup Faults(t2)  F3 == F2 \cup Faults(t3)  F4 == F3 \cup Faults(t4)
           F5 == F4 \cup Faults(t5)  F6 == F5 \cup Faults(t6)  F7 == F6 \cup Faults(t7)
           F8 == F7 \cup Faults(t8)  F9 == F8 \cup Faults(t9)  F10 == F9 \cup Faults(t10)
           F11 == F10 \cup Faults(t11)  F12 == F11 \cup Faults(t12)
<1>1. Checks(c) = s12
  BY Zenon DEF Checks, NameChecks, ThroughputChecks, SlowChecks, ClockChecks, JitterChecks,
     InvalidJitter
<1>2. /\ s1 \in Seq(Check) /\ t2 \in Seq(Check) /\ t3 \in Seq(Check) /\ t4 \in Seq(Check)
      /\ t9 \in Seq(Check) /\ t12 \in Seq(Check)
  BY FieldsOf, OwnFaults, WindowFaults
<1>3. t5 \in Seq(Check) /\ t8 \in Seq(Check)
  BY OpeningFaults, HalfOpenFaults DEF Written
<1>4. t6 \in Seq(Check) /\ t7 \in Seq(Check) /\ t10 \in Seq(Check) /\ t11 \in Seq(Check)
  BY FieldsOf, CapacityFaults, OpenDurationFaults, AdmissionFaults, ObserverFaults
<1> HIDE DEF s1, t2, t3, t4, t5, t6, t7, t8, t9, t10, t11, t12
<1>5. Names(s2, F2)
  BY <1>2, Joined DEF Names
<1> HIDE DEF s2, F2
<1>6. Names(s3, F3) /\ Leads(s2, s3)
  BY <1>2, <1>5, Continued
<1> HIDE DEF s3, F3
<1>7. Names(s4, F4) /\ Leads(s2, s4)
  BY <1>2, <1>6, Continued, LeadsOn
<1> HIDE DEF s4, F4
<1>8. Names(s5, F5) /\ Leads(s2, s5)
  BY <1>3, <1>7, Continued, LeadsOn
<1> HIDE DEF s5, F5
<1>9. Names(s6, F6) /\ Leads(s2, s6)
  BY <1>4, <1>8, Continued, LeadsOn
<1> HIDE DEF s6, F6
<1>10. Names(s7, F7) /\ Leads(s2, s7)
  BY <1>4, <1>9, Continued, LeadsOn
<1> HIDE DEF s7, F7
<1>11. Names(s8, F8) /\ Leads(s2, s8)
  BY <1>3, <1>10, Continued, LeadsOn
<1> HIDE DEF s8, F8
<1>12. Names(s9, F9) /\ Leads(s2, s9)
  BY <1>2, <1>11, Continued, LeadsOn
<1> HIDE DEF s9, F9
<1>13. Names(s10, F10) /\ Leads(s2, s10)
  BY <1>4, <1>12, Continued, LeadsOn
<1> HIDE DEF s10, F10
<1>14. Names(s11, F11) /\ Leads(s2, s11)
  BY <1>4, <1>13, Continued, LeadsOn
<1> HIDE DEF s11, F11
<1>15. Names(s12, F12) /\ Leads(s2, s12)
  BY <1>2, <1>14, Continued, LeadsOn
<1>16. s12 \in Seq(Check) /\ Faults(s12) = F12
  BY <1>15 DEF Names
<1>17. ASSUME Faults(t2) # {}
       PROVE  InvalidField(c) \in Faults(s1) \cup Faults(t2)
  <2>1. s2 \in Seq(Check) /\ Faults(s2) = F2 /\ Faults(s2) # {}
    BY <1>5, <1>17 DEF Names, F2
  <2>2. Faults(s12) # {} /\ First(s12) = First(s2)
    <3> HIDE DEF s12
    <3> QED BY <1>15, <2>1 DEF Leads
  <2>3. Failed(s2) # {} /\ Failed(s12) # {}
    BY <2>1, <2>2, NoFault
  <2>4. Min(Failed(s2)) \in Failed(s2)
    BY <2>1, <2>3, LeastPlace
  <2>5. First(s2) \in Faults(s2)
    BY <2>4 DEF First, Faults
  <2>6. InvalidField(c) = First(s12)
    <3> HIDE DEF s12
    <3>1. InvalidField(c) = IF Failed(s12) = {} THEN NoError ELSE First(s12)
      BY <1>1, Zenon DEF InvalidField, Failed, First
    <3> QED BY <2>3, <3>1
  <2> QED BY <2>1, <2>2, <2>5, <2>6 DEF F2
<1>18. F12 = Faults(s1) \cup Faults(t2) \cup Faults(t3) \cup Faults(t4) \cup Faults(t5)
              \cup Faults(t6) \cup Faults(t7) \cup Faults(t8) \cup Faults(t9)
              \cup Faults(t10) \cup Faults(t11) \cup Faults(t12)
  BY Zenon DEF F2, F3, F4, F5, F6, F7, F8, F9, F10, F11
<1> HIDE DEF s12, F12
<1> QED BY <1>1, <1>16, <1>17, <1>18 DEF s1, t2, t3, t4, t5, t6, t7, t8, t9, t10, t11, t12

-----------------------------------------------------------------------------
(* Construction: what New returns *)

\* What Buildable says of a configuration.
Fits(n) ==
  /\ n.minimumThroughput > 0 /\ n.slowCallDuration > 0 /\ n.permitTTL > 0
  /\ ValidOpening(n.opening)
  /\ ValidOpenDuration(n.openDuration) /\ n.openDuration.Multiplier # Inf
  /\ ValidHalfOpen([n.halfOpen EXCEPT !.RequiredSuccesses = IF @ < 0 THEN 0 ELSE @])
  /\ n.halfOpenWait => n.halfOpenMaxWait > 0
  /\ n.observer.mode = "asynchronous" =>
       n.observer.buffer \in 1..MaxEventBuffer /\ n.observer.overflow # "unknown"
  /\ n.openDurationJitter \in 0..99

\* A window of either kind, by its fields.
IsWindow(win) ==
  DOMAIN win \in {{"records", "next", "length", "snapshot"},
                  {"buckets", "lastBucketID", "initialized"}}

\* A window is not nil.
LEMMA WindowIsSomething ==
  ASSUME NEW win, IsWindow(win)
  PROVE  win # Nil
BY DEF IsWindow, Nil

\* A Config without a fault makes a configuration that fits, and its window.
LEMMA AcceptedFits ==
  ASSUME NEW c, Written(c), InvalidField(c) = NoError
  PROVE  Fits(Normalized(c)) /\ IsWindow(NewWindow(Normalized(c).window))
<1> USE ConfigAssumption
<1> DEFINE n == Normalized(c)
<1>1. Faults(Checks(c)) = {}
  BY ChecksOf, FirstFault
<1>2. /\ Faults(WindowChecks(c.Window)) = {} /\ Faults(ThroughputChecks(c)) = {}
      /\ Faults(SlowChecks(c)) = {} /\ Faults(OpeningChecks(c.Opening)) = {}
      /\ Faults(OpenDurationChecks(c.OpenDuration)) = {}
      /\ Faults(HalfOpenChecks(c.HalfOpen)) = {} /\ Faults(ClockChecks(c)) = {}
      /\ Faults(AdmissionChecks(c.HalfOpenAdmission)) = {}
      /\ Faults(ObserverChecks(c.Observer, c.EventDelivery)) = {}
      /\ Faults(JitterChecks(c)) = {}
  BY <1>1, ChecksOf
<1>3. /\ n.window = NormalWindow(c.Window)
      /\ n.minimumThroughput = OrDefault(c.MinimumThroughput, DefaultMinimumThroughput)
      /\ n.slowCallDuration = OrDefault(c.SlowCallDuration, DefaultDuration)
      /\ n.permitTTL = OrDefault(c.PermitTTL, DefaultDuration)
      /\ n.opening = NormalOpening(c.Opening)
      /\ n.openDuration = NormalOpenDuration(c.OpenDuration)
      /\ n.halfOpen = NormalHalfOpen(c.HalfOpen)
      /\ n.halfOpenWait = (c.HalfOpenAdmission.type = "WaitForProbe")
      /\ n.halfOpenMaxWait = IF c.HalfOpenAdmission.type = "WaitForProbe"
                             THEN c.HalfOpenAdmission.MaxWait ELSE 0
      /\ n.observer = NormalObserver(c.Observer, c.EventDelivery)
      /\ n.openDurationJitter = c.OpenDurationJitter
  BY DEF Normalized
<1> HIDE DEF n
<1>4. n.minimumThroughput > 0 /\ n.slowCallDuration > 0 /\ n.permitTTL > 0
  <2>1. ~(c.MinimumThroughput < 0) /\ ~(c.SlowCallDuration < 0) /\ ~(c.PermitTTL < 0)
    BY <1>2, OwnFaults
  <2>2. /\ c.MinimumThroughput \in Int /\ c.SlowCallDuration \in Int /\ c.PermitTTL \in Int
        /\ DefaultMinimumThroughput \in Nat \ {0} /\ DefaultDuration \in Nat \ {0}
    BY FieldsOf
  <2> QED BY <1>3, <2>1, <2>2 DEF OrDefault
<1>5. ValidOpening(n.opening)
  BY <1>2, <1>3, OpeningPasses DEF Written
<1>6. ValidOpenDuration(n.openDuration) /\ n.openDuration.Multiplier # Inf
  BY <1>2, <1>3, FieldsOf, OpenDurationFaults
<1>7. ValidHalfOpen([n.halfOpen EXCEPT !.RequiredSuccesses = IF @ < 0 THEN 0 ELSE @])
  BY <1>2, <1>3, HalfOpenPasses DEF Written
<1>8. n.halfOpenWait => n.halfOpenMaxWait > 0
  BY <1>2, <1>3, FieldsOf, AdmissionFaults
<1>9. n.observer.mode = "asynchronous" =>
        n.observer.buffer \in 1..MaxEventBuffer /\ n.observer.overflow # "unknown"
  BY <1>2, <1>3, FieldsOf, ObserverFaults
<1>10. n.openDurationJitter \in 0..99
  <2>1. ~InvalidJitter(c.OpenDurationJitter)
    BY <1>2, OwnFaults
  <2> QED BY <1>3, <2>1, FieldsOf DEF InvalidJitter, finite, Less, NaN, Inf
<1>11. IsWindow(NewWindow(n.window))
  <2>1. ~ConstructorFails(n.window)
    BY <1>2, <1>3, FieldsOf, WindowFaults
  <2> QED BY <2>1 DEF NewWindow, NewTime, NewCount, IsWindow
<1> QED BY <1>4, <1>5, <1>6, <1>7, <1>8, <1>9, <1>10, <1>11 DEF Fits, n

\* The inductive invariant: what was written, what New said of it, and what it
\* built.
ConfigInv ==
  /\ Written(config)
  /\ result = "pending" \/ result = InvalidField(config)
  /\ result = "pending" => breaker = Nil
  /\ \/ breaker = Nil
     \/ /\ DOMAIN breaker = {"config", "window", "state", "streak", "probes"}
        /\ Fits(breaker.config) /\ IsWindow(breaker.window)

\* Setting a field keeps what can be written.
LEMMA EditKeepsWritten ==
  ASSUME Written(config)
  PROVE  /\ \A f \in DOMAIN FieldChoices : \A v \in FieldChoices[f] :
              Written([config EXCEPT ![f] = v])
         /\ \A f \in DOMAIN OpeningChoices : \A v \in OpeningChoices[f] :
              Written([config EXCEPT !.Opening = [Pointee(@, ZeroOpening) EXCEPT ![f] = v]])
         /\ \A f \in DOMAIN HalfOpenChoices : \A v \in HalfOpenChoices[f] :
              Written([config EXCEPT !.HalfOpen = [Pointee(@, ZeroHalfOpen) EXCEPT ![f] = v]])
<1> USE ConfigAssumption
<1>1. /\ DOMAIN config = DOMAIN ZeroConfig /\ DOMAIN FieldChoices \subseteq DOMAIN ZeroConfig
      /\ "Opening" \in DOMAIN ZeroConfig /\ "HalfOpen" \in DOMAIN ZeroConfig
      /\ "Opening" \notin DOMAIN FieldChoices /\ "HalfOpen" \notin DOMAIN FieldChoices
  BY DEF Written, FieldChoices, ZeroConfig
<1>2. ASSUME NEW f \in DOMAIN FieldChoices, NEW v \in FieldChoices[f]
      PROVE  Written([config EXCEPT ![f] = v])
  BY <1>1 DEF Written
<1>3. ASSUME NEW r, OpeningWritten(r)
      PROVE  Written([config EXCEPT !.Opening = r])
  BY <1>1, <1>3 DEF Written
<1>4. ASSUME NEW p, HalfOpenWritten(p)
      PROVE  Written([config EXCEPT !.HalfOpen = p])
  BY <1>1, <1>4 DEF Written
<1>5. ASSUME NEW f \in DOMAIN OpeningChoices, NEW v \in OpeningChoices[f]
      PROVE  OpeningWritten([Pointee(config.Opening, ZeroOpening) EXCEPT ![f] = v])
  <2> DEFINE r == Pointee(config.Opening, ZeroOpening)
             V == UNION {OpeningChoices[k] : k \in DOMAIN OpeningChoices}
  <2>1. /\ r \in [DOMAIN OpeningChoices -> V]
        /\ \A k \in DOMAIN OpeningChoices : r[k] \in OpeningChoices[k]
    <3>1. CASE config.Opening = Nil
      <4>1. r = ZeroOpening
        BY <3>1 DEF Pointee
      <4>2. /\ DOMAIN ZeroOpening = DOMAIN OpeningChoices
            /\ \A k \in DOMAIN OpeningChoices : ZeroOpening[k] \in OpeningChoices[k]
        BY DEF ZeroOpening, OpeningChoices, Floats
      <4>3. ZeroOpening = [k \in DOMAIN ZeroOpening |-> ZeroOpening[k]]
        BY DEF ZeroOpening
      <4> QED BY <4>1, <4>2, <4>3
    <3>2. CASE config.Opening # Nil
      <4>1. r = config.Opening
        BY <3>2 DEF Pointee
      <4> QED BY <3>2, <4>1 DEF Written, OpeningWritten
    <3> QED BY <3>1, <3>2
  <2> HIDE DEF r
  <2> QED BY <2>1 DEF OpeningWritten, r
<1>6. ASSUME NEW f \in DOMAIN HalfOpenChoices, NEW v \in HalfOpenChoices[f]
      PROVE  HalfOpenWritten([Pointee(config.HalfOpen, ZeroHalfOpen) EXCEPT ![f] = v])
  <2> DEFINE r == Pointee(config.HalfOpen, ZeroHalfOpen)
             V == UNION {HalfOpenChoices[k] : k \in DOMAIN HalfOpenChoices}
  <2>1. /\ r \in [DOMAIN HalfOpenChoices -> V]
        /\ \A k \in DOMAIN HalfOpenChoices : r[k] \in HalfOpenChoices[k]
    <3>1. CASE config.HalfOpen = Nil
      <4>1. r = ZeroHalfOpen
        BY <3>1 DEF Pointee
      <4>2. /\ DOMAIN ZeroHalfOpen = DOMAIN HalfOpenChoices
            /\ \A k \in DOMAIN HalfOpenChoices : ZeroHalfOpen[k] \in HalfOpenChoices[k]
        BY DEF ZeroHalfOpen, HalfOpenChoices, Floats
      <4>3. ZeroHalfOpen = [k \in DOMAIN ZeroHalfOpen |-> ZeroHalfOpen[k]]
        BY DEF ZeroHalfOpen
      <4> QED BY <4>1, <4>2, <4>3
    <3>2. CASE config.HalfOpen # Nil
      <4>1. r = config.HalfOpen
        BY <3>2 DEF Pointee
      <4> QED BY <3>2, <4>1 DEF Written, HalfOpenWritten
    <3> QED BY <3>1, <3>2
  <2> HIDE DEF r
  <2> QED BY <2>1 DEF HalfOpenWritten, r
<1> QED BY <1>2, <1>3, <1>4, <1>5, <1>6

\* It holds at every instant.
LEMMA ConfigInvAlways == ConfigSpec => []ConfigInv
<1> USE ConfigAssumption
<1>1. ConfigInit => ConfigInv
  <2> SUFFICES ASSUME ConfigInit PROVE ConfigInv
    OBVIOUS
  <2>1. Written(ZeroConfig)
    <3>1. \A f \in DOMAIN FieldChoices : ZeroConfig[f] \in FieldChoices[f]
      BY DEF ZeroConfig, FieldChoices, Windows, Durations, Admissions, Deliveries, Nil
    <3>2. ZeroConfig.Opening = Nil /\ ZeroConfig.HalfOpen = Nil
      BY DEF ZeroConfig
    <3> QED BY <3>1, <3>2 DEF Written, OpeningWritten, HalfOpenWritten
  <2> QED BY <2>1 DEF ConfigInit, ConfigInv
<1>2. ASSUME ConfigInv, [ConfigNext]_configVars
      PROVE  ConfigInv'
  <2>1. ASSUME NEW c, Written(c), Edit(c)
        PROVE  ConfigInv'
    <3>1. config' = c /\ result' = result /\ breaker' = breaker /\ result = "pending"
      BY <2>1 DEF Edit
    <3>2. Written(config')
      BY <2>1, <3>1
    <3>3. Written(config)'
      BY <3>2 DEF Written, OpeningWritten, HalfOpenWritten
    <3> QED BY <1>2, <3>1, <3>3 DEF ConfigInv
  <2>2. CASE \E f \in DOMAIN FieldChoices : \E v \in FieldChoices[f] : SetField(f, v)
    BY <1>2, <2>1, <2>2, EditKeepsWritten DEF ConfigInv, SetField
  <2>3. CASE \E f \in DOMAIN OpeningChoices : \E v \in OpeningChoices[f] : SetOpening(f, v)
    BY <1>2, <2>1, <2>3, EditKeepsWritten DEF ConfigInv, SetOpening
  <2>4. CASE \E f \in DOMAIN HalfOpenChoices : \E v \in HalfOpenChoices[f] : SetHalfOpen(f, v)
    BY <1>2, <2>1, <2>4, EditKeepsWritten DEF ConfigInv, SetHalfOpen
  <2>5. CASE New
    <3>1. config' = config /\ result' = InvalidField(config) /\ Written(config)
      BY <1>2, <2>5 DEF New, ConfigInv
    <3> DEFINE n == Normalized(config)
    <3>2. breaker' = IF result' # NoError THEN Nil
                     ELSE [config |-> n, window |-> NewWindow(n.window),
                           state |-> "closed", streak |-> 0, probes |-> 0]
      BY <2>5 DEF New
    <3>3. result' = NoError => Fits(n) /\ IsWindow(NewWindow(n.window))
      BY <3>1, AcceptedFits
    <3> HIDE DEF n
    <3>4. \/ breaker' = Nil
          \/ /\ DOMAIN breaker' = {"config", "window", "state", "streak", "probes"}
             /\ Fits(breaker'.config) /\ IsWindow(breaker'.window)
      BY <3>2, <3>3
    <3>5. Written(config)' /\ result' = InvalidField(config)'
      BY <3>1
    <3>6. result' = "pending" => breaker' = Nil
      BY <3>2 DEF NoError
    <3> QED BY <3>4, <3>5, <3>6 DEF ConfigInv
  <2>6. CASE SlowFailure
    <3>1. /\ UNCHANGED <<config, result>> /\ breaker # Nil /\ result # "pending"
          /\ DOMAIN breaker = {"config", "window", "state", "streak", "probes"}
          /\ Fits(breaker.config) /\ IsWindow(breaker.window)
      BY <1>2, <2>6 DEF ConfigInv, SlowFailure
    <3> DEFINE n == breaker.config
               win == IF n.window.type = "TimeWindow"
                    THEN TimeAdd(breaker.window, n.window.BucketCount, n.window.BucketDuration, 1,
                                 [Class |-> Failure, Slow |-> TRUE])
                    ELSE CountAdd(breaker.window, n.window.Size, [Class |-> Failure, Slow |-> TRUE])
    <3>2. IsWindow(win)
      <4>1. \/ DOMAIN win = DOMAIN breaker.window
            \/ DOMAIN win = {"records", "next", "length", "snapshot"}
        BY DEF TimeAdd, TimeObserve, CountAdd
      <4> QED BY <3>1, <4>1 DEF IsWindow
    <3>3. /\ DOMAIN breaker' = DOMAIN breaker
          /\ breaker'.config = breaker.config
          /\ breaker'.window = win
      BY <2>6, <3>1 DEF SlowFailure
    <3> HIDE DEF win
    <3>4. DOMAIN breaker' = DOMAIN breaker /\ Fits(breaker'.config) /\ IsWindow(breaker'.window)
      BY <3>1, <3>2, <3>3
    <3>5. Written(config)' /\ result' # "pending" /\ result' = InvalidField(config)'
      BY <1>2, <3>1 DEF ConfigInv
    <3> QED BY <3>1, <3>4, <3>5 DEF ConfigInv
  <2>7. CASE ProbeSucceeds
    BY <1>2, <2>7 DEF ConfigInv, ProbeSucceeds
  <2>8. CASE UNCHANGED configVars
    BY <1>2, <2>8 DEF ConfigInv, configVars
  <2> QED BY <1>2, <2>2, <2>3, <2>4, <2>5, <2>6, <2>7, <2>8 DEF ConfigNext
<1> QED BY <1>1, <1>2, PTL DEF ConfigSpec

\* Whatever a caller writes into a Config, a breaker New returns meets every
\* assumption that the other modules make of its configuration.
THEOREM NewAlwaysBuilds == ConfigSpec => []Buildable
<1>1. ConfigInv => Buildable
  BY WindowIsSomething DEF ConfigInv, Buildable, Fits
<1> QED BY <1>1, ConfigInvAlways, PTL

-----------------------------------------------------------------------------
(* Construction: the field an error names *)

\* Why a field of the opening rules is at fault.
OpeningFault(f, r) ==
  \/ f = "Opening.Combination" /\ r.Combination = "unknown"
  \/ f = "Opening.IgnoredBehavior" /\ r.IgnoredBehavior = "unknown"
  \/ f = "Opening.FailureRatio" /\ InvalidRatio(r.FailureRatio)
  \/ f = "Opening.SlowRatio" /\ InvalidRatio(r.SlowRatio)
  \/ f = "Opening" /\ (\A k \in Rules : r[k] = 0)

\* Why a field of the half-open policy is at fault.
HalfOpenFault(f, p) ==
  \/ f = "HalfOpen.MaxProbes" /\ p.MaxProbes < 1
  \/ f = "HalfOpen.MaxProbes" /\ p.MaxProbes > MaxHalfOpenProbes
  \/ f = "HalfOpen.FailureAction" /\ p.FailureAction = "unknown"
  \/ f = "HalfOpen.SuccessRatio" /\ InvalidRatio(p.SuccessRatio)
  \/ f = "HalfOpen" /\ p.RequiredSuccesses > 0 /\ Less(0, p.SuccessRatio)
  \/ f = "HalfOpen" /\ p.RequiredSuccesses <= 0 /\ p.SuccessRatio = 0
  \/ f = "HalfOpen.RequiredSuccesses" /\ Unreachable(p)

\* Why a count exceeds the window.
CapacityFault(f, c) ==
  /\ c.Window.type # "TimeWindow"
  /\ \/ /\ f = "Opening.FailureCount"
        /\ NormalOpening(c.Opening).FailureCount > CountWindowSize(c.Window)
     \/ f = "Opening.SlowCount" /\ NormalOpening(c.Opening).SlowCount > CountWindowSize(c.Window)

\* Why a field of the Config itself is at fault.
OwnFault(f, c) ==
  \/ f = "Name" /\ (c.Name = 0 \/ c.Name > MaxNameBytes)
  \/ f = "MinimumThroughput" /\ (c.MinimumThroughput < 0 \/ WindowTooSmall(c))
  \/ f = "SlowCallDuration" /\ c.SlowCallDuration < 0
  \/ f = "Clock" /\ c.Clock = TypedNil
  \/ f = "PermitTTL" /\ c.PermitTTL < 0
  \/ f = "OpenDurationJitter" /\ InvalidJitter(c.OpenDurationJitter)
  \/ f = "Random" /\ c.Random = TypedNil

\* Why something a Config holds by type is at fault: it is there.
TypedFault(f, c) ==
  \/ /\ f \in {"Window", "Window.Size", "Window.BucketDuration", "Window.BucketCount"}
     /\ c.Window # Nil
  \/ /\ f \in {"OpenDuration", "OpenDuration.Initial", "OpenDuration.Multiplier",
               "OpenDuration.Maximum"}
     /\ c.OpenDuration # Nil
  \/ f \in {"HalfOpenAdmission", "HalfOpenAdmission.MaxWait"} /\ c.HalfOpenAdmission # Nil
  \/ /\ f \in {"EventDelivery", "EventDelivery.Buffer", "EventDelivery.Overflow"}
     /\ c.EventDelivery # Nil

\* A field is at fault for a reason of its own.
FaultOf(f, c) ==
  \/ OwnFault(f, c)
  \/ TypedFault(f, c)
  \/ c.Opening # Nil /\ OpeningFault(f, c.Opening)
  \/ CapacityFault(f, c)
  \/ c.HalfOpen # Nil /\ HalfOpenFault(f, c.HalfOpen)

\* Every fault New finds has one of those reasons.
LEMMA FaultReason ==
  ASSUME NEW c, Written(c), NEW f, f \in Faults(Checks(c))
  PROVE  FaultOf(f, c)
<1>1. \/ f \in Faults(NameChecks(c)) \/ f \in Faults(ThroughputChecks(c))
      \/ f \in Faults(SlowChecks(c)) \/ f \in Faults(ClockChecks(c))
      \/ f \in Faults(JitterChecks(c)) \/ f \in Faults(WindowChecks(c.Window))
      \/ f \in Faults(OpenDurationChecks(c.OpenDuration))
      \/ f \in Faults(AdmissionChecks(c.HalfOpenAdmission))
      \/ f \in Faults(ObserverChecks(c.Observer, c.EventDelivery))
      \/ f \in Faults(OpeningChecks(c.Opening)) \/ f \in Faults(CapacityChecks(c))
      \/ f \in Faults(HalfOpenChecks(c.HalfOpen))
  BY ChecksOf
<1>2. CASE \/ f \in Faults(NameChecks(c)) \/ f \in Faults(ThroughputChecks(c))
           \/ f \in Faults(SlowChecks(c)) \/ f \in Faults(ClockChecks(c))
           \/ f \in Faults(JitterChecks(c))
  BY <1>2, OwnFaults DEF FaultOf, OwnFault
<1>3. CASE f \in Faults(WindowChecks(c.Window))
  BY <1>3, FieldsOf, WindowFaults DEF FaultOf, TypedFault
<1>4. CASE f \in Faults(OpenDurationChecks(c.OpenDuration))
  BY <1>4, FieldsOf, OpenDurationFaults DEF FaultOf, TypedFault
<1>5. CASE f \in Faults(AdmissionChecks(c.HalfOpenAdmission))
  BY <1>5, FieldsOf, AdmissionFaults DEF FaultOf, TypedFault
<1>6. CASE f \in Faults(ObserverChecks(c.Observer, c.EventDelivery))
  BY <1>6, FieldsOf, ObserverFaults DEF FaultOf, TypedFault
<1>7. CASE f \in Faults(OpeningChecks(c.Opening))
  <2>1. OpeningWritten(c.Opening)
    BY DEF Written
  <2>2. c.Opening # Nil
    BY <1>7, <2>1, OpeningFaults
  <2>3. OpeningFault(f, c.Opening)
    BY <1>7, <2>1, <2>2, OpeningFaults DEF OpeningFault
  <2> QED BY <2>2, <2>3 DEF FaultOf
<1>8. CASE f \in Faults(CapacityChecks(c))
  BY <1>8, CapacityFaults DEF FaultOf, CapacityFault
<1>9. CASE f \in Faults(HalfOpenChecks(c.HalfOpen))
  <2>1. HalfOpenWritten(c.HalfOpen)
    BY DEF Written
  <2>2. c.HalfOpen # Nil
    BY <1>9, <2>1, HalfOpenFaults
  <2>3. HalfOpenFault(f, c.HalfOpen)
    BY <1>9, <2>1, <2>2, HalfOpenFaults DEF HalfOpenFault
  <2> QED BY <2>2, <2>3 DEF FaultOf
<1> QED BY <1>1, <1>2, <1>3, <1>4, <1>5, <1>6, <1>7, <1>8, <1>9

\* A change of the Config that leaves the field without a fault is a repair.
LEMMA Repaired ==
  ASSUME NEW f, f # NoError, NEW c \in Repairs(f), Written(c), ~FaultOf(f, c)
  PROVE  \E r \in Repairs(f) : InvalidField(r) # f
<1>1. InvalidField(c) # f
  BY ChecksOf, FirstFault, FaultReason
<1> QED BY <1>1

\* The changes a Field allows.
LEMMA RepairSets ==
  ASSUME NEW f, NEW k
  PROVE  /\ <<f, k>> \in ConfigFields => ConfigChanges(k) \subseteq Repairs(f)
         /\ <<f, k>> \in OpeningFields => OpeningChanges(k) \subseteq Repairs(f)
         /\ <<f, k>> \in HalfOpenFields => HalfOpenChanges(k) \subseteq Repairs(f)
         /\ f \in {"Opening", "HalfOpen"} => [config EXCEPT ![f] = Nil] \in Repairs(f)
<1>1. ASSUME NEW S, <<f, k>> \in S
      PROVE  k \in Named(f, S)
  <2>1. <<f, k>>[1] = f /\ <<f, k>>[2] = k
    OBVIOUS
  <2> DEFINE p == <<f, k>>
  <2> HIDE DEF p
  <2>2. p \in {q \in S : q[1] = f} /\ k = p[2]
    BY <1>1, <2>1 DEF p
  <2> QED BY <2>2 DEF Named
<1>2. <<f, k>> \in ConfigFields => ConfigChanges(k) \subseteq Repairs(f)
  BY <1>1 DEF Repairs
<1>3. <<f, k>> \in OpeningFields => OpeningChanges(k) \subseteq Repairs(f)
  BY <1>1 DEF Repairs
<1>4. <<f, k>> \in HalfOpenFields => HalfOpenChanges(k) \subseteq Repairs(f)
  BY <1>1 DEF Repairs
<1>5. f \in {"Opening", "HalfOpen"} => [config EXCEPT ![f] = Nil] \in Repairs(f)
  BY DEF Repairs
<1> QED BY <1>2, <1>3, <1>4, <1>5

\* Setting a field of the Config.
With(k, v) == [config EXCEPT ![k] = v]

\* Setting a field keeps the Config one a caller can write, and repairs it.
LEMMA RepairField ==
  ASSUME Written(config), NEW f, NEW k \in DOMAIN FieldChoices, <<f, k>> \in ConfigFields,
         NEW v \in FieldChoices[k]
  PROVE  /\ With(k, v) \in Repairs(f) /\ Written(With(k, v)) /\ With(k, v)[k] = v
         /\ \A j \in DOMAIN config : j # k => With(k, v)[j] = config[j]
<1> DEFINE c == [config EXCEPT ![k] = v]
<1>1. c \in Repairs(f)
  BY RepairSets DEF ConfigChanges
<1>2. Written(c)
  BY EditKeepsWritten
<1>3. k \in DOMAIN config
  BY DEF Written, FieldChoices, ZeroConfig
<1> QED BY <1>1, <1>2, <1>3 DEF With

\* Setting a field of the policy that Opening, or HalfOpen, points to.
WithOpening(k, v) == [config EXCEPT !.Opening[k] = v]
WithHalfOpen(k, v) == [config EXCEPT !.HalfOpen[k] = v]

\* The same of a field of Opening.
LEMMA RepairOpening ==
  ASSUME Written(config), config.Opening # Nil, NEW f, NEW k \in DOMAIN OpeningChoices,
         <<f, k>> \in OpeningFields, NEW v \in OpeningChoices[k],
         NEW c, c = WithOpening(k, v)
  PROVE  /\ c \in Repairs(f) /\ Written(c) /\ c.Opening[k] = v
         /\ c.Window = config.Window /\ c.Opening # Nil
<1> USE DEF WithOpening
<1>1. c \in Repairs(f)
  BY RepairSets DEF OpeningChanges
<1>2. c = [config EXCEPT !.Opening = [Pointee(@, ZeroOpening) EXCEPT ![k] = v]]
  BY DEF Pointee
<1>3. Written(c)
  BY <1>2, EditKeepsWritten
<1>4. {"Opening", "Window"} \subseteq DOMAIN config /\ k \in DOMAIN config.Opening
  BY DEF Written, OpeningWritten, ZeroConfig
<1>5. DOMAIN c.Opening = DOMAIN config.Opening /\ DOMAIN config.Opening # DOMAIN Nil
  BY <1>4 DEF Written, OpeningWritten, OpeningChoices, Nil
<1> QED BY <1>1, <1>3, <1>4, <1>5

\* The same of a field of HalfOpen.
LEMMA RepairHalfOpen ==
  ASSUME Written(config), config.HalfOpen # Nil, NEW f, NEW k \in DOMAIN HalfOpenChoices,
         <<f, k>> \in HalfOpenFields, NEW v \in HalfOpenChoices[k],
         NEW c, c = WithHalfOpen(k, v)
  PROVE  c \in Repairs(f) /\ Written(c) /\ c.HalfOpen[k] = v /\ c.HalfOpen # Nil
<1> USE DEF WithHalfOpen
<1>1. c \in Repairs(f)
  BY RepairSets DEF HalfOpenChanges
<1>2. c = [config EXCEPT !.HalfOpen = [Pointee(@, ZeroHalfOpen) EXCEPT ![k] = v]]
  BY DEF Pointee
<1>3. Written(c)
  BY <1>2, EditKeepsWritten
<1>4. "HalfOpen" \in DOMAIN config /\ k \in DOMAIN config.HalfOpen
  BY DEF Written, HalfOpenWritten, ZeroConfig
<1>5. DOMAIN c.HalfOpen = DOMAIN config.HalfOpen /\ DOMAIN config.HalfOpen # DOMAIN Nil
  BY <1>4 DEF Written, HalfOpenWritten, HalfOpenChoices, Nil
<1> QED BY <1>1, <1>3, <1>4, <1>5

\* Without the policy its defaults apply.
LEMMA RepairPolicy ==
  ASSUME Written(config), NEW f \in {"Opening", "HalfOpen"},
         NEW c, c = [config EXCEPT ![f] = Nil]
  PROVE  c \in Repairs(f) /\ Written(c) /\ c[f] = Nil
<1>1. c \in Repairs(f)
  BY RepairSets
<1>2. c[f] = Nil /\ "Opening" \notin DOMAIN FieldChoices /\ "HalfOpen" \notin DOMAIN FieldChoices
  BY DEF Written, ZeroConfig, FieldChoices
<1>3. Written(c)
  BY <1>2 DEF Written, OpeningWritten, HalfOpenWritten, ZeroConfig
<1> QED BY <1>1, <1>2, <1>3

\* Every reason has its repair.  The minimum throughput alone leans on the order
\* of the checks: it is named only when the window has passed, so 1 fits.
LEMMA RepairOwn ==
  ASSUME Written(config), result # NoError, result = InvalidField(config), OwnFault(result, config)
  PROVE  \E c \in Repairs(result) : InvalidField(c) # result
<1> USE ConfigAssumption
<1>1. result # NoError
  OBVIOUS
<1>2. CASE result # "MinimumThroughput"
  <2>1. CASE result = "Name"
    <3> DEFINE c == With("Name", 1)
    <3>1. <<"Name", "Name">> \in ConfigFields /\ "Name" \in DOMAIN FieldChoices
      BY DEF ConfigFields, FieldChoices
    <3>2. 1 \in FieldChoices["Name"]
      BY DEF FieldChoices, Nil
    <3>3. c \in Repairs("Name") /\ Written(c) /\ c["Name"] = 1
      BY <3>1, <3>2, RepairField
    <3>4. ~FaultOf("Name", c)
      BY <3>3 DEF FaultOf, OwnFault, TypedFault, OpeningFault, CapacityFault, HalfOpenFault
    <3> QED BY <1>1, <2>1, <3>3, <3>4, Repaired
  <2>2. CASE result = "SlowCallDuration"
    <3> DEFINE c == With("SlowCallDuration", 0)
    <3>1. /\ <<"SlowCallDuration", "SlowCallDuration">> \in ConfigFields
          /\ "SlowCallDuration" \in DOMAIN FieldChoices
      BY DEF ConfigFields, FieldChoices
    <3>2. 0 \in FieldChoices["SlowCallDuration"]
      BY DEF FieldChoices, Nil
    <3>3. c \in Repairs("SlowCallDuration") /\ Written(c) /\ c["SlowCallDuration"] = 0
      BY <3>1, <3>2, RepairField
    <3>4. ~FaultOf("SlowCallDuration", c)
      BY <3>3 DEF FaultOf, OwnFault, TypedFault, OpeningFault, CapacityFault, HalfOpenFault
    <3> QED BY <1>1, <2>2, <3>3, <3>4, Repaired
  <2>3. CASE result = "Clock"
    <3> DEFINE c == With("Clock", Nil)
    <3>1. <<"Clock", "Clock">> \in ConfigFields /\ "Clock" \in DOMAIN FieldChoices
      BY DEF ConfigFields, FieldChoices
    <3>2. Nil \in FieldChoices["Clock"]
      BY DEF FieldChoices, Nil
    <3>3. c \in Repairs("Clock") /\ Written(c) /\ c["Clock"] = Nil
      BY <3>1, <3>2, RepairField
    <3>4. ~FaultOf("Clock", c)
      BY <3>3 DEF FaultOf, OwnFault, TypedFault, OpeningFault, CapacityFault, HalfOpenFault,
                  Nil, TypedNil
    <3> QED BY <1>1, <2>3, <3>3, <3>4, Repaired
  <2>4. CASE result = "PermitTTL"
    <3> DEFINE c == With("PermitTTL", 0)
    <3>1. <<"PermitTTL", "PermitTTL">> \in ConfigFields /\ "PermitTTL" \in DOMAIN FieldChoices
      BY DEF ConfigFields, FieldChoices
    <3>2. 0 \in FieldChoices["PermitTTL"]
      BY DEF FieldChoices, Nil
    <3>3. c \in Repairs("PermitTTL") /\ Written(c) /\ c["PermitTTL"] = 0
      BY <3>1, <3>2, RepairField
    <3>4. ~FaultOf("PermitTTL", c)
      BY <3>3 DEF FaultOf, OwnFault, TypedFault, OpeningFault, CapacityFault, HalfOpenFault
    <3> QED BY <1>1, <2>4, <3>3, <3>4, Repaired
  <2>5. CASE result = "OpenDurationJitter"
    <3> DEFINE c == With("OpenDurationJitter", 0)
    <3>1. /\ <<"OpenDurationJitter", "OpenDurationJitter">> \in ConfigFields
          /\ "OpenDurationJitter" \in DOMAIN FieldChoices
      BY DEF ConfigFields, FieldChoices
    <3>2. 0 \in FieldChoices["OpenDurationJitter"]
      BY DEF FieldChoices, Nil
    <3>3. c \in Repairs("OpenDurationJitter") /\ Written(c) /\ c["OpenDurationJitter"] = 0
      BY <3>1, <3>2, RepairField
    <3>4. ~FaultOf("OpenDurationJitter", c)
      BY <3>3 DEF FaultOf, OwnFault, TypedFault, OpeningFault, CapacityFault, HalfOpenFault,
                  InvalidJitter, finite, Less, NaN, Inf
    <3> QED BY <1>1, <2>5, <3>3, <3>4, Repaired
  <2>6. CASE result = "Random"
    <3> DEFINE c == With("Random", Nil)
    <3>1. <<"Random", "Random">> \in ConfigFields /\ "Random" \in DOMAIN FieldChoices
      BY DEF ConfigFields, FieldChoices
    <3>2. Nil \in FieldChoices["Random"]
      BY DEF FieldChoices, Nil
    <3>3. c \in Repairs("Random") /\ Written(c) /\ c["Random"] = Nil
      BY <3>1, <3>2, RepairField
    <3>4. ~FaultOf("Random", c)
      BY <3>3 DEF FaultOf, OwnFault, TypedFault, OpeningFault, CapacityFault, HalfOpenFault,
                  Nil, TypedNil
    <3> QED BY <1>1, <2>6, <3>3, <3>4, Repaired
  <2> QED BY <1>2, <2>1, <2>2, <2>3, <2>4, <2>5, <2>6 DEF OwnFault
<1>3. CASE result = "MinimumThroughput"
  <2> DEFINE c == With("MinimumThroughput", 1)
  <2>1. /\ <<"MinimumThroughput", "MinimumThroughput">> \in ConfigFields
        /\ "MinimumThroughput" \in DOMAIN FieldChoices
        /\ 1 \in FieldChoices["MinimumThroughput"]
        /\ "Window" \in DOMAIN config
    BY DEF ConfigFields, FieldChoices, Written, ZeroConfig
  <2>2. /\ c \in Repairs("MinimumThroughput") /\ Written(c)
        /\ c.MinimumThroughput = 1 /\ c.Window = config.Window
    BY <2>1, RepairField
  <2>3. Faults(WindowChecks(config.Window)) = {}
    BY <1>3, ChecksOf, OwnFaults, WindowFaults, FieldsOf
  <2>4. config.Window.type # "TimeWindow" => CountWindowSize(config.Window) \in Nat \ {0}
    BY <2>3, WindowFaults, FieldsOf
  <2>5. ~WindowTooSmall(c)
    BY <2>2, <2>4 DEF WindowTooSmall, OrDefault
  <2>6. ~FaultOf("MinimumThroughput", c)
    BY <2>2, <2>5 DEF FaultOf, OwnFault, TypedFault, OpeningFault, CapacityFault, HalfOpenFault
  <2> QED BY <1>1, <1>3, <2>2, <2>6, Repaired
<1> QED BY <1>2, <1>3

\* What a Config holds by type is repaired by leaving it out.
LEMMA RepairTyped ==
  ASSUME Written(config), result # NoError, TypedFault(result, config)
  PROVE  \E c \in Repairs(result) : InvalidField(c) # result
<1>1. ASSUME NEW k \in {"Window", "OpenDuration", "HalfOpenAdmission", "EventDelivery"},
             <<result, k>> \in ConfigFields,
             \A c : c[k] = Nil => ~FaultOf(result, c)
      PROVE  \E c \in Repairs(result) : InvalidField(c) # result
  <2> DEFINE c == With(k, Nil)
  <2>1. k \in DOMAIN FieldChoices /\ Nil \in FieldChoices[k]
    BY DEF FieldChoices, Windows, Durations, Admissions, Deliveries
  <2>2. c \in Repairs(result) /\ Written(c) /\ c[k] = Nil
    BY <1>1, <2>1, RepairField
  <2> QED BY <1>1, <2>2, Repaired
<1>2. CASE result \in {"Window", "Window.Size",
                        "Window.BucketDuration", "Window.BucketCount"}
  <2>1. <<result, "Window">> \in ConfigFields
    BY <1>2 DEF ConfigFields, FieldChoices
  <2>2. \A c : c["Window"] = Nil => ~FaultOf(result, c)
    BY <1>2 DEF FaultOf, OwnFault, TypedFault, OpeningFault, CapacityFault, HalfOpenFault
  <2> QED BY <1>1, <2>1, <2>2
<1>3. CASE result \in {"OpenDuration", "OpenDuration.Initial",
                        "OpenDuration.Multiplier", "OpenDuration.Maximum"}
  <2>1. <<result, "OpenDuration">> \in ConfigFields
    BY <1>3 DEF ConfigFields, FieldChoices
  <2>2. \A c : c["OpenDuration"] = Nil => ~FaultOf(result, c)
    BY <1>3 DEF FaultOf, OwnFault, TypedFault, OpeningFault, CapacityFault, HalfOpenFault
  <2> QED BY <1>1, <2>1, <2>2
<1>4. CASE result \in {"HalfOpenAdmission", "HalfOpenAdmission.MaxWait"}
  <2>1. <<result, "HalfOpenAdmission">> \in ConfigFields
    BY <1>4 DEF ConfigFields, FieldChoices
  <2>2. \A c : c["HalfOpenAdmission"] = Nil => ~FaultOf(result, c)
    BY <1>4 DEF FaultOf, OwnFault, TypedFault, OpeningFault, CapacityFault, HalfOpenFault
  <2> QED BY <1>1, <2>1, <2>2
<1>5. CASE result \in {"EventDelivery", "EventDelivery.Buffer", "EventDelivery.Overflow"}
  <2>1. <<result, "EventDelivery">> \in ConfigFields
    BY <1>5 DEF ConfigFields, FieldChoices
  <2>2. \A c : c["EventDelivery"] = Nil => ~FaultOf(result, c)
    BY <1>5 DEF FaultOf, OwnFault, TypedFault, OpeningFault, CapacityFault, HalfOpenFault
  <2> QED BY <1>1, <2>1, <2>2
<1> QED BY <1>2, <1>3, <1>4, <1>5 DEF TypedFault

\* A rule the window cannot reach is repaired by turning it off; one that no
\* window, policy or flag excuses, by a value in its range.
LEMMA RepairRules ==
  ASSUME Written(config), result # NoError,
         \/ config.Opening # Nil /\ OpeningFault(result, config.Opening)
         \/ CapacityFault(result, config)
  PROVE  \E c \in Repairs(result) : InvalidField(c) # result
<1> USE ConfigAssumption
<1>1. CASE result = "Opening"
  <2>1. ~FaultOf("Opening", With("Opening", Nil))
    <3>1. With("Opening", Nil).Opening = Nil
      BY RepairPolicy DEF With
    <3> QED BY <3>1 DEF FaultOf, OwnFault, TypedFault, OpeningFault, CapacityFault, HalfOpenFault
  <2>2. With("Opening", Nil) \in Repairs("Opening") /\ Written(With("Opening", Nil))
    BY RepairPolicy DEF With
  <2> QED BY <1>1, <2>1, <2>2, Repaired
<1>2. ASSUME NEW k \in DOMAIN OpeningChoices, <<result, k>> \in OpeningFields,
             config.Opening # Nil, NEW v \in OpeningChoices[k],
             \A c : Written(c) /\ c.Opening # Nil /\ c.Opening[k] = v => ~FaultOf(result, c)
      PROVE  \E c \in Repairs(result) : InvalidField(c) # result
  BY <1>2, RepairOpening, Repaired
<1>3. \A c : Written(c) => CountWindowSize(c.Window) \in Nat
  <2> SUFFICES ASSUME NEW c, Written(c) PROVE CountWindowSize(c.Window) \in Nat
    OBVIOUS
  <2>1. c.Window \in Windows
    BY FieldsOf
  <2>2. CASE c.Window.type = "CountWindow"
    <3>1. CountWindowSize(c.Window) = c.Window.Size
      BY <2>2, Zenon DEF CountWindowSize
    <3> QED BY <2>1, <2>2, <3>1 DEF Windows, Nil, Unsupported
  <2>3. CASE c.Window.type = "nil"
    BY <2>3, Zenon DEF CountWindowSize
  <2>4. CASE c.Window.type \notin {"nil", "CountWindow"}
    <3>1. CountWindowSize(c.Window) = 0
      BY <2>4, Zenon DEF CountWindowSize
    <3> QED BY <3>1
  <2> QED BY <2>2, <2>3, <2>4
<1>4. CASE result = "Opening.Combination"
  <2>1. /\ "Combination" \in DOMAIN OpeningChoices /\ OpenWhenAny \in OpeningChoices["Combination"]
        /\ <<result, "Combination">> \in OpeningFields /\ config.Opening # Nil
    BY <1>4 DEF OpeningChoices, OpeningFields, Floats, OpeningFault, CapacityFault
  <2>2. \A c : c.Opening["Combination"] = OpenWhenAny => ~FaultOf(result, c)
    BY <1>4 DEF FaultOf, OwnFault, TypedFault, OpeningFault, CapacityFault, HalfOpenFault,
              OpenWhenAny
  <2> QED BY <1>2, <2>1, <2>2
<1>5. CASE result = "Opening.IgnoredBehavior"
  <2>1. /\ "IgnoredBehavior" \in DOMAIN OpeningChoices
        /\ PreserveConsecutiveFailures \in OpeningChoices["IgnoredBehavior"]
        /\ <<result, "IgnoredBehavior">> \in OpeningFields /\ config.Opening # Nil
    BY <1>5 DEF OpeningChoices, OpeningFields, Floats, OpeningFault, CapacityFault
  <2>2. \A c : c.Opening["IgnoredBehavior"] = PreserveConsecutiveFailures => ~FaultOf(result, c)
    BY <1>5 DEF FaultOf, OwnFault, TypedFault, OpeningFault, CapacityFault, HalfOpenFault,
              PreserveConsecutiveFailures
  <2> QED BY <1>2, <2>1, <2>2
<1>6. CASE result = "Opening.FailureRatio"
  <2>1. /\ "FailureRatio" \in DOMAIN OpeningChoices /\ 0 \in OpeningChoices["FailureRatio"]
        /\ <<result, "FailureRatio">> \in OpeningFields /\ config.Opening # Nil
    BY <1>6 DEF OpeningChoices, OpeningFields, Floats, OpeningFault, CapacityFault
  <2>2. \A c : c.Opening["FailureRatio"] = 0 => ~FaultOf(result, c)
    BY <1>6 DEF FaultOf, OwnFault, TypedFault, OpeningFault, CapacityFault, HalfOpenFault,
              InvalidRatio, finite, Less, NaN, Inf
  <2> QED BY <1>2, <2>1, <2>2
<1>7. CASE result = "Opening.SlowRatio"
  <2>1. /\ "SlowRatio" \in DOMAIN OpeningChoices /\ 0 \in OpeningChoices["SlowRatio"]
        /\ <<result, "SlowRatio">> \in OpeningFields /\ config.Opening # Nil
    BY <1>7 DEF OpeningChoices, OpeningFields, Floats, OpeningFault, CapacityFault
  <2>2. \A c : c.Opening["SlowRatio"] = 0 => ~FaultOf(result, c)
    BY <1>7 DEF FaultOf, OwnFault, TypedFault, OpeningFault, CapacityFault, HalfOpenFault,
              InvalidRatio, finite, Less, NaN, Inf
  <2> QED BY <1>2, <2>1, <2>2
<1>8. CASE result = "Opening.FailureCount"
  <2>1. config.Opening # Nil
    BY <1>3, <1>8 DEF OpeningFault, CapacityFault, NormalOpening, ZeroOpening
  <2>2. /\ "FailureCount" \in DOMAIN OpeningChoices /\ 0 \in OpeningChoices["FailureCount"]
        /\ <<result, "FailureCount">> \in OpeningFields
    BY <1>8 DEF OpeningChoices, OpeningFields
  <2>3. ASSUME NEW c, Written(c), c.Opening # Nil, c.Opening["FailureCount"] = 0
        PROVE  ~FaultOf(result, c)
    <3>1. NormalOpening(c.Opening).FailureCount = 0
      BY <2>3 DEF NormalOpening
    <3>2. ~(NormalOpening(c.Opening).FailureCount > CountWindowSize(c.Window))
      BY <1>3, <2>3, <3>1
    <3> QED BY <1>8, <3>2 DEF FaultOf, OwnFault, TypedFault, OpeningFault, CapacityFault,
                              HalfOpenFault
  <2> QED BY <1>2, <2>1, <2>2, <2>3
<1>9. CASE result = "Opening.SlowCount"
  <2>1. config.Opening # Nil
    BY <1>3, <1>9 DEF OpeningFault, CapacityFault, NormalOpening, ZeroOpening
  <2>2. /\ "SlowCount" \in DOMAIN OpeningChoices /\ 0 \in OpeningChoices["SlowCount"]
        /\ <<result, "SlowCount">> \in OpeningFields
    BY <1>9 DEF OpeningChoices, OpeningFields
  <2>3. ASSUME NEW c, Written(c), c.Opening # Nil, c.Opening["SlowCount"] = 0
        PROVE  ~FaultOf(result, c)
    <3>1. NormalOpening(c.Opening).SlowCount = 0
      BY <2>3 DEF NormalOpening
    <3>2. ~(NormalOpening(c.Opening).SlowCount > CountWindowSize(c.Window))
      BY <1>3, <2>3, <3>1
    <3> QED BY <1>9, <3>2 DEF FaultOf, OwnFault, TypedFault, OpeningFault, CapacityFault,
                              HalfOpenFault
  <2> QED BY <1>2, <2>1, <2>2, <2>3
<1> QED BY <1>1, <1>4, <1>5, <1>6, <1>7, <1>8, <1>9 DEF OpeningFault, CapacityFault

\* The same of the policy for probes.
LEMMA RepairProbes ==
  ASSUME Written(config), result # NoError,
         config.HalfOpen # Nil, HalfOpenFault(result, config.HalfOpen)
  PROVE  \E c \in Repairs(result) : InvalidField(c) # result
<1> USE ConfigAssumption
<1>1. CASE result = "HalfOpen"
  <2>1. ~FaultOf("HalfOpen", With("HalfOpen", Nil))
    <3>1. With("HalfOpen", Nil).HalfOpen = Nil
      BY RepairPolicy DEF With
    <3> QED BY <3>1 DEF FaultOf, OwnFault, TypedFault, OpeningFault, CapacityFault, HalfOpenFault
  <2>2. With("HalfOpen", Nil) \in Repairs("HalfOpen") /\ Written(With("HalfOpen", Nil))
    BY RepairPolicy DEF With
  <2> QED BY <1>1, <2>1, <2>2, Repaired
<1>2. ASSUME NEW k \in DOMAIN HalfOpenChoices, <<result, k>> \in HalfOpenFields,
             NEW v \in HalfOpenChoices[k],
             \A c : Written(c) /\ c.HalfOpen # Nil /\ c.HalfOpen[k] = v => ~FaultOf(result, c)
      PROVE  \E c \in Repairs(result) : InvalidField(c) # result
  BY <1>2, RepairHalfOpen, Repaired
<1>3. CASE result = "HalfOpen.MaxProbes"
  <2>1. /\ "MaxProbes" \in DOMAIN HalfOpenChoices /\ 1 \in HalfOpenChoices["MaxProbes"]
        /\ <<result, "MaxProbes">> \in HalfOpenFields
    BY <1>3 DEF HalfOpenChoices, HalfOpenFields, Floats
  <2>2. \A c : c.HalfOpen["MaxProbes"] = 1 => ~FaultOf(result, c)
    BY <1>3 DEF FaultOf, OwnFault, TypedFault, OpeningFault, CapacityFault, HalfOpenFault
  <2> QED BY <1>2, <2>1, <2>2
<1>4. CASE result = "HalfOpen.RequiredSuccesses"
  <2>1. /\ "RequiredSuccesses" \in DOMAIN HalfOpenChoices
        /\ 0 \in HalfOpenChoices["RequiredSuccesses"]
        /\ <<result, "RequiredSuccesses">> \in HalfOpenFields
    BY <1>4 DEF HalfOpenChoices, HalfOpenFields, Floats
  <2>2. ASSUME NEW c, Written(c), c.HalfOpen # Nil, c.HalfOpen["RequiredSuccesses"] = 0
        PROVE  ~FaultOf(result, c)
    <3>1. c.HalfOpen.MaxProbes \in Nat
      BY <2>2, HalfOpenOf DEF Written
    <3>2. ~Unreachable(c.HalfOpen)
      BY <2>2, <3>1 DEF Unreachable
    <3> QED BY <1>4, <3>2 DEF FaultOf, OwnFault, TypedFault, OpeningFault, CapacityFault,
                              HalfOpenFault
  <2> QED BY <1>2, <2>1, <2>2
<1>5. CASE result = "HalfOpen.SuccessRatio"
  <2>1. /\ "SuccessRatio" \in DOMAIN HalfOpenChoices /\ 0 \in HalfOpenChoices["SuccessRatio"]
        /\ <<result, "SuccessRatio">> \in HalfOpenFields
    BY <1>5 DEF HalfOpenChoices, HalfOpenFields, Floats
  <2>2. \A c : c.HalfOpen["SuccessRatio"] = 0 => ~FaultOf(result, c)
    BY <1>5 DEF FaultOf, OwnFault, TypedFault, OpeningFault, CapacityFault, HalfOpenFault,
              InvalidRatio, finite, Less, NaN, Inf
  <2> QED BY <1>2, <2>1, <2>2
<1>6. CASE result = "HalfOpen.FailureAction"
  <2>1. /\ "FailureAction" \in DOMAIN HalfOpenChoices
        /\ ReopenImmediately \in HalfOpenChoices["FailureAction"]
        /\ <<result, "FailureAction">> \in HalfOpenFields
    BY <1>6 DEF HalfOpenChoices, HalfOpenFields, Floats
  <2>2. \A c : c.HalfOpen["FailureAction"] = ReopenImmediately => ~FaultOf(result, c)
    BY <1>6 DEF FaultOf, OwnFault, TypedFault, OpeningFault, CapacityFault, HalfOpenFault,
              ReopenImmediately
  <2> QED BY <1>2, <2>1, <2>2
<1> QED BY <1>1, <1>3, <1>4, <1>5, <1>6 DEF HalfOpenFault

\* The Field of an InvalidConfigError is the one to change: setting that field
\* alone stops New from complaining about it, whatever else the Config holds.
THEOREM NamedFieldAlwaysRepairs == ConfigSpec => []NamedFieldRepairs
<1>1. ConfigInv => NamedFieldRepairs
  <2> SUFFICES ASSUME ConfigInv, result # "pending", result # NoError
               PROVE  \E c \in Repairs(result) : InvalidField(c) # result
    BY DEF NamedFieldRepairs
  <2>1. Written(config) /\ result = InvalidField(config)
    BY DEF ConfigInv
  <2>2. FaultOf(result, config)
    BY <2>1, ChecksOf, FirstFault, FaultReason
  <2> QED BY <2>1, <2>2, RepairOwn, RepairTyped, RepairRules, RepairProbes DEF FaultOf
<1> QED BY <1>1, ConfigInvAlways, PTL

=============================================================================
