------------------------- MODULE SyncObserverProofs -------------------------
(***************************************************************************)
(* Proofs about the synchronous observer, for any number of goroutines,    *)
(* any depth of nested callbacks and any number of events.                 *)
(*                                                                         *)
(* Section says that pendingEvents holds at most the event just committed, *)
(* and that only while its committer is about to release mu; it implies    *)
(* PendingIsTheHolders.  Delivery adds where every other event is: with    *)
(* the one frame of its committer that took it, or observed; it implies    *)
(* DeliveredByCommitter.                                                   *)
(***************************************************************************)
EXTENDS SyncObserver, FiniteSetTheorems, SequenceTheorems, TLAPS

Label == {"lock", "locked", "unlock", "dispatch", "callback"}
Frame == [pc : Label, events : Seq(Nat)]

Types ==
  /\ stack \in [Client -> Seq(Frame)]
  /\ pendingEvents \in Seq(Nat)
  /\ transitions \in Nat
  /\ origin \in Seq(Client) /\ Len(origin) = transitions
  /\ observed \in Seq(Client \X Nat)

\* A goroutine inside the critical section of mu.
Inside(g) == stack[g] # <<>> /\ Top(g).pc \in {"locked", "unlock"}

Section ==
  /\ \A g \in Client : Inside(g) => mu = g
  /\ \/ pendingEvents = <<>>
     \/ /\ pendingEvents = <<transitions>> /\ transitions > 0
        /\ mu \in Client /\ Inside(mu) /\ Top(mu).pc = "unlock"
        /\ origin[transitions] = mu

\* Only the innermost operation is not inside a callback, and a callback has an
\* event to observe.
Nested ==
  \A g \in Client : \A k \in DOMAIN stack[g] :
    /\ k < Len(stack[g]) => stack[g][k].pc = "callback"
    /\ stack[g][k].pc = "callback" => stack[g][k].events # <<>>

Locking == Types /\ Section /\ Nested

-----------------------------------------------------------------------------
(* Stacks *)

\* What Append and Front do to a sequence.
LEMMA AppendOps ==
  ASSUME NEW F, NEW s \in Seq(F), NEW f \in F
  PROVE  /\ Len(s) \in Nat /\ DOMAIN s = 1..Len(s)
         /\ Append(s, f) \in Seq(F) /\ Len(Append(s, f)) = Len(s) + 1
         /\ DOMAIN Append(s, f) = 1..(Len(s) + 1)
         /\ Append(s, f)[Len(s) + 1] = f
         /\ \A k \in 1..Len(s) : Append(s, f)[k] = s[k]
         /\ Append(s, f) # <<>> /\ Last(Append(s, f)) = f
BY DEF Last

\* What Front, Last and their places are.
LEMMA FrontOps ==
  ASSUME NEW F, NEW s \in Seq(F), s # <<>>
  PROVE  /\ Len(s) \in Nat \ {0} /\ DOMAIN s = 1..Len(s)
         /\ Front(s) \in Seq(F) /\ Len(Front(s)) = Len(s) - 1
         /\ \A k \in 1..(Len(s) - 1) : Front(s)[k] = s[k]
         /\ Last(s) \in F /\ Last(s) = s[Len(s)]
<1>1. Len(s) \in Nat \ {0} /\ DOMAIN s = 1..Len(s) /\ \A k \in 1..Len(s) : s[k] \in F
  OBVIOUS
<1> DEFINE n == Len(s) - 1
<1>2. n \in Nat /\ 1 \in Int /\ n \in Int /\ \A i \in 1..n : s[i] \in F
  BY <1>1
<1>3. Front(s) = SubSeq(s, 1, n)
  BY DEF Front
<1> HIDE DEF n
<1>4. /\ SubSeq(s, 1, n) \in Seq(F)
      /\ Len(SubSeq(s, 1, n)) = IF 1 <= n THEN n - 1 + 1 ELSE 0
      /\ \A i \in 1..(n - 1 + 1) : SubSeq(s, 1, n)[i] = s[1 + i - 1]
  BY <1>2, SubSeqProperties, SMTT(30)
<1>5. /\ Front(s) \in Seq(F) /\ Len(Front(s)) = n
      /\ \A k \in 1..n : Front(s)[k] = s[k]
  <2>1. n - 1 + 1 = n /\ \A i \in 1..n : 1 + i - 1 = i
    BY <1>2
  <2>2. QED
    BY <1>2, <1>3, <1>4, <2>1
<1>6. QED
  BY <1>1, <1>5 DEF Last, n

\* Replace changes the innermost operation of one goroutine and nothing else.
LEMMA Replaced ==
  ASSUME stack \in [Client -> Seq(Frame)], NEW g \in Client, NEW frame \in Frame,
         stack[g] # <<>>, Replace(g, frame)
  PROVE  /\ stack' \in [Client -> Seq(Frame)]
         /\ Len(stack[g]) \in Nat \ {0} /\ Len(stack'[g]) = Len(stack[g])
         /\ DOMAIN stack[g] = 1..Len(stack[g]) /\ DOMAIN stack'[g] = DOMAIN stack[g]
         /\ stack'[g][Len(stack[g])] = frame
         /\ \A k \in 1..(Len(stack[g]) - 1) : stack'[g][k] = stack[g][k]
         /\ stack'[g] # <<>> /\ Last(stack'[g]) = frame
         /\ \A h \in Client : h # g => stack'[h] = stack[h]
<1> DEFINE s == stack[g]  t == Append(Front(s), frame)
<1>1. s \in Seq(Frame) /\ s # <<>>
  OBVIOUS
<1>2. stack' = [stack EXCEPT ![g] = t]
  BY DEF Replace
<1> HIDE DEF s
<1>3. /\ Len(s) \in Nat \ {0} /\ DOMAIN s = 1..Len(s)
      /\ Front(s) \in Seq(Frame) /\ Len(Front(s)) = Len(s) - 1
      /\ \A k \in 1..(Len(s) - 1) : Front(s)[k] = s[k]
  BY <1>1, FrontOps
<1>4. /\ t \in Seq(Frame) /\ Len(t) = Len(s) /\ t[Len(s)] = frame
      /\ \A k \in 1..(Len(s) - 1) : t[k] = Front(s)[k]
      /\ t # <<>> /\ Last(t) = frame /\ DOMAIN t = 1..Len(s)
  <2> DEFINE r == Front(s)
  <2>1. r \in Seq(Frame) /\ t = Append(r, frame)
    BY <1>3
  <2>2. Len(r) + 1 = Len(s) /\ 1..Len(r) = 1..(Len(s) - 1)
    BY <1>3
  <2> HIDE DEF r, t
  <2>3. /\ t \in Seq(Frame) /\ Len(t) = Len(r) + 1 /\ t[Len(r) + 1] = frame
        /\ \A k \in 1..Len(r) : t[k] = r[k]
        /\ t # <<>> /\ Last(t) = frame /\ DOMAIN t = 1..(Len(r) + 1)
    BY <2>1, AppendOps
  <2>4. QED
    BY <2>2, <2>3 DEF r
<1> HIDE DEF t
<1>5. stack'[g] = t /\ stack' \in [Client -> Seq(Frame)]
  BY <1>2, <1>4
<1>6. QED
  BY <1>2, <1>3, <1>4, <1>5 DEF s

\* An operation begins on top of the stack, or leaves it.
LEMMA Pushed ==
  ASSUME stack \in [Client -> Seq(Frame)], NEW g \in Client, NEW frame \in Frame,
         stack' = [stack EXCEPT ![g] = Append(@, frame)]
  PROVE  /\ stack' \in [Client -> Seq(Frame)]
         /\ Len(stack[g]) \in Nat /\ Len(stack'[g]) = Len(stack[g]) + 1
         /\ DOMAIN stack[g] = 1..Len(stack[g]) /\ DOMAIN stack'[g] = 1..(Len(stack[g]) + 1)
         /\ stack'[g][Len(stack[g]) + 1] = frame
         /\ \A k \in 1..Len(stack[g]) : stack'[g][k] = stack[g][k]
         /\ stack'[g] # <<>> /\ Last(stack'[g]) = frame
         /\ \A h \in Client : h # g => stack'[h] = stack[h]
<1> DEFINE s == stack[g]  t == Append(s, frame)
<1>1. s \in Seq(Frame) /\ stack' = [stack EXCEPT ![g] = t]
  OBVIOUS
<1> HIDE DEF s
<1>2. /\ Len(s) \in Nat /\ DOMAIN s = 1..Len(s)
      /\ t \in Seq(Frame) /\ Len(t) = Len(s) + 1 /\ t[Len(s) + 1] = frame
      /\ \A k \in 1..Len(s) : t[k] = s[k]
      /\ t # <<>> /\ Last(t) = frame /\ DOMAIN t = 1..(Len(s) + 1)
  BY <1>1, AppendOps
<1> HIDE DEF t
<1>3. stack'[g] = t /\ stack' \in [Client -> Seq(Frame)]
  BY <1>1, <1>2 DEF s
<1>4. QED
  BY <1>1, <1>2, <1>3 DEF s

\* A goroutine returns to the frame below.
LEMMA Popped ==
  ASSUME stack \in [Client -> Seq(Frame)], NEW g \in Client, stack[g] # <<>>,
         stack' = [stack EXCEPT ![g] = Front(@)]
  PROVE  /\ stack' \in [Client -> Seq(Frame)]
         /\ Len(stack[g]) \in Nat \ {0} /\ Len(stack'[g]) = Len(stack[g]) - 1
         /\ DOMAIN stack[g] = 1..Len(stack[g]) /\ DOMAIN stack'[g] = 1..(Len(stack[g]) - 1)
         /\ \A k \in 1..(Len(stack[g]) - 1) : stack'[g][k] = stack[g][k]
         /\ stack'[g] # <<>> => /\ Len(stack[g]) - 1 \in 1..(Len(stack[g]) - 1)
                                /\ Last(stack'[g]) = stack[g][Len(stack[g]) - 1]
         /\ \A h \in Client : h # g => stack'[h] = stack[h]
<1> DEFINE s == stack[g]  t == Front(s)
<1>1. s \in Seq(Frame) /\ s # <<>> /\ stack' = [stack EXCEPT ![g] = t]
  OBVIOUS
<1> HIDE DEF s
<1>2. /\ Len(s) \in Nat \ {0} /\ DOMAIN s = 1..Len(s)
      /\ t \in Seq(Frame) /\ Len(t) = Len(s) - 1
      /\ \A k \in 1..(Len(s) - 1) : t[k] = s[k]
  BY <1>1, FrontOps
<1> HIDE DEF t
<1>3. DOMAIN t = 1..(Len(s) - 1) /\ (t # <<>> => Len(t) # 0)
  BY <1>2
<1>4. t # <<>> => Len(s) - 1 \in 1..(Len(s) - 1) /\ Last(t) = s[Len(s) - 1]
  BY <1>2, <1>3 DEF Last
<1>5. stack'[g] = t /\ stack' \in [Client -> Seq(Frame)]
  BY <1>1, <1>2 DEF s
<1>6. QED
  BY <1>1, <1>2, <1>3, <1>4, <1>5 DEF s

-----------------------------------------------------------------------------
(* Locking *)

\* The innermost operation is a frame, at the end of the stack.
LEMMA TopOps ==
  ASSUME stack \in [Client -> Seq(Frame)], NEW g \in Client, stack[g] # <<>>
  PROVE  /\ Len(stack[g]) \in Nat \ {0} /\ DOMAIN stack[g] = 1..Len(stack[g])
         /\ Len(stack[g]) \in DOMAIN stack[g]
         /\ Top(g) = stack[g][Len(stack[g])] /\ Top(g) \in Frame
         /\ Top(g).events \in Seq(Nat)
<1>1. stack[g] \in Seq(Frame)
  OBVIOUS
<1>2. /\ Len(stack[g]) \in Nat \ {0} /\ DOMAIN stack[g] = 1..Len(stack[g])
      /\ Last(stack[g]) \in Frame /\ Last(stack[g]) = stack[g][Len(stack[g])]
  BY <1>1, FrontOps
<1>3. QED
  BY <1>2 DEF Top, Frame

\* Who is inside the critical section after Replace.
LEMMA ReplacedInside ==
  ASSUME stack \in [Client -> Seq(Frame)], NEW g \in Client, NEW frame \in Frame,
         stack[g] # <<>>, Replace(g, frame)
  PROVE  /\ Top(g)' = frame /\ Inside(g)' = (frame.pc \in {"locked", "unlock"})
         /\ \A h \in Client : h # g => Top(h)' = Top(h) /\ Inside(h)' = Inside(h)
<1>1. /\ stack'[g] # <<>> /\ Last(stack'[g]) = frame
      /\ \A h \in Client : h # g => stack'[h] = stack[h]
  BY Replaced
<1>2. QED
  BY <1>1 DEF Inside, Top

\* Replacing the innermost operation keeps the stacks nested.
LEMMA ReplacedNested ==
  ASSUME stack \in [Client -> Seq(Frame)], Nested, NEW g \in Client, NEW frame \in Frame,
         stack[g] # <<>>, Replace(g, frame), frame.pc = "callback" => frame.events # <<>>
  PROVE  Nested'
<1>1. /\ Len(stack[g]) \in Nat \ {0} /\ Len(stack'[g]) = Len(stack[g])
      /\ DOMAIN stack[g] = 1..Len(stack[g]) /\ DOMAIN stack'[g] = DOMAIN stack[g]
      /\ stack'[g][Len(stack[g])] = frame
      /\ \A k \in 1..(Len(stack[g]) - 1) : stack'[g][k] = stack[g][k]
      /\ \A h \in Client : h # g => stack'[h] = stack[h]
  BY Replaced
<1> SUFFICES ASSUME NEW h \in Client, NEW k \in DOMAIN stack'[h]
             PROVE  /\ k < Len(stack'[h]) => stack'[h][k].pc = "callback"
                    /\ stack'[h][k].pc = "callback" => stack'[h][k].events # <<>>
  BY DEF Nested
<1>2. CASE h # g
  BY <1>1, <1>2 DEF Nested
<1>3. CASE h = g /\ k = Len(stack[g])
  BY <1>1, <1>3
<1>4. CASE h = g /\ k # Len(stack[g])
  <2>1. k \in 1..(Len(stack[g]) - 1) /\ k \in DOMAIN stack[g] /\ k < Len(stack[g])
    BY <1>1, <1>4
  <2>2. stack'[g][k] = stack[g][k]
    BY <1>1, <2>1
  <2>3. QED
    BY <1>4, <2>1, <2>2 DEF Nested
<1>5. QED
  BY <1>2, <1>3, <1>4

\* An operation that does not hold mu goes on outside the critical section.
LEMMA OutsideKeepsSection ==
  ASSUME Section, UNCHANGED <<mu, pendingEvents, transitions, origin>>,
         NEW g \in Client, ~Inside(g), ~Inside(g)',
         \A h \in Client : h # g => Top(h)' = Top(h) /\ Inside(h)' = Inside(h)
  PROVE  Section'
BY DEF Section

\* It holds at first.
LEMMA InitLocking == SyncInit => Locking
<1> SUFFICES ASSUME SyncInit PROVE Locking
  OBVIOUS
<1>1. \A g \in Client : stack[g] = <<>>
  BY DEF SyncInit
<1>2. Types
  BY DEF SyncInit, Types
<1>3. Section
  BY <1>1 DEF SyncInit, Section, Inside
<1>4. Nested
  BY <1>1 DEF Nested
<1>5. QED
  BY <1>2, <1>3, <1>4 DEF Locking

\* The critical section: LockMu, a transition or none, and the release of mu.
LEMMA InsideKeepsLocking ==
  ASSUME Locking, NEW g \in Client,
         LockMu(g) \/ Transition(g) \/ NoTransition(g) \/ UnlockAndDispatch(g)
  PROVE  Locking'
<1> USE SyncObserverAssumption
<1>t. Types /\ stack \in [Client -> Seq(Frame)] /\ stack[g] # <<>>
  BY DEF Locking, Types, LockMu, Transition, NoTransition, UnlockAndDispatch
<1>o. /\ Top(g) \in Frame /\ g # Free /\ Top(g).events \in Seq(Nat)
  BY <1>t, TopOps
<1>f. \A label \in Label : [Top(g) EXCEPT !.pc = label] \in Frame
                           /\ [Top(g) EXCEPT !.pc = label].pc = label
  BY <1>o DEF Frame
<1>1. CASE LockMu(g)
  <2> DEFINE frame == [Top(g) EXCEPT !.pc = "locked"]
  <2>1. frame \in Frame /\ frame.pc = "locked" /\ Replace(g, frame)
    BY <1>1, <1>f DEF LockMu, Label
  <2> HIDE DEF frame
  <2>2. Types'
    BY <1>1, <1>t, <2>1, Replaced DEF Types, LockMu
  <2>3. Nested'
    BY <1>t, <2>1, ReplacedNested DEF Locking
  <2>4. Section'
    <3>1. pendingEvents = <<>> /\ \A h \in Client : ~Inside(h)
      BY <1>1 DEF LockMu, Locking, Section
    <3>2. \A h \in Client : h # g => ~Inside(h)'
      BY <3>1, <1>t, <2>1, ReplacedInside
    <3>3. QED
      BY <1>1, <3>1, <3>2 DEF LockMu, Section
  <2>5. QED
    BY <2>2, <2>3, <2>4 DEF Locking
<1>2. CASE Transition(g)
  <2> DEFINE frame == [Top(g) EXCEPT !.pc = "unlock"]
  <2>1. frame \in Frame /\ frame.pc = "unlock" /\ Replace(g, frame)
    BY <1>2, <1>f DEF Transition, Label
  <2> HIDE DEF frame
  <2>2. mu = g /\ pendingEvents = <<>> /\ \A h \in Client : h # g => ~Inside(h)
    BY <1>2, <1>t DEF Transition, Locking, Section, Inside
  <2>3. /\ pendingEvents' = <<transitions + 1>> /\ transitions' = transitions + 1 /\ mu' = mu
        /\ transitions' > 0 /\ transitions' \in Nat
        /\ origin' \in Seq(Client) /\ Len(origin') = transitions' /\ origin'[transitions'] = g
    <3>1. origin \in Seq(Client) /\ Len(origin) = transitions /\ transitions \in Nat
      BY <1>t DEF Types
    <3>2. Append(<<>>, transitions + 1) = <<transitions + 1>>
      OBVIOUS
    <3>3. QED
      BY <1>2, <2>2, <3>1, <3>2, AppendOps DEF Transition
  <2>4. Types'
    BY <1>2, <1>t, <2>1, <2>3, Replaced DEF Types, Transition
  <2>5. Nested'
    BY <1>t, <2>1, ReplacedNested DEF Locking
  <2>6. Section'
    <3>1. /\ Inside(g)' /\ Top(g)'.pc = "unlock"
          /\ \A h \in Client : h # g => ~Inside(h)'
      BY <1>t, <2>1, <2>2, ReplacedInside
    <3>2. QED
      BY <2>2, <2>3, <3>1 DEF Section
  <2>7. QED
    BY <2>4, <2>5, <2>6 DEF Locking
<1>3. CASE NoTransition(g)
  <2> DEFINE frame == [Top(g) EXCEPT !.pc = "unlock"]
  <2>1. frame \in Frame /\ frame.pc = "unlock" /\ Replace(g, frame)
    BY <1>3, <1>f DEF NoTransition, Label
  <2> HIDE DEF frame
  <2>2. mu = g /\ pendingEvents = <<>> /\ \A h \in Client : h # g => ~Inside(h)
    BY <1>3, <1>t DEF NoTransition, Locking, Section, Inside
  <2>3. Types'
    BY <1>3, <1>t, <2>1, Replaced DEF Types, NoTransition
  <2>4. Nested'
    BY <1>t, <2>1, ReplacedNested DEF Locking
  <2>5. Section'
    <3>1. \A h \in Client : h # g => ~Inside(h)'
      BY <1>t, <2>1, <2>2, ReplacedInside
    <3>2. QED
      BY <1>3, <2>2, <3>1 DEF Section, NoTransition
  <2>6. QED
    BY <2>3, <2>4, <2>5 DEF Locking
<1>4. CASE UnlockAndDispatch(g)
  <2> DEFINE frame == [pc |-> "dispatch", events |-> pendingEvents]
  <2>1. frame \in Frame /\ frame.pc = "dispatch" /\ Replace(g, frame)
    BY <1>4, <1>t DEF UnlockAndDispatch, Types, Frame, Label
  <2> HIDE DEF frame
  <2>2. mu = g /\ \A h \in Client : h # g => ~Inside(h)
    BY <1>4, <1>t DEF UnlockAndDispatch, Locking, Section, Inside
  <2>3. Types'
    BY <1>4, <1>t, <2>1, Replaced DEF Types, UnlockAndDispatch
  <2>4. Nested'
    BY <1>t, <2>1, ReplacedNested DEF Locking
  <2>5. Section'
    <3>1. \A h \in Client : ~Inside(h)'
      BY <1>t, <2>1, <2>2, ReplacedInside
    <3>2. QED
      BY <1>4, <3>1 DEF Section, UnlockAndDispatch
  <2>6. QED
    BY <2>3, <2>4, <2>5 DEF Locking
<1>5. QED
  BY <1>1, <1>2, <1>3, <1>4

\* Delivery: the callbacks, with mu released.
LEMMA CallbackKeepsLocking ==
  ASSUME Locking, NEW g \in Client, NEW fails, Observe(g) \/ CallbackEnds(g, fails)
  PROVE  Locking'
<1>t. Types /\ stack \in [Client -> Seq(Frame)] /\ stack[g] # <<>>
  BY DEF Locking, Types, Observe, CallbackEnds
<1>o. /\ Top(g) \in Frame /\ Top(g).events \in Seq(Nat)
      /\ Top(g) = stack[g][Len(stack[g])] /\ Len(stack[g]) \in DOMAIN stack[g]
  BY <1>t, TopOps
<1>1. CASE Observe(g)
  <2> DEFINE frame == [Top(g) EXCEPT !.pc = "callback"]
  <2>1. /\ frame \in Frame /\ frame.pc = "callback" /\ frame.events # <<>> /\ Replace(g, frame)
        /\ ~Inside(g)
    BY <1>1, <1>o DEF Observe, Label, Frame, Inside
  <2> HIDE DEF frame
  <2>2. Types'
    BY <1>1, <1>t, <2>1, Replaced DEF Types, Observe
  <2>3. Nested'
    BY <1>t, <2>1, ReplacedNested DEF Locking
  <2>4. Section'
    BY <1>1, <1>t, <2>1, ReplacedInside, OutsideKeepsSection DEF Locking, Observe
  <2>5. QED
    BY <2>2, <2>3, <2>4 DEF Locking
<1>2. CASE CallbackEnds(g, fails)
  <2> DEFINE frame == [pc |-> "dispatch", events |-> Tail(Top(g).events)]
  <2>1. Top(g).events # <<>>
    BY <1>2, <1>o DEF CallbackEnds, Locking, Nested
  <2>2. Tail(Top(g).events) \in Seq(Nat) /\ Head(Top(g).events) \in Nat
    BY <2>1, <1>o
  <2>3. frame \in Frame /\ frame.pc = "dispatch" /\ Replace(g, frame) /\ ~Inside(g)
    BY <1>2, <2>2 DEF CallbackEnds, Label, Frame, Inside
  <2> HIDE DEF frame
  <2>4. Types'
    <3>1. observed' \in Seq(Client \X Nat)
      BY <1>2, <1>t, <2>2 DEF Types, CallbackEnds
    <3>2. QED
      BY <1>2, <1>t, <2>3, <3>1, Replaced DEF Types, CallbackEnds
  <2>5. Nested'
    BY <1>t, <2>3, ReplacedNested DEF Locking
  <2>6. Section'
    BY <1>2, <1>t, <2>3, ReplacedInside, OutsideKeepsSection DEF Locking, CallbackEnds
  <2>7. QED
    BY <2>4, <2>5, <2>6 DEF Locking
<1>3. QED
  BY <1>1, <1>2

\* Operations begin and return; an operation that recorded nothing may return
\* from inside the critical section, and leaves nothing behind.
LEMMA OperationKeepsLocking ==
  ASSUME Locking, NEW g \in Client, Call(g) \/ Return(g) \/ UnlockPlainly(g)
  PROVE  Locking'
<1>t. Types /\ stack \in [Client -> Seq(Frame)]
  BY DEF Locking, Types
<1>1. CASE Call(g)
  <2> DEFINE frame == [pc |-> "lock", events |-> <<>>]
  <2>1. /\ frame \in Frame /\ frame.pc = "lock" /\ stack' = [stack EXCEPT ![g] = Append(@, frame)]
        /\ ~Inside(g)
    BY <1>1 DEF Call, Label, Frame, Inside
  <2> HIDE DEF frame
  <2>2. /\ stack' \in [Client -> Seq(Frame)]
        /\ Len(stack[g]) \in Nat /\ Len(stack'[g]) = Len(stack[g]) + 1
        /\ DOMAIN stack[g] = 1..Len(stack[g]) /\ DOMAIN stack'[g] = 1..(Len(stack[g]) + 1)
        /\ stack'[g][Len(stack[g]) + 1] = frame
        /\ \A k \in 1..Len(stack[g]) : stack'[g][k] = stack[g][k]
        /\ stack'[g] # <<>> /\ Last(stack'[g]) = frame
        /\ \A h \in Client : h # g => stack'[h] = stack[h]
    BY <1>t, <2>1, Pushed
  <2>3. Types'
    BY <1>1, <1>t, <2>2 DEF Types, Call
  <2>4. Nested'
    <3> SUFFICES ASSUME NEW h \in Client, NEW k \in DOMAIN stack'[h]
                 PROVE  /\ k < Len(stack'[h]) => stack'[h][k].pc = "callback"
                        /\ stack'[h][k].pc = "callback" => stack'[h][k].events # <<>>
      BY DEF Nested
    <3>1. CASE h # g
      BY <2>2, <3>1 DEF Locking, Nested
    <3>2. CASE h = g /\ k = Len(stack[g]) + 1
      BY <2>1, <2>2, <3>2
    <3>3. CASE h = g /\ k # Len(stack[g]) + 1
      <4>1. k \in 1..Len(stack[g]) /\ k \in DOMAIN stack[g]
        BY <2>2, <3>3
      <4>2. stack'[g][k] = stack[g][k]
        BY <2>2, <4>1
      <4>3. stack[g][k].pc = "callback"
        <5>1. CASE k < Len(stack[g])
          BY <4>1, <5>1 DEF Locking, Nested
        <5>2. CASE ~(k < Len(stack[g]))
          <6>1. k = Len(stack[g]) /\ stack[g] # <<>>
            BY <4>1, <5>2, <2>2
          <6>2. QED
            BY <1>1, <1>t, <6>1, TopOps DEF Call
        <5>3. QED
          BY <5>1, <5>2
      <4>4. QED
        BY <3>3, <4>1, <4>2, <4>3 DEF Locking, Nested
    <3>4. QED
      BY <3>1, <3>2, <3>3
  <2>5. Section'
    <3>1. ~Inside(g)' /\ \A h \in Client : h # g => Top(h)' = Top(h) /\ Inside(h)' = Inside(h)
      BY <2>1, <2>2 DEF Inside, Top
    <3>2. QED
      BY <1>1, <2>1, <3>1, OutsideKeepsSection DEF Locking, Call
  <2>6. QED
    BY <2>3, <2>4, <2>5 DEF Locking
<1>2. CASE Return(g) \/ UnlockPlainly(g)
  <2>1. /\ stack' \in [Client -> Seq(Frame)]
        /\ Len(stack[g]) \in Nat \ {0} /\ Len(stack'[g]) = Len(stack[g]) - 1
        /\ DOMAIN stack[g] = 1..Len(stack[g]) /\ DOMAIN stack'[g] = 1..(Len(stack[g]) - 1)
        /\ \A k \in 1..(Len(stack[g]) - 1) : stack'[g][k] = stack[g][k]
        /\ stack'[g] # <<>> => /\ Len(stack[g]) - 1 \in 1..(Len(stack[g]) - 1)
                               /\ Last(stack'[g]) = stack[g][Len(stack[g]) - 1]
        /\ \A h \in Client : h # g => stack'[h] = stack[h]
    BY <1>2, <1>t, Popped DEF Return, UnlockPlainly
  <2>2. Types'
    BY <1>2, <1>t, <2>1 DEF Types, Return, UnlockPlainly
  <2>3. \A k \in 1..(Len(stack[g]) - 1) : k \in DOMAIN stack[g] /\ k < Len(stack[g])
    BY <2>1
  <2>4. Nested'
    <3> SUFFICES ASSUME NEW h \in Client, NEW k \in DOMAIN stack'[h]
                 PROVE  /\ k < Len(stack'[h]) => stack'[h][k].pc = "callback"
                        /\ stack'[h][k].pc = "callback" => stack'[h][k].events # <<>>
      BY DEF Nested
    <3>1. CASE h # g
      BY <2>1, <3>1 DEF Locking, Nested
    <3>2. CASE h = g
      <4>1. k \in 1..(Len(stack[g]) - 1) /\ k \in DOMAIN stack[g] /\ k < Len(stack[g])
        BY <2>1, <2>3, <3>2
      <4>2. stack'[h][k] = stack[g][k]
        BY <2>1, <3>2, <4>1
      <4>3. QED
        BY <4>1, <4>2 DEF Locking, Nested
    <3>3. QED
      BY <3>1, <3>2
  <2>5. Section'
    <3>1. stack'[g] # <<>> => Last(stack'[g]).pc = "callback"
      BY <2>1, <2>3 DEF Locking, Nested
    <3>2. /\ ~Inside(g)'
          /\ \A h \in Client : h # g => Top(h)' = Top(h) /\ Inside(h)' = Inside(h)
      BY <2>1, <3>1 DEF Inside, Top
    <3>3. CASE Return(g)
      <4>1. ~Inside(g)
        BY <3>3 DEF Inside, Return
      <4>2. QED
        BY <3>2, <3>3, <4>1, OutsideKeepsSection DEF Locking, Return
    <3>4. CASE UnlockPlainly(g)
      <4>1. mu = g /\ pendingEvents = <<>> /\ \A h \in Client : h # g => ~Inside(h)
        BY <3>4 DEF UnlockPlainly, Locking, Section, Inside
      <4>2. \A h \in Client : ~Inside(h)'
        BY <3>2, <4>1
      <4>3. QED
        BY <3>4, <4>1, <4>2 DEF Section, UnlockPlainly
    <3>5. QED
      BY <1>2, <3>3, <3>4
  <2>6. QED
    BY <2>2, <2>4, <2>5 DEF Locking
<1>3. QED
  BY <1>1, <1>2

\* Every step keeps it.
LEMMA LockingStep == Locking /\ [SyncNext]_syncVars => Locking'
<1> SUFFICES ASSUME Locking, [SyncNext]_syncVars PROVE Locking'
  OBVIOUS
<1>1. CASE UNCHANGED syncVars
  BY <1>1 DEF Locking, Types, Section, Nested, Inside, Top, syncVars
<1>2. CASE SyncNext
  BY <1>2, InsideKeepsLocking, CallbackKeepsLocking, OperationKeepsLocking DEF SyncNext, Proceed
<1>3. QED
  BY <1>1, <1>2

\* It holds at every instant.
LEMMA LockingAlways == SyncSpec => []Locking
BY InitLocking, LockingStep, PTL DEF SyncSpec

(***************************************************************************)
(* Whatever is pending was committed by the goroutine that holds mu.  A    *)
(* goroutine that has just locked finds nothing, since whoever held mu     *)
(* before took its events or had none; so Snapshot and a cancelled Acquire *)
(* may unlock without looking at pendingEvents.                            *)
(***************************************************************************)
THEOREM PendingTaken == SyncSpec => []PendingIsTheHolders
<1>1. Locking => PendingIsTheHolders
  <2> SUFFICES ASSUME Locking, NEW i \in DOMAIN pendingEvents
               PROVE  origin[pendingEvents[i]] = mu
    BY DEF PendingIsTheHolders
  <2>1. pendingEvents = <<transitions>> /\ origin[transitions] = mu
    <3>1. DOMAIN <<>> = {}
      OBVIOUS
    <3>2. QED
      BY <3>1 DEF Locking, Section
  <2>2. i = 1 /\ pendingEvents[1] = transitions
    BY <2>1
  <2>3. QED
    BY <2>1, <2>2
<1>2. QED
  BY <1>1, LockingAlways, PTL

-----------------------------------------------------------------------------
(* Delivery *)

\* With the stacks st, the operation at depth k of g still has to observe event e.
Has(st, g, k, e) == k \in DOMAIN st[g] /\ st[g][k].events = <<e>>

\* An operation has no events before it releases mu, and one event at most after:
\* one of its own goroutine, that nobody else has.
Taken ==
  /\ \A g \in Client : \A k \in DOMAIN stack[g] :
       /\ stack[g][k].pc \in {"lock", "locked", "unlock"} => stack[g][k].events = <<>>
       /\ stack[g][k].events # <<>> => \E e \in 1..transitions : stack[g][k].events = <<e>>
  /\ \A g \in Client : \A k, e \in Nat :
       Has(stack, g, k, e) => /\ e \in 1..transitions /\ origin[e] = g /\ pendingEvents # <<e>>
                              /\ \A l \in Nat : Has(stack, g, l, e) => l = k

\* An observed event is its observer's own, and nobody has it any more.
Observed ==
  \A i \in DOMAIN observed :
    /\ observed[i][2] \in 1..transitions /\ observed[i][1] = origin[observed[i][2]]
    /\ pendingEvents # <<observed[i][2]>>
    /\ \A g \in Client, k \in Nat : ~Has(stack, g, k, observed[i][2])
    /\ \A j \in DOMAIN observed : observed[i][2] = observed[j][2] => i = j

\* No event is lost on the way.
Covered ==
  \A e \in 1..transitions :
    \/ pendingEvents = <<e>>
    \/ \E k \in Nat : Has(stack, origin[e], k, e)
    \/ \E i \in DOMAIN observed : observed[i][2] = e

Delivery == Taken /\ Observed /\ Covered

\* A step that gives no operation an event and takes none from it.
LEMMA SameEvents ==
  ASSUME Locking, Delivery, UNCHANGED <<pendingEvents, transitions, origin, observed>>,
         \A g \in Client : \A k \in DOMAIN stack'[g] :
           /\ stack'[g][k].pc \in {"lock", "locked", "unlock"} => stack'[g][k].events = <<>>
           /\ stack'[g][k].events # <<>>
                => k \in DOMAIN stack[g] /\ stack[g][k].events = stack'[g][k].events,
         \A g \in Client : \A k \in DOMAIN stack[g] :
           stack[g][k].events # <<>>
             => k \in DOMAIN stack'[g] /\ stack'[g][k].events = stack[g][k].events
  PROVE  Delivery'
<1>1. \A g \in Client : \A k, e \in Nat : Has(stack', g, k, e) <=> Has(stack, g, k, e)
  <2> SUFFICES ASSUME NEW g \in Client, NEW k \in Nat, NEW e \in Nat
               PROVE  Has(stack', g, k, e) <=> Has(stack, g, k, e)
    OBVIOUS
  <2>1. <<e>> # <<>>
    OBVIOUS
  <2>2. ASSUME k \in DOMAIN stack'[g], stack'[g][k].events = <<e>>
        PROVE  k \in DOMAIN stack[g] /\ stack[g][k].events = <<e>>
    BY <2>1, <2>2, Zenon
  <2>3. ASSUME k \in DOMAIN stack[g], stack[g][k].events = <<e>>
        PROVE  k \in DOMAIN stack'[g] /\ stack'[g][k].events = <<e>>
    BY <2>1, <2>3, Zenon
  <2>4. QED
    BY <2>2, <2>3, Zenon DEF Has
<1>2. Taken'
  <2>1. \A g \in Client : \A k \in DOMAIN stack'[g] :
          stack'[g][k].events # <<>> => \E e \in 1..transitions : stack'[g][k].events = <<e>>
    BY DEF Delivery, Taken
  <2>2. \A g \in Client : \A k, e \in Nat :
          Has(stack', g, k, e) => /\ e \in 1..transitions /\ origin[e] = g /\ pendingEvents # <<e>>
                                  /\ \A l \in Nat : Has(stack', g, l, e) => l = k
    BY <1>1 DEF Delivery, Taken
  <2>3. QED
    BY <2>1, <2>2 DEF Taken
<1>3. Observed'
  BY <1>1 DEF Delivery, Observed
<1>4. Covered'
  <2>1. \A e \in 1..transitions : origin[e] \in Client /\ e \in Nat
    BY DEF Locking, Types
  <2>2. QED
    BY <1>1, <2>1 DEF Delivery, Covered
<1>5. QED
  BY <1>2, <1>3, <1>4 DEF Delivery

\* Operations begin, lock, decide not to transition, enter a callback and return,
\* from the critical section too, with the events they have.
LEMMA QuietKeepsDelivery ==
  ASSUME Locking, Delivery, NEW g \in Client,
         \/ Call(g) \/ LockMu(g) \/ NoTransition(g) \/ Observe(g) \/ Return(g)
         \/ UnlockPlainly(g)
  PROVE  Delivery'
<1>t. stack \in [Client -> Seq(Frame)]
  BY DEF Locking, Types
<1>d. \A h \in Client : \A k \in DOMAIN stack[h] :
        stack[h][k].pc \in {"lock", "locked", "unlock"} => stack[h][k].events = <<>>
  BY DEF Delivery, Taken
<1>u. UNCHANGED <<pendingEvents, transitions, origin, observed>>
  BY DEF Call, LockMu, NoTransition, Observe, Return, UnlockPlainly
<1>1. CASE LockMu(g) \/ NoTransition(g) \/ Observe(g)
  <2>1. PICK label \in {"locked", "unlock", "callback"} :
          /\ Replace(g, [Top(g) EXCEPT !.pc = label]) /\ stack[g] # <<>>
          /\ label # "callback" => Top(g).pc \in {"lock", "locked"}
    BY <1>1 DEF LockMu, NoTransition, Observe
  <2> DEFINE frame == [Top(g) EXCEPT !.pc = label]
  <2>2. /\ Top(g) = stack[g][Len(stack[g])] /\ Top(g) \in Frame
        /\ Len(stack[g]) \in DOMAIN stack[g]
    BY <1>t, <2>1, TopOps
  <2>3. frame \in Frame /\ frame.pc = label /\ frame.events = Top(g).events /\ Replace(g, frame)
    BY <2>1, <2>2 DEF Frame, Label
  <2> HIDE DEF frame
  <2>4. /\ Len(stack[g]) \in Nat \ {0}
        /\ DOMAIN stack[g] = 1..Len(stack[g]) /\ DOMAIN stack'[g] = DOMAIN stack[g]
        /\ stack'[g][Len(stack[g])] = frame
        /\ \A k \in 1..(Len(stack[g]) - 1) : stack'[g][k] = stack[g][k]
        /\ \A h \in Client : h # g => stack'[h] = stack[h]
    BY <1>t, <2>1, <2>3, Replaced
  <2>5. \A k \in DOMAIN stack[g] : k = Len(stack[g]) \/ k \in 1..(Len(stack[g]) - 1)
    BY <2>4
  <2>6. frame.pc \in {"lock", "locked", "unlock"} => frame.events = <<>>
    BY <1>d, <2>1, <2>2, <2>3
  <2>7. \A h \in Client : \A k \in DOMAIN stack'[h] :
          /\ k \in DOMAIN stack[h] /\ stack'[h][k].events = stack[h][k].events
          /\ stack'[h][k].pc \in {"lock", "locked", "unlock"} => stack'[h][k].events = <<>>
    BY <1>d, <2>2, <2>3, <2>4, <2>5, <2>6
  <2>8. \A h \in Client : DOMAIN stack'[h] = DOMAIN stack[h]
    BY <2>4
  <2>9. QED
    BY <1>u, <2>7, <2>8, SameEvents
<1>2. CASE Call(g)
  <2> DEFINE frame == [pc |-> "lock", events |-> <<>>]
  <2>1. frame \in Frame /\ frame.events = <<>> /\ stack' = [stack EXCEPT ![g] = Append(@, frame)]
    BY <1>2 DEF Call, Label, Frame
  <2> HIDE DEF frame
  <2>2. /\ Len(stack[g]) \in Nat
        /\ DOMAIN stack[g] = 1..Len(stack[g]) /\ DOMAIN stack'[g] = 1..(Len(stack[g]) + 1)
        /\ stack'[g][Len(stack[g]) + 1] = frame
        /\ \A k \in 1..Len(stack[g]) : stack'[g][k] = stack[g][k]
        /\ \A h \in Client : h # g => stack'[h] = stack[h]
    BY <1>t, <2>1, Pushed
  <2>3. /\ \A k \in DOMAIN stack'[g] : k = Len(stack[g]) + 1 \/ k \in DOMAIN stack[g]
        /\ DOMAIN stack[g] \subseteq DOMAIN stack'[g]
    BY <2>2
  <2>4. QED
    BY <1>d, <1>u, <2>1, <2>2, <2>3, SameEvents
<1>3. CASE Return(g) \/ UnlockPlainly(g)
  <2>1. /\ Len(stack[g]) \in Nat \ {0}
        /\ DOMAIN stack[g] = 1..Len(stack[g]) /\ DOMAIN stack'[g] = 1..(Len(stack[g]) - 1)
        /\ \A k \in 1..(Len(stack[g]) - 1) : stack'[g][k] = stack[g][k]
        /\ \A h \in Client : h # g => stack'[h] = stack[h]
    BY <1>3, <1>t, Popped DEF Return, UnlockPlainly
  <2>2. stack[g][Len(stack[g])].events = <<>>
    <3>1. /\ stack[g] # <<>>
          /\ Top(g).events = <<>> \/ Top(g).pc = "locked"
      BY <1>3 DEF Return, UnlockPlainly
    <3>2. QED
      BY <1>d, <1>t, <3>1, TopOps
  <2>3. /\ \A k \in DOMAIN stack[g] : k = Len(stack[g]) \/ k \in DOMAIN stack'[g]
        /\ DOMAIN stack'[g] \subseteq DOMAIN stack[g]
    BY <2>1
  <2>4. QED
    <3>1. \A h \in Client : \A k \in DOMAIN stack'[h] :
            k \in DOMAIN stack[h] /\ stack'[h][k] = stack[h][k]
      BY <2>1, <2>3
    <3>2. \A h \in Client : \A k \in DOMAIN stack[h] :
            stack[h][k].events # <<>>
              => k \in DOMAIN stack'[h] /\ stack'[h][k].events = stack[h][k].events
      BY <2>1, <2>2, <2>3
    <3>3. QED
      BY <1>d, <1>u, <3>1, <3>2, SameEvents
<1>4. QED
  BY <1>1, <1>2, <1>3

\* What the operations have after Replace.
LEMMA ReplacedHas ==
  ASSUME stack \in [Client -> Seq(Frame)], NEW g \in Client, NEW frame \in Frame,
         stack[g] # <<>>, Replace(g, frame)
  PROVE  /\ \A k, e : Has(stack', g, k, e) <=> IF k = Len(stack[g]) THEN frame.events = <<e>>
                                                                    ELSE Has(stack, g, k, e)
         /\ \A h \in Client : \A k, e : h # g => (Has(stack', h, k, e) <=> Has(stack, h, k, e))
         /\ Len(stack[g]) \in Nat
         /\ \A e : Has(stack, g, Len(stack[g]), e) <=> Top(g).events = <<e>>
<1>1. /\ Len(stack[g]) \in Nat \ {0}
      /\ DOMAIN stack[g] = 1..Len(stack[g]) /\ DOMAIN stack'[g] = DOMAIN stack[g]
      /\ stack'[g][Len(stack[g])] = frame
      /\ \A k \in 1..(Len(stack[g]) - 1) : stack'[g][k] = stack[g][k]
      /\ \A h \in Client : h # g => stack'[h] = stack[h]
  BY Replaced
<1>2. /\ Len(stack[g]) \in DOMAIN stack[g]
      /\ \A k \in DOMAIN stack[g] : k = Len(stack[g]) \/ k \in 1..(Len(stack[g]) - 1)
  BY <1>1
<1>3. Top(g) = stack[g][Len(stack[g])]
  BY TopOps
<1>4. QED
  BY <1>1, <1>2, <1>3 DEF Has

\* The frames after Replace, one by one.
LEMMA ReplacedTaken ==
  ASSUME stack \in [Client -> Seq(Frame)], Taken, NEW g \in Client, NEW frame \in Frame,
         stack[g] # <<>>, Replace(g, frame), transitions \in Nat, transitions' \in Nat,
         transitions <= transitions',
         frame.pc \in {"lock", "locked", "unlock"} => frame.events = <<>>,
         frame.events # <<>> => \E e \in 1..transitions' : frame.events = <<e>>
  PROVE  \A h \in Client : \A k \in DOMAIN stack'[h] :
           /\ stack'[h][k].pc \in {"lock", "locked", "unlock"} => stack'[h][k].events = <<>>
           /\ stack'[h][k].events # <<>> => \E e \in 1..transitions' : stack'[h][k].events = <<e>>
<1>1. /\ Len(stack[g]) \in Nat \ {0}
      /\ DOMAIN stack[g] = 1..Len(stack[g]) /\ DOMAIN stack'[g] = DOMAIN stack[g]
      /\ stack'[g][Len(stack[g])] = frame
      /\ \A k \in 1..(Len(stack[g]) - 1) : stack'[g][k] = stack[g][k]
      /\ \A h \in Client : h # g => stack'[h] = stack[h]
  BY Replaced
<1>2. /\ \A k \in DOMAIN stack[g] : k = Len(stack[g]) \/ k \in 1..(Len(stack[g]) - 1)
      /\ 1..transitions \subseteq 1..transitions'
  BY <1>1
<1> SUFFICES ASSUME NEW h \in Client, NEW k \in DOMAIN stack'[h]
             PROVE  /\ stack'[h][k].pc \in {"lock", "locked", "unlock"} => stack'[h][k].events = <<>>
                    /\ stack'[h][k].events # <<>>
                         => \E e \in 1..transitions' : stack'[h][k].events = <<e>>
  OBVIOUS
<1>3. CASE h = g /\ k = Len(stack[g])
  BY <1>1, <1>3
<1>4. CASE ~(h = g /\ k = Len(stack[g]))
  <2>1. k \in DOMAIN stack[h] /\ stack'[h][k] = stack[h][k]
    BY <1>1, <1>2, <1>4
  <2>2. QED
    BY <1>2, <2>1 DEF Taken
<1>5. QED
  BY <1>3, <1>4

\* A new event is pending, and in no other place.
LEMMA TransitionKeepsDelivery ==
  ASSUME Locking, Delivery, NEW g \in Client, Transition(g)
  PROVE  Delivery'
<1>t. /\ stack \in [Client -> Seq(Frame)] /\ stack[g] # <<>> /\ transitions \in Nat
      /\ origin \in Seq(Client) /\ Len(origin) = transitions
  BY DEF Locking, Types, Transition
<1>o. /\ Top(g) \in Frame /\ Top(g).events = <<>> /\ Len(stack[g]) \in Nat
  BY <1>t, TopOps DEF Delivery, Taken, Transition
<1> DEFINE frame == [Top(g) EXCEPT !.pc = "unlock"]
<1>1. frame \in Frame /\ frame.events = <<>> /\ Replace(g, frame)
  BY <1>o DEF Transition, Frame, Label
<1> HIDE DEF frame
<1>2. /\ pendingEvents = <<>> /\ pendingEvents' = <<transitions + 1>> /\ observed' = observed
      /\ transitions' = transitions + 1 /\ transitions' \in Nat /\ transitions <= transitions'
  <2>1. pendingEvents = <<>>
    BY <1>t DEF Transition, Locking, Section, Inside
  <2>2. Append(<<>>, transitions + 1) = <<transitions + 1>>
    OBVIOUS
  <2>3. QED
    BY <1>t, <2>1, <2>2 DEF Transition
<1>3. \A e \in 1..transitions : /\ origin'[e] = origin[e] /\ e \in 1..transitions' /\ e \in Nat
                              /\ pendingEvents' # <<e>> /\ origin[e] \in Client
  <2>1. \A e \in 1..transitions : origin'[e] = origin[e] /\ origin[e] \in Client
    BY <1>t, AppendOps DEF Transition
  <2>2. \A e \in 1..transitions : e \in 1..(transitions + 1) /\ e # transitions + 1 /\ e \in Nat
    BY <1>t
  <2>3. \A e \in 1..transitions : <<transitions + 1>> # <<e>>
    BY <2>2
  <2>4. QED
    BY <1>2, <2>1, <2>2, <2>3
<1>4. \A h \in Client : \A k, e \in Nat : Has(stack', h, k, e) <=> Has(stack, h, k, e)
  <2>1. \A e : <<e>> # <<>>
    OBVIOUS
  <2>2. /\ \A k, e : Has(stack', g, k, e) <=> IF k = Len(stack[g]) THEN frame.events = <<e>>
                                                                   ELSE Has(stack, g, k, e)
        /\ \A h \in Client : \A k, e : h # g => (Has(stack', h, k, e) <=> Has(stack, h, k, e))
        /\ \A e : Has(stack, g, Len(stack[g]), e) <=> Top(g).events = <<e>>
    BY <1>t, <1>1, ReplacedHas
  <2>3. \A k, e \in Nat : Has(stack', g, k, e) <=> Has(stack, g, k, e)
    BY <1>o, <1>1, <2>1, <2>2, Zenon
  <2>4. QED
    BY <2>2, <2>3, Zenon
<1>5. Taken'
  <2>1. \A h \in Client : \A k, e \in Nat :
          Has(stack', h, k, e) => /\ e \in 1..transitions' /\ origin'[e] = h /\ pendingEvents' # <<e>>
                                  /\ \A l \in Nat : Has(stack', h, l, e) => l = k
    BY <1>3, <1>4 DEF Delivery, Taken
  <2>2. \A h \in Client : \A k \in DOMAIN stack'[h] :
          /\ stack'[h][k].pc \in {"lock", "locked", "unlock"} => stack'[h][k].events = <<>>
          /\ stack'[h][k].events # <<>> => \E e \in 1..transitions' : stack'[h][k].events = <<e>>
    BY <1>t, <1>1, <1>2, ReplacedTaken DEF Delivery
  <2>3. QED
    BY <2>1, <2>2 DEF Taken
<1>6. Observed'
  BY <1>2, <1>3, <1>4 DEF Delivery, Observed
<1>7. Covered'
  <2> SUFFICES ASSUME NEW e \in 1..(transitions + 1)
               PROVE  \/ pendingEvents' = <<e>>
                      \/ \E k \in Nat : Has(stack', origin'[e], k, e)
                      \/ \E i \in DOMAIN observed' : observed'[i][2] = e
    BY <1>2 DEF Covered
  <2>1. CASE e = transitions + 1
    BY <1>2, <2>1
  <2>2. CASE e # transitions + 1
    <3>1. e \in 1..transitions
      BY <1>t, <2>2
    <3>2. pendingEvents # <<e>>
      BY <1>2
    <3>3. QED
      BY <1>2, <1>3, <1>4, <3>1, <3>2 DEF Delivery, Covered
  <2>3. QED
    BY <2>1, <2>2
<1>8. QED
  BY <1>5, <1>6, <1>7 DEF Delivery

\* The pending event goes to the operation that committed it.
LEMMA UnlockKeepsDelivery ==
  ASSUME Locking, Delivery, NEW g \in Client, UnlockAndDispatch(g)
  PROVE  Delivery'
<1>t. /\ stack \in [Client -> Seq(Frame)] /\ stack[g] # <<>> /\ transitions \in Nat
      /\ origin \in Seq(Client) /\ Len(origin) = transitions /\ pendingEvents \in Seq(Nat)
  BY DEF Locking, Types, UnlockAndDispatch
<1>o. /\ Top(g) \in Frame /\ Top(g).events = <<>> /\ Len(stack[g]) \in Nat
  BY <1>t, TopOps DEF Delivery, Taken, UnlockAndDispatch
<1>n. PICK n \in Nat : n = Len(stack[g])
  BY <1>o
<1> DEFINE frame == [pc |-> "dispatch", events |-> pendingEvents]
<1>1. /\ frame \in Frame /\ frame.pc = "dispatch" /\ frame.events = pendingEvents
      /\ Replace(g, frame)
  BY <1>t DEF UnlockAndDispatch, Frame, Label
<1> HIDE DEF frame
<1>2. /\ pendingEvents' = <<>> /\ observed' = observed /\ transitions' = transitions
      /\ origin' = origin /\ \A e : <<e>> # <<>>
  BY DEF UnlockAndDispatch
<1>3. /\ \A e \in Nat : pendingEvents = <<e>> => e = transitions /\ e \in 1..transitions /\ origin[e] = g
      /\ pendingEvents # <<>> => pendingEvents = <<transitions>> /\ transitions \in 1..transitions
  <2>1. mu = g
    BY <1>t DEF UnlockAndDispatch, Locking, Section, Inside
  <2>2. \/ pendingEvents = <<>>
        \/ pendingEvents = <<transitions>> /\ transitions > 0 /\ origin[transitions] = g
    BY <2>1 DEF Locking, Section
  <2>3. transitions > 0 => transitions \in 1..transitions
    BY <1>t
  <2>4. \A e \in Nat : <<e>> = <<transitions>> => e = transitions
    BY <1>t
  <2>5. QED
    BY <1>2, <2>2, <2>3, <2>4
<1>4. /\ \A k, e : Has(stack', g, k, e) <=> IF k = n THEN pendingEvents = <<e>> ELSE Has(stack, g, k, e)
      /\ \A h \in Client : \A k, e : h # g => (Has(stack', h, k, e) <=> Has(stack, h, k, e))
      /\ \A e : Has(stack, g, n, e) <=> Top(g).events = <<e>>
  BY <1>t, <1>n, <1>1, ReplacedHas
<1>5. \A e : ~Has(stack, g, n, e)
  BY <1>2, <1>4, <1>o, Zenon
<1>6. Taken'
  <2>1. \A h \in Client : \A k \in DOMAIN stack'[h] :
          /\ stack'[h][k].pc \in {"lock", "locked", "unlock"} => stack'[h][k].events = <<>>
          /\ stack'[h][k].events # <<>> => \E e \in 1..transitions' : stack'[h][k].events = <<e>>
    <3>1. pendingEvents # <<>> => \E e \in 1..transitions' : pendingEvents = <<e>>
      BY <1>2, <1>3
    <3>2. QED
      <4>1. /\ transitions' \in Nat /\ transitions <= transitions'
            /\ frame.pc \in {"lock", "locked", "unlock"} => frame.events = <<>>
            /\ frame.events # <<>> => \E e \in 1..transitions' : frame.events = <<e>>
        BY <1>t, <1>1, <1>2, <3>1
      <4>2. QED
        BY <1>t, <1>1, <4>1, ReplacedTaken DEF Delivery
  <2>2. ASSUME NEW h \in Client, NEW k \in Nat, NEW e \in Nat, Has(stack', h, k, e)
        PROVE  /\ e \in 1..transitions' /\ origin'[e] = h /\ pendingEvents' # <<e>>
               /\ \A l \in Nat : Has(stack', h, l, e) => l = k
    <3>1. CASE h # g
      BY <1>2, <1>4, <2>2, <3>1 DEF Delivery, Taken
    <3>2. CASE h = g /\ k = n
      <4>1. pendingEvents = <<e>>
        BY <1>4, <2>2, <3>2
      <4>2. \A l \in Nat : ~Has(stack, g, l, e)
        BY <4>1 DEF Delivery, Taken
      <4>3. QED
        BY <1>2, <1>3, <1>4, <3>2, <4>1, <4>2
    <3>3. CASE h = g /\ k # n
      <4>1. Has(stack, g, k, e)
        BY <1>4, <2>2, <3>3
      <4>2. /\ e \in 1..transitions /\ origin[e] = g /\ pendingEvents # <<e>>
            /\ \A l \in Nat : Has(stack, g, l, e) => l = k
        BY <4>1 DEF Delivery, Taken
      <4>3. QED
        BY <1>2, <1>4, <3>3, <4>2
    <3>4. QED
      BY <3>1, <3>2, <3>3
  <2>3. QED
    BY <2>1, <2>2 DEF Taken
<1>7. Observed'
  <2>1. \A i \in DOMAIN observed : \A h \in Client, k \in Nat : ~Has(stack', h, k, observed[i][2])
    BY <1>4 DEF Delivery, Observed
  <2>2. QED
    BY <1>2, <2>1 DEF Delivery, Observed
<1>8. Covered'
  <2>1. \A e \in 1..transitions : e \in Nat /\ origin[e] \in Client
    BY <1>t
  <2>2. n \in Nat
    OBVIOUS
  <2> SUFFICES ASSUME NEW e \in 1..transitions
               PROVE  \/ \E k \in Nat : Has(stack', origin'[e], k, e)
                      \/ \E i \in DOMAIN observed' : observed'[i][2] = e
    BY <1>2 DEF Covered
  <2>3. CASE pendingEvents = <<e>>
    <3>1. origin[e] = g /\ Has(stack', g, n, e)
      BY <1>3, <1>4, <2>1, <2>3
    <3>2. QED
      BY <1>2, <2>2, <3>1 DEF Has
  <2>4. ASSUME NEW k \in Nat, Has(stack, origin[e], k, e) PROVE Has(stack', origin'[e], k, e)
    <3>1. CASE origin[e] = g
      <4>1. k # n
        BY <1>5, <2>4, <3>1
      <4>2. Has(stack', g, k, e)
        BY <1>4, <2>4, <3>1, <4>1
      <4>3. QED
        BY <1>2, <3>1, <4>2 DEF Has
    <3>2. CASE origin[e] # g
      <4>1. \A h \in Client : h = origin[e] => Has(stack', h, k, e)
        BY <1>4, <2>4, <3>2
      <4>2. QED
        BY <1>2, <2>1, <4>1 DEF Has
    <3>3. QED
      BY <3>1, <3>2
  <2>5. QED
    BY <1>2, <2>3, <2>4 DEF Delivery, Covered
<1>9. QED
  BY <1>6, <1>7, <1>8 DEF Delivery

\* The observed event leaves its operation and joins the observed ones.
LEMMA CallbackKeepsDelivery ==
  ASSUME Locking, Delivery, NEW g \in Client, NEW fails, CallbackEnds(g, fails)
  PROVE  Delivery'
<1>t. /\ stack \in [Client -> Seq(Frame)] /\ stack[g] # <<>> /\ transitions \in Nat
      /\ origin \in Seq(Client) /\ Len(origin) = transitions
      /\ observed \in Seq(Client \X Nat)
  BY DEF Locking, Types, CallbackEnds
<1>o. /\ Top(g) \in Frame /\ Top(g) = stack[g][Len(stack[g])]
      /\ Len(stack[g]) \in Nat /\ Len(stack[g]) \in DOMAIN stack[g]
  BY <1>t, TopOps
<1>n. PICK n \in Nat : n = Len(stack[g])
  BY <1>o
<1>e. PICK e0 \in 1..transitions : Top(g).events = <<e0>>
  BY <1>o DEF CallbackEnds, Locking, Nested, Delivery, Taken
<1> DEFINE frame == [pc |-> "dispatch", events |-> Tail(Top(g).events)]
<1>1. /\ frame \in Frame /\ frame.pc = "dispatch" /\ frame.events = <<>> /\ Replace(g, frame)
  <2>1. Tail(<<e0>>) = <<>>
    OBVIOUS
  <2>2. QED
    BY <1>e, <2>1 DEF CallbackEnds, Frame, Label
<1> HIDE DEF frame
<1>2. /\ pendingEvents' = pendingEvents /\ transitions' = transitions /\ origin' = origin
      /\ \A e : <<e>> # <<>>
  BY DEF CallbackEnds
<1>3. /\ DOMAIN observed = 1..Len(observed) /\ Len(observed) \in Nat
      /\ DOMAIN observed' = 1..(Len(observed) + 1)
      /\ observed'[Len(observed) + 1] = <<g, e0>>
      /\ \A i \in 1..Len(observed) : observed'[i] = observed[i]
  <2>1. Head(Top(g).events) = e0 /\ e0 \in Nat
    BY <1>e, <1>t
  <2>2. observed' = Append(observed, <<g, e0>>) /\ <<g, e0>> \in Client \X Nat
    BY <2>1 DEF CallbackEnds
  <2>3. QED
    BY <1>t, <2>2, AppendOps
<1>4. /\ \A k, e : Has(stack', g, k, e) <=> k # n /\ Has(stack, g, k, e)
      /\ \A h \in Client : \A k, e : h # g => (Has(stack', h, k, e) <=> Has(stack, h, k, e))
      /\ Has(stack, g, n, e0)
      /\ \A e \in Nat : Has(stack, g, n, e) => e = e0
  <2>1. /\ \A k, e : Has(stack', g, k, e) <=> IF k = n THEN frame.events = <<e>>
                                                       ELSE Has(stack, g, k, e)
        /\ \A h \in Client : \A k, e : h # g => (Has(stack', h, k, e) <=> Has(stack, h, k, e))
        /\ \A e : Has(stack, g, n, e) <=> Top(g).events = <<e>>
    BY <1>t, <1>n, <1>1, ReplacedHas
  <2>2. \A e \in Nat : <<e0>> = <<e>> => e = e0
    OBVIOUS
  <2>3. \A k, e : Has(stack', g, k, e) <=> k # n /\ Has(stack, g, k, e)
    BY <1>1, <1>2, <2>1, Zenon
  <2>4. QED
    BY <1>e, <2>1, <2>2, <2>3, Zenon
<1>5. /\ origin[e0] = g /\ pendingEvents # <<e0>> /\ e0 \in Nat
      /\ \A l \in Nat : Has(stack, g, l, e0) => l = n
  <2>1. e0 \in Nat
    BY <1>t
  <2>2. QED
    BY <1>4, <2>1 DEF Delivery, Taken
<1>6. Taken'
  <2>1. \A h \in Client : \A k \in DOMAIN stack'[h] :
          /\ stack'[h][k].pc \in {"lock", "locked", "unlock"} => stack'[h][k].events = <<>>
          /\ stack'[h][k].events # <<>> => \E e \in 1..transitions' : stack'[h][k].events = <<e>>
    <3>1. transitions' \in Nat /\ transitions <= transitions'
      BY <1>t, <1>2
    <3>2. QED
      BY <1>t, <1>1, <3>1, ReplacedTaken DEF Delivery
  <2>2. \A h \in Client : \A k, e : Has(stack', h, k, e) => Has(stack, h, k, e)
    BY <1>4
  <2>3. \A h \in Client : \A k, e \in Nat :
          Has(stack', h, k, e) => /\ e \in 1..transitions' /\ origin'[e] = h /\ pendingEvents' # <<e>>
                                  /\ \A l \in Nat : Has(stack', h, l, e) => l = k
    BY <1>2, <2>2 DEF Delivery, Taken
  <2>4. QED
    BY <2>1, <2>3 DEF Taken
<1>7. \A h \in Client, k \in Nat : ~Has(stack', h, k, e0)
  <2> SUFFICES ASSUME NEW h \in Client, NEW k \in Nat, Has(stack', h, k, e0) PROVE FALSE
    OBVIOUS
  <2>1. h = g
    BY <1>4, <1>5 DEF Delivery, Taken
  <2>2. QED
    BY <1>4, <1>5, <2>1
<1>8. Observed'
  <2> SUFFICES ASSUME NEW i \in DOMAIN observed'
               PROVE  /\ observed'[i][2] \in 1..transitions'
                      /\ observed'[i][1] = origin'[observed'[i][2]]
                      /\ pendingEvents' # <<observed'[i][2]>>
                      /\ \A h \in Client, k \in Nat : ~Has(stack', h, k, observed'[i][2])
                      /\ \A j \in DOMAIN observed' :
                           observed'[i][2] = observed'[j][2] => i = j
    BY DEF Observed
  <2>1. \A j \in DOMAIN observed' : j = Len(observed) + 1 \/ j \in DOMAIN observed
    BY <1>3
  <2>2. \A j \in DOMAIN observed : observed'[j] = observed[j] /\ observed[j][2] # e0
    BY <1>3, <1>4 DEF Delivery, Observed
  <2>3. <<g, e0>>[1] = g /\ <<g, e0>>[2] = e0
    OBVIOUS
  <2>4. CASE i = Len(observed) + 1
    <3>1. observed'[i][1] = g /\ observed'[i][2] = e0
      BY <1>3, <2>3, <2>4
    <3>2. \A j \in DOMAIN observed' : observed'[i][2] = observed'[j][2] => i = j
      BY <2>1, <2>2, <2>4, <3>1
    <3>3. QED
      BY <1>2, <1>5, <1>7, <3>1, <3>2
  <2>5. CASE i \in DOMAIN observed
    <3>1. /\ observed[i][2] \in 1..transitions /\ observed[i][1] = origin[observed[i][2]]
          /\ pendingEvents # <<observed[i][2]>>
          /\ \A h \in Client, k \in Nat : ~Has(stack, h, k, observed[i][2])
          /\ \A j \in DOMAIN observed : observed[i][2] = observed[j][2] => i = j
      BY <2>5 DEF Delivery, Observed
    <3>2. \A h \in Client, k \in Nat : ~Has(stack', h, k, observed[i][2])
      BY <1>4, <3>1
    <3>3. \A j \in DOMAIN observed' : observed[i][2] = observed'[j][2] => i = j
      BY <1>3, <2>1, <2>2, <2>3, <2>5, <3>1
    <3>4. QED
      BY <1>2, <2>2, <2>5, <3>1, <3>2, <3>3
  <2>6. QED
    BY <2>1, <2>4, <2>5
<1>9. Covered'
  <2> SUFFICES ASSUME NEW e \in 1..transitions
               PROVE  \/ pendingEvents = <<e>>
                      \/ \E k \in Nat : Has(stack', origin[e], k, e)
                      \/ \E i \in DOMAIN observed' : observed'[i][2] = e
    BY <1>2 DEF Covered
  <2>1. e \in Nat /\ origin[e] \in Client
    BY <1>t
  <2>2. /\ Len(observed) + 1 \in DOMAIN observed' /\ observed'[Len(observed) + 1][2] = e0
        /\ \A i \in DOMAIN observed : i \in DOMAIN observed' /\ observed'[i] = observed[i]
    BY <1>3
  <2>3. \A k \in Nat : Has(stack, origin[e], k, e) => e = e0 \/ Has(stack', origin[e], k, e)
    BY <1>4, <2>1
  <2>4. QED
    BY <2>2, <2>3 DEF Delivery, Covered
<1>10. QED
  BY <1>6, <1>8, <1>9 DEF Delivery

\* It holds at first.
LEMMA InitDelivery == SyncInit => Delivery
<1> SUFFICES ASSUME SyncInit PROVE Delivery
  OBVIOUS
<1>1. /\ \A g \in Client : stack[g] = <<>>
      /\ transitions = 0 /\ observed = <<>>
  BY DEF SyncInit
<1>2. DOMAIN <<>> = {} /\ 1..0 = {}
  OBVIOUS
<1>3. QED
  BY <1>1, <1>2 DEF Delivery, Taken, Observed, Covered, Has

\* Every step keeps it.
LEMMA DeliveryStep == Locking /\ Delivery /\ [SyncNext]_syncVars => Delivery'
<1> SUFFICES ASSUME Locking, Delivery, [SyncNext]_syncVars PROVE Delivery'
  OBVIOUS
<1>1. CASE UNCHANGED syncVars
  BY <1>1 DEF Delivery, Taken, Observed, Covered, syncVars
<1>2. CASE SyncNext
  BY <1>2, QuietKeepsDelivery, TransitionKeepsDelivery, UnlockKeepsDelivery,
     CallbackKeepsDelivery DEF SyncNext, Proceed
<1>3. QED
  BY <1>1, <1>2

\* The inductive invariant says what a caller may rely on.
LEMMA DeliveryPromise == Locking /\ Delivery => DeliveredByCommitter
<1> SUFFICES ASSUME Locking, Delivery, NEW e \in 1..transitions
             PROVE  /\ \A i \in Deliveries(e) : observed[i][1] = origin[e]
                    /\ Cardinality(Deliveries(e)) <= 1
                    /\ stack[origin[e]] = <<>> => Deliveries(e) # {}
  BY DEF DeliveredByCommitter
<1>1. \A i \in Deliveries(e) : observed[i][1] = origin[e]
  BY DEF Deliveries, Delivery, Observed
<1>2. Cardinality(Deliveries(e)) <= 1
  <2>1. \A i, j \in Deliveries(e) : i = j
    BY DEF Deliveries, Delivery, Observed
  <2>2. Deliveries(e) = {} \/ \E i : Deliveries(e) = {i}
    BY <2>1
  <2>3. Cardinality(Deliveries(e)) = 0 \/ Cardinality(Deliveries(e)) = 1
    BY <2>2, FS_EmptySet, FS_Singleton
  <2>4. QED
    BY <2>3
<1>3. ASSUME stack[origin[e]] = <<>> PROVE Deliveries(e) # {}
  <2>1. e \in Nat /\ transitions \in Nat
    BY DEF Locking, Types
  <2>2. pendingEvents # <<e>>
    <3> SUFFICES ASSUME pendingEvents = <<e>> PROVE FALSE
      OBVIOUS
    <3>1. pendingEvents # <<>> /\ (<<e>> = <<transitions>> => e = transitions)
      BY <2>1
    <3>2. e = transitions /\ Inside(origin[transitions])
      BY <3>1 DEF Locking, Section
    <3>3. QED
      BY <1>3, <3>2 DEF Inside
  <2>3. \A k \in Nat : ~Has(stack, origin[e], k, e)
    BY <1>3 DEF Has
  <2>4. QED
    BY <2>2, <2>3 DEF Delivery, Covered, Deliveries
<1>4. QED
  BY <1>1, <1>2, <1>3

(***************************************************************************)
(* Synchronous delivery: an operation returns only when its goroutine has  *)
(* observed everything it committed, once each, at any depth of nested     *)
(* callbacks and whatever other goroutines do.                             *)
(***************************************************************************)
THEOREM DeliveryExact == SyncSpec => []DeliveredByCommitter
<1>1. SyncInit => Locking /\ Delivery
  BY InitLocking, InitDelivery
<1>2. Locking /\ Delivery /\ [SyncNext]_syncVars => (Locking /\ Delivery)'
  BY LockingStep, DeliveryStep
<1>3. QED
  BY <1>1, <1>2, DeliveryPromise, PTL DEF SyncSpec

=============================================================================
