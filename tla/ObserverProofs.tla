--------------------------- MODULE ObserverProofs ---------------------------
(***************************************************************************)
(* Proofs about the asynchronous observer, for any number of clients, any  *)
(* buffer and any number of events.                                        *)
(*                                                                         *)
(* Control says who holds eventMu and what its holder may rely on while    *)
(* the worker runs beside it; it implies ResendHasRoom and                 *)
(* NothingStranded.  Places adds that the queue, the dispatching           *)
(* goroutines, the callback and the delivered events never share an event; *)
(* it implies EventsAccounted.                                             *)
(***************************************************************************)
EXTENDS Observer, FiniteSetTheorems, TLAPS

Label == {"idle", "await", "select", "drain", "callback", "done",
          "dispatch", "enqueue", "evict", "resend", "close", "stop"}

Types ==
  /\ committed \in Nat /\ dropped \in Nat
  /\ eventChannel \in Seq(Nat) /\ Len(eventChannel) <= Buffer
  /\ pc \in [Goroutine -> Label]
  /\ event \in [Goroutine -> Nat]
  /\ current \in Nat

\* The labels between Lock and Unlock of eventMu.
Critical == {"enqueue", "evict", "resend", "stop"}

\* The holder of eventMu is the only one that adds to the queue or closes it.
Exclusion ==
  \A g \in Goroutine :
    /\ pc[g] \in Critical => eventMu = g
    /\ pc[g] = "resend" => Len(eventChannel) < Buffer
    /\ pc[g] \in {"evict", "resend"} => ~eventClosed
    /\ pc[g] = "stop" => eventClosed

\* The worker leaves its loop only after Close, and ends only with an empty queue.
Draining ==
  /\ eventStop => eventClosed
  /\ draining => eventStop
  /\ pc[Worker] = "drain" => draining
  /\ pc[Worker] = "done" => eventClosed /\ eventChannel = <<>>
  /\ eventDone => pc[Worker] = "done"

Control == Types /\ Exclusion /\ Draining

-----------------------------------------------------------------------------
(* Sequences *)

\* What Append and Tail do to a queue.
LEMMA QueueOps ==
  ASSUME NEW s \in Seq(Nat), NEW e \in Nat
  PROVE  /\ Len(s) \in Nat
         /\ Append(s, e) \in Seq(Nat) /\ Len(Append(s, e)) = Len(s) + 1
         /\ s # <<>> => /\ Tail(s) \in Seq(Nat) /\ Len(Tail(s)) = Len(s) - 1
                        /\ Head(s) \in Nat
         /\ s = <<>> <=> Len(s) = 0
OBVIOUS

-----------------------------------------------------------------------------
(* Control *)

\* New starts the worker with an empty queue and nothing locked.
LEMMA InitControl == Init => Control
BY ObserverAssumption
   DEF Init, Control, Types, Exclusion, Draining, Goroutine, Label, Critical, NoEvent

\* A step that moves one goroutine outside the critical section of eventMu and
\* leaves the queue and Close alone.
LEMMA MoveKeepsControl ==
  ASSUME Control, NEW g \in Goroutine, NEW label \in Label \ Critical,
         UNCHANGED <<eventChannel, eventMu, eventClosed, eventStop, eventDone, dropped,
                     draining>>,
         pc[g] \notin Critical \cup {"done"}, label \notin {"done", "drain"},
         Goto(g, label),
         committed' \in Nat, event' \in [Goroutine -> Nat], current' \in Nat
  PROVE  Control'
<1>1. Types'
  BY DEF Control, Types, Goto
<1>2. Exclusion'
  BY DEF Control, Types, Exclusion, Goto, Critical
<1>3. Draining'
  BY DEF Control, Types, Draining, Goto, Goroutine
<1>4. QED
  BY <1>1, <1>2, <1>3 DEF Control

\* A goroutine takes or keeps eventMu, or the worker's bookkeeping changes:
\* each action of the event path preserves Control.
LEMMA ProducerKeepsControl ==
  ASSUME Control, NEW g \in Goroutine, Commit(g) \/ Lock(g) \/ Enqueue(g)
  PROVE  Control'
<1> USE ObserverAssumption
<1>t. Types
  BY DEF Control
<1>e. event[g] \in Nat /\ Home(g) \in {"callback", "idle"}
  BY <1>t DEF Types, Home
<1>s. /\ Len(eventChannel) \in Nat
      /\ Append(eventChannel, event[g]) \in Seq(Nat)
      /\ Len(Append(eventChannel, event[g])) = Len(eventChannel) + 1
      /\ eventChannel # <<>> => /\ Tail(eventChannel) \in Seq(Nat)
                                /\ Len(Tail(eventChannel)) = Len(eventChannel) - 1
      /\ eventChannel = <<>> <=> Len(eventChannel) = 0
  BY <1>t, <1>e, QueueOps DEF Types
<1>1. CASE Commit(g)
  <2>1. pc[g] \notin Critical \cup {"done"} /\ committed' \in Nat /\ event' \in [Goroutine -> Nat]
    BY <1>1, <1>t, <1>e DEF Commit, Types, Critical
  <2>2. "dispatch" \in Label \ Critical
    BY DEF Label, Critical
  <2>3. QED
    BY <1>1, <2>1, <2>2, <1>t, MoveKeepsControl
       DEF Commit, Types, queueVars, closeVars, workerVars
<1>2. CASE Lock(g)
  <2>1. Types'
    BY <1>2, <1>t DEF Lock, Types, Goto, Label, queueVars, closeVars, workerVars
  <2>2. Exclusion'
    BY <1>2, <1>t DEF Control, Lock, Types, Exclusion, Goto, Critical, queueVars, closeVars
  <2>3. Draining'
    BY <1>2, <1>t
       DEF Control, Lock, Types, Draining, Goto, Goroutine, queueVars, closeVars, workerVars
  <2>4. QED
    BY <2>1, <2>2, <2>3 DEF Control
<1>3. CASE Refuse(g)
  <2>1. Types'
    BY <1>3, <1>t, <1>e
       DEF Refuse, Unlock, Types, Goto, Label, NoEvent, queueVars, closeVars, workerVars
  <2>2. Exclusion'
    BY <1>3, <1>t, <1>e
       DEF Control, Refuse, Unlock, Types, Exclusion, Goto, Critical, queueVars, closeVars
  <2>3. Draining'
    BY <1>3, <1>t, <1>e
       DEF Control, Refuse, Unlock, Types, Draining, Goto, Goroutine, queueVars, closeVars, workerVars
  <2>4. QED
    BY <2>1, <2>2, <2>3 DEF Control
<1>4. CASE Send(g) \/ Resend(g)
  <2>0. /\ pc[g] \in {"enqueue", "resend"} /\ ~eventClosed /\ Len(eventChannel) < Buffer
        /\ eventChannel' = Append(eventChannel, event[g])
        /\ Unlock(g) /\ UNCHANGED <<committed, dropped, closeVars, workerVars>>
    BY <1>4 DEF Send, Resend, Control, Exclusion
  <2>1. Types'
    BY <2>0, <1>t, <1>e, <1>s
       DEF Unlock, Types, Goto, Label, NoEvent, closeVars, workerVars
  <2>2. Exclusion'
    <3>1. \A h \in Goroutine : h # g => pc[h] \notin Critical
      BY <2>0, <1>t DEF Control, Exclusion, Critical
    <3>2. \A h \in Goroutine : pc'[h] \notin Critical
      BY <2>0, <3>1, <1>t, <1>e DEF Unlock, Types, Goto, Critical
    <3>3. QED
      BY <3>2 DEF Exclusion, Critical
  <2>3. Draining'
    BY <2>0, <1>t, <1>e
       DEF Control, Unlock, Types, Draining, Goto, Goroutine, closeVars, workerVars
  <2>4. QED
    BY <2>1, <2>2, <2>3 DEF Control
<1>5. CASE Overflow(g)
  <2>1. Types'
    BY <1>5, <1>t DEF Overflow, Types, Goto, Label, queueVars, closeVars, workerVars
  <2>2. Exclusion'
    BY <1>5, <1>t DEF Control, Overflow, Types, Exclusion, Goto, Critical, queueVars, closeVars
  <2>3. Draining'
    BY <1>5, <1>t
       DEF Control, Overflow, Types, Draining, Goto, Goroutine, queueVars, closeVars, workerVars
  <2>4. QED
    BY <2>1, <2>2, <2>3 DEF Control
<1>6. CASE Evict(g)
  <2>0. /\ eventChannel' \in Seq(Nat) /\ Len(eventChannel') < Buffer
        /\ eventChannel = <<>> => eventChannel' = <<>>
    BY <1>6, <1>t, <1>s DEF Evict, Types
  <2>1. Types'
    BY <1>6, <1>t, <2>0 DEF Evict, Types, Goto, Label, queueVars, closeVars, workerVars
  <2>2. Exclusion'
    BY <1>6, <1>t, <2>0 DEF Control, Evict, Types, Exclusion, Goto, Critical, closeVars
  <2>3. Draining'
    BY <1>6, <1>t, <2>0
       DEF Control, Evict, Types, Draining, Goto, Goroutine, closeVars, workerVars
  <2>4. QED
    BY <2>1, <2>2, <2>3 DEF Control
<1>7. QED
  BY <1>1, <1>2, <1>3, <1>4, <1>5, <1>6 DEF Enqueue

\* Close, Shutdown and the worker preserve Control.
LEMMA CloserKeepsControl ==
  ASSUME Control, NEW g \in Goroutine, CloseBegins(g) \/ CloseStores(g) \/ CloseStops(g)
  PROVE  Control'
<1> USE ObserverAssumption
<1>t. Types
  BY DEF Control
<1>e. Home(g) \in {"callback", "idle"}
  BY DEF Home
<1>1. CASE CloseBegins(g)
  <2>1. pc[g] \notin Critical \cup {"done"}
    BY <1>1, <1>e DEF CloseBegins, Critical
  <2>2. "close" \in Label \ Critical
    BY DEF Label, Critical
  <2>3. QED
    BY <1>1, <2>1, <2>2, <1>t, MoveKeepsControl DEF CloseBegins, Types, queueVars, workerVars
<1>2. CASE CloseStores(g)
  <2>1. Types'
    BY <1>2, <1>t DEF CloseStores, Types, Goto, Label, queueVars, workerVars
  <2>2. Exclusion'
    <3>1. \A h \in Goroutine : pc[h] \notin Critical
      BY <1>2 DEF CloseStores, Control, Exclusion
    <3>2. QED
      BY <1>2, <1>t, <3>1 DEF CloseStores, Types, Exclusion, Goto, Critical
  <2>3. Draining'
    BY <1>2, <1>t DEF Control, CloseStores, Types, Draining, Goto, Goroutine, queueVars, workerVars
  <2>4. QED
    BY <2>1, <2>2, <2>3 DEF Control
<1>3. CASE CloseStops(g)
  <2>1. Types'
    BY <1>3, <1>t, <1>e DEF CloseStops, Types, Goto, Label, queueVars, workerVars
  <2>2. Exclusion'
    BY <1>3, <1>t, <1>e
       DEF Control, CloseStops, Types, Exclusion, Goto, Critical, queueVars
  <2>3. Draining'
    BY <1>3, <1>t, <1>e
       DEF Control, CloseStops, Types, Exclusion, Draining, Goto, Goroutine, queueVars, workerVars
  <2>4. QED
    BY <2>1, <2>2, <2>3 DEF Control
<1>4. QED
  BY <1>1, <1>2, <1>3

\* The steps of Shutdown keep it.
LEMMA ShutdownKeepsControl ==
  ASSUME Control, NEW c \in Client,
         ShutdownWaits(c) \/ ShutdownReturns(c) \/ ShutdownCanceled(c)
  PROVE  Control'
<1>1. PICK label \in {"await", "idle"} :
        /\ pc[c] \in {"await", "idle"} /\ Goto(c, label)
        /\ UNCHANGED <<overflow, committed, queueVars, eventMu, closeVars, workerVars, event>>
  BY DEF ShutdownWaits, ShutdownReturns, ShutdownCanceled
<1>2. pc[c] \notin Critical \cup {"done"} /\ label \in Label \ Critical /\ c \in Goroutine
  BY <1>1 DEF Critical, Label, Goroutine
<1>3. QED
  BY <1>1, <1>2, MoveKeepsControl DEF Control, Types, queueVars, closeVars, workerVars

\* The steps of the worker keep it.
LEMMA WorkerKeepsControl ==
  ASSUME Control, Work \/ \E failed \in BOOLEAN : CallbackReturns(failed)
  PROVE  Control'
<1> USE ObserverAssumption
<1>t. Types /\ Worker \in Goroutine
  BY DEF Control, Goroutine
<1>1. CASE Receive
  <2>1. /\ eventChannel' \in Seq(Nat) /\ Len(eventChannel') < Len(eventChannel)
        /\ current' \in Nat /\ Len(eventChannel) \in Nat /\ Len(eventChannel') \in Nat
    BY <1>1, <1>t, QueueOps DEF Receive, Types
  <2>2. Types'
    BY <1>1, <1>t, <2>1 DEF Receive, Types, Goto, Label
  <2>3. Exclusion'
    BY <1>1, <1>t, <2>1 DEF Control, Receive, Types, Exclusion, Goto, Critical, closeVars
  <2>4. Draining'
    BY <1>1, <1>t DEF Control, Receive, Types, Draining, Goto, closeVars
  <2>5. QED
    BY <2>2, <2>3, <2>4 DEF Control
<1>2. CASE SeeStop
  <2>1. Types'
    BY <1>2, <1>t DEF SeeStop, Types, Goto, Label, queueVars
  <2>2. Exclusion'
    BY <1>2, <1>t DEF Control, SeeStop, Types, Exclusion, Goto, Critical, queueVars, closeVars
  <2>3. Draining'
    BY <1>2, <1>t DEF Control, SeeStop, Types, Draining, Goto, queueVars, closeVars
  <2>4. QED
    BY <2>1, <2>2, <2>3 DEF Control
<1>3. CASE Finish
  <2>1. Types'
    BY <1>3, <1>t DEF Finish, Types, Goto, Label, queueVars
  <2>2. Exclusion'
    BY <1>3, <1>t DEF Control, Finish, Types, Exclusion, Goto, Critical, queueVars, closeVars
  <2>3. Draining'
    BY <1>3, <1>t DEF Control, Finish, Types, Draining, Goto, queueVars, closeVars
  <2>4. QED
    BY <2>1, <2>2, <2>3 DEF Control
<1>4. ASSUME NEW failed \in BOOLEAN, CallbackReturns(failed)
      PROVE  Control'
  <2>1. Types'
    BY <1>4, <1>t DEF CallbackReturns, Types, Goto, Label, NoEvent, queueVars
  <2>2. Exclusion'
    BY <1>4, <1>t
       DEF Control, CallbackReturns, Types, Exclusion, Goto, Critical, queueVars, closeVars
  <2>3. Draining'
    BY <1>4, <1>t DEF Control, CallbackReturns, Types, Draining, Goto, queueVars, closeVars
  <2>4. QED
    BY <2>1, <2>2, <2>3 DEF Control
<1>5. QED
  BY <1>1, <1>2, <1>3, <1>4 DEF Work

\* Every step keeps it.
LEMMA ControlStep == Control /\ [Next]_vars => Control'
<1> SUFFICES ASSUME Control, [Next]_vars PROVE Control'
  OBVIOUS
<1>1. CASE UNCHANGED vars
  BY <1>1
     DEF Control, Types, Exclusion, Draining, vars, queueVars, closeVars, workerVars
<1>2. CASE Next
  BY <1>2, ProducerKeepsControl, CloserKeepsControl, ShutdownKeepsControl, WorkerKeepsControl
     DEF Next
<1>3. QED
  BY <1>1, <1>2

\* It holds at every instant.
LEMMA ControlAlways == Spec => []Control
BY InitControl, ControlStep, PTL DEF Spec

(***************************************************************************)
(* The blocking send of enqueue, made with eventMu held, always finds      *)
(* room: the evictor holds eventMu from the eviction on, so the worker is  *)
(* the only other party at the queue, and it only takes from it.           *)
(***************************************************************************)
THEOREM ResendNeverBlocks == Spec => []ResendHasRoom
<1>1. Control => ResendHasRoom
  BY DEF Control, Exclusion, ResendHasRoom, Critical
<1>2. QED
  BY <1>1, ControlAlways, PTL

(***************************************************************************)
(* runObserver closes eventDone only after Close, with an empty queue, and *)
(* no producer that passed the eventClosed check can still add to it.      *)
(***************************************************************************)
THEOREM WorkerDrains == Spec => []NothingStranded
<1>1. Control => NothingStranded
  BY DEF Control, Draining, NothingStranded
<1>2. QED
  BY <1>1, ControlAlways, PTL

-----------------------------------------------------------------------------
(* Places: where an event is *)

Elements(s) == {s[i] : i \in DOMAIN s}
Repeats(s) == \E i, j \in DOMAIN s : s[i] = s[j] /\ i # j

Carried(f) == {f[g] : g \in Goroutine} \ {NoEvent}

\* A goroutine carries an event exactly from Commit to the end of enqueue, the
\* worker exactly while the callback runs.
Carriers ==
  /\ \A g \in Goroutine : event[g] # NoEvent <=> pc[g] \in {"dispatch", "enqueue", "evict", "resend"}
  /\ current = NoEvent <=> pc[Worker] \in {"select", "drain", "done"}

\* No event is twice in one place or in two.
Apart ==
  /\ ~Repeats(eventChannel)
  /\ \A g, h \in Goroutine : event[g] = event[h] /\ event[g] # NoEvent => g = h
  /\ Queued \cap Dispatching = {} /\ Queued \cap Observing = {} /\ Queued \cap delivered = {}
  /\ Dispatching \cap Observing = {} /\ Dispatching \cap delivered = {}
  /\ Observing \cap delivered = {}

Numbered == Queued \cup Dispatching \cup Observing \cup delivered \subseteq 1..committed

\* Each event is in a place or has been counted as dropped.
Sums ==
  /\ Cardinality(Queued) = Len(eventChannel)
  /\ committed = dropped + Cardinality(Queued) + Cardinality(Dispatching)
                   + Cardinality(Observing) + Cardinality(delivered)

Places == Carriers /\ Apart /\ Numbered /\ Sums

\* Append adds one element, and repeats none that was not there.
LEMMA AppendElements ==
  ASSUME NEW s \in Seq(Nat), NEW e \in Nat, ~Repeats(s), e \notin Elements(s)
  PROVE  /\ Elements(Append(s, e)) = Elements(s) \cup {e}
         /\ ~Repeats(Append(s, e))
<1> DEFINE t == Append(s, e)
<1>1. /\ DOMAIN s = 1..Len(s) /\ DOMAIN t = 1..(Len(s) + 1) /\ Len(s) \in Nat
      /\ \A i \in 1..Len(s) : t[i] = s[i]
      /\ t[Len(s) + 1] = e
  OBVIOUS
<1> HIDE DEF t
<1>2. Elements(t) \subseteq Elements(s) \cup {e}
  BY <1>1 DEF Elements
<1>3. Elements(s) \cup {e} \subseteq Elements(t)
  BY <1>1 DEF Elements
<1>4. ~Repeats(t)
  BY <1>1 DEF Repeats, Elements
<1>5. QED
  BY <1>2, <1>3, <1>4 DEF t

\* Receiving or evicting takes exactly the head.
LEMMA TailElements ==
  ASSUME NEW s \in Seq(Nat), s # <<>>, ~Repeats(s)
  PROVE  /\ Head(s) \in Elements(s)
         /\ Elements(Tail(s)) = Elements(s) \ {Head(s)}
         /\ ~Repeats(Tail(s))
<1> DEFINE t == Tail(s)
<1>1. /\ DOMAIN s = 1..Len(s) /\ DOMAIN t = 1..(Len(s) - 1) /\ Len(s) \in Nat \ {0}
      /\ \A i \in 1..(Len(s) - 1) : t[i] = s[i + 1]
      /\ Head(s) = s[1]
  OBVIOUS
<1> HIDE DEF t
<1>2. Head(s) \in Elements(s)
  BY <1>1 DEF Elements
<1>3. Elements(t) \subseteq Elements(s) \ {Head(s)}
  <2> SUFFICES ASSUME NEW i \in DOMAIN t
               PROVE  t[i] \in Elements(s) /\ t[i] # Head(s)
    BY DEF Elements
  <2>1. i + 1 \in DOMAIN s /\ i + 1 # 1 /\ t[i] = s[i + 1] /\ 1 \in DOMAIN s
    BY <1>1
  <2>2. QED
    BY <2>1, <1>1 DEF Elements, Repeats
<1>4. Elements(s) \ {Head(s)} \subseteq Elements(t)
  <2> SUFFICES ASSUME NEW i \in DOMAIN s, s[i] # Head(s)
               PROVE  s[i] \in Elements(t)
    BY DEF Elements
  <2>1. i - 1 \in DOMAIN t /\ t[i - 1] = s[i]
    BY <1>1
  <2>2. QED
    BY <2>1 DEF Elements
<1>5. ~Repeats(t)
  <2> SUFFICES ASSUME NEW i \in DOMAIN t, NEW j \in DOMAIN t, t[i] = t[j], i # j
               PROVE  FALSE
    BY DEF Repeats
  <2>1. i + 1 \in DOMAIN s /\ j + 1 \in DOMAIN s /\ i + 1 # j + 1 /\ s[i + 1] = s[j + 1]
    BY <1>1
  <2>2. QED
    BY <2>1 DEF Repeats
<1>6. QED
  BY <1>2, <1>3, <1>4, <1>5 DEF t

\* A goroutine takes up an event, or puts down the one it alone carries.
LEMMA CarriedOps ==
  ASSUME NEW f \in [Goroutine -> Nat], NEW g \in Goroutine, NEW e \in Nat
  PROVE  /\ f[g] = NoEvent /\ e # NoEvent
              => Carried([f EXCEPT ![g] = e]) = Carried(f) \cup {e}
         /\ (\A h \in Goroutine : f[h] = f[g] => h = g)
              => Carried([f EXCEPT ![g] = NoEvent]) = Carried(f) \ {f[g]}
<1>1. ASSUME f[g] = NoEvent, e # NoEvent
      PROVE  Carried([f EXCEPT ![g] = e]) = Carried(f) \cup {e}
  <2> DEFINE f1 == [f EXCEPT ![g] = e]
  <2>1. f1[g] = e /\ \A h \in Goroutine : h # g => f1[h] = f[h]
    OBVIOUS
  <2> HIDE DEF f1
  <2>2. Carried(f1) = Carried(f) \cup {e}
    BY <1>1, <2>1 DEF Carried
  <2>3. QED
    BY <2>2 DEF f1
<1>2. ASSUME \A h \in Goroutine : f[h] = f[g] => h = g
      PROVE  Carried([f EXCEPT ![g] = NoEvent]) = Carried(f) \ {f[g]}
  <2> DEFINE f1 == [f EXCEPT ![g] = NoEvent]
  <2>1. f1[g] = NoEvent /\ \A h \in Goroutine : h # g => f1[h] = f[h]
    OBVIOUS
  <2> HIDE DEF f1
  <2>2. Carried(f1) = Carried(f) \ {f[g]}
    BY <1>2, <2>1 DEF Carried
  <2>3. QED
    BY <2>2 DEF f1
<1>3. QED
  BY <1>1, <1>2

\* The places are finite, because events are numbered.
LEMMA PlacesFinite ==
  ASSUME committed \in Nat, Numbered
  PROVE  /\ IsFiniteSet(Queued) /\ IsFiniteSet(Dispatching)
         /\ IsFiniteSet(Observing) /\ IsFiniteSet(delivered)
         /\ Cardinality(Queued) \in Nat /\ Cardinality(Dispatching) \in Nat
         /\ Cardinality(Observing) \in Nat /\ Cardinality(delivered) \in Nat
<1>1. IsFiniteSet(1..committed)
  BY FS_Interval
<1>2. \A S \in SUBSET (1..committed) : IsFiniteSet(S)
  BY <1>1, FS_Subset
<1>3. /\ IsFiniteSet(Queued) /\ IsFiniteSet(Dispatching)
      /\ IsFiniteSet(Observing) /\ IsFiniteSet(delivered)
  BY <1>2 DEF Numbered
<1>4. QED
  BY <1>3, FS_CardinalityType

\* A union of disjoint finite sets.
LEMMA TwoDisjoint ==
  ASSUME NEW S, NEW T, IsFiniteSet(S), IsFiniteSet(T), S \cap T = {}
  PROVE  /\ IsFiniteSet(S \cup T)
         /\ Cardinality(S \cup T) = Cardinality(S) + Cardinality(T)
<1>1. /\ IsFiniteSet(S \cup T)
      /\ Cardinality(S \cup T) = Cardinality(S) + Cardinality(T) - Cardinality(S \cap T)
  BY FS_Union, Zenon
<1>2. Cardinality(S \cap T) = 0
  BY FS_EmptySet, Zenon
<1>3. Cardinality(S) \in Nat /\ Cardinality(T) \in Nat
  BY FS_CardinalityType, Zenon
<1>4. QED
  BY <1>1, <1>2, <1>3

\* The size of a union of four disjoint sets.
LEMMA FourDisjoint ==
  ASSUME NEW Q, NEW D, NEW O, NEW V,
         IsFiniteSet(Q), IsFiniteSet(D), IsFiniteSet(O), IsFiniteSet(V),
         Q \cap D = {}, Q \cap O = {}, Q \cap V = {}, D \cap O = {}, D \cap V = {}, O \cap V = {}
  PROVE  Cardinality(Q \cup D \cup O \cup V)
           = Cardinality(Q) + Cardinality(D) + Cardinality(O) + Cardinality(V)
<1>1. IsFiniteSet(Q \cup D) /\ Cardinality(Q \cup D) = Cardinality(Q) + Cardinality(D)
  BY TwoDisjoint, Zenon
<1>2. /\ IsFiniteSet(Q \cup D \cup O)
      /\ Cardinality(Q \cup D \cup O) = Cardinality(Q \cup D) + Cardinality(O)
  <2>1. (Q \cup D) \cap O = {}
    OBVIOUS
  <2>2. QED
    BY <2>1, <1>1, TwoDisjoint, Zenon
<1>3. Cardinality(Q \cup D \cup O \cup V) = Cardinality(Q \cup D \cup O) + Cardinality(V)
  <2>1. (Q \cup D \cup O) \cap V = {}
    OBVIOUS
  <2>2. QED
    BY <2>1, <1>2, TwoDisjoint, Zenon
<1>4. QED
  BY <1>1, <1>2, <1>3

\* Places say what Snapshot.DroppedEvents promises.
LEMMA PlacesAccount == Control /\ Places => EventsAccounted
<1> SUFFICES ASSUME Control, Places PROVE EventsAccounted
  OBVIOUS
<1>1. /\ IsFiniteSet(Queued) /\ IsFiniteSet(Dispatching)
      /\ IsFiniteSet(Observing) /\ IsFiniteSet(delivered)
      /\ Cardinality(Queued) \in Nat /\ Cardinality(Dispatching) \in Nat
      /\ Cardinality(Observing) \in Nat /\ Cardinality(delivered) \in Nat
  BY PlacesFinite DEF Control, Types, Places
<1>2. Cardinality(Queued \cup Dispatching \cup Observing \cup delivered)
        = Cardinality(Queued) + Cardinality(Dispatching) + Cardinality(Observing)
            + Cardinality(delivered)
  BY <1>1, FourDisjoint DEF Places, Apart
<1>3. QED
  BY <1>1, <1>2 DEF Places, Numbered, Sums, EventsAccounted, Control, Types

\* An event number is in the queue, in a dispatch or in the callback, never 0.
LEMMA PlacesTyped ==
  ASSUME Control, Places
  PROVE  /\ Queued = Elements(eventChannel) /\ Dispatching = Carried(event)
         /\ Queued' = Elements(eventChannel') /\ Dispatching' = Carried(event')
         /\ NoEvent \notin Queued /\ NoEvent \notin Dispatching /\ NoEvent \notin delivered
         /\ committed + 1 \notin Queued \cup Dispatching \cup Observing \cup delivered
         /\ \A g \in Goroutine : event[g] # NoEvent => event[g] \in Dispatching
<1>1. /\ Queued = Elements(eventChannel) /\ Dispatching = Carried(event)
      /\ Queued' = Elements(eventChannel') /\ Dispatching' = Carried(event')
  BY DEF Queued, Elements, Dispatching, Carried
<1>2. committed \in Nat /\ 0 \notin 1..committed /\ committed + 1 \notin 1..committed
  BY DEF Control, Types
<1>3. QED
  BY <1>1, <1>2 DEF Places, Numbered, Carried, NoEvent

\* A step that moves no event.
LEMMA QuietKeepsPlaces ==
  ASSUME Places, Carriers', UNCHANGED <<committed, dropped, eventChannel, event, current, delivered>>
  PROVE  Places'
BY DEF Places, Apart, Numbered, Sums, Queued, Dispatching, Observing

\* Commit numbers a new event.
LEMMA CommitKeepsPlaces ==
  ASSUME Control, Places, NEW g \in Goroutine, Commit(g)
  PROVE  Places'
<1> USE ObserverAssumption
<1>t. Types /\ Worker \in Goroutine
  BY DEF Control, Goroutine
<1>1. event[g] = NoEvent /\ committed + 1 \in Nat \ {0} /\ pc[g] \in {"callback", "idle"}
  BY <1>t DEF Commit, Types, Places, Carriers, Home
<1>2. Carriers'
  BY <1>t, <1>1 DEF Commit, Goto, Types, Places, Carriers, NoEvent, workerVars
<1>3. /\ Queued' = Queued /\ Observing' = Observing /\ delivered' = delivered
      /\ Dispatching' = Dispatching \cup {committed + 1}
  <2>1. Carried(event') = Carried(event) \cup {committed + 1}
    BY <1>t, <1>1, CarriedOps DEF Commit, Types, NoEvent
  <2>2. QED
    BY <2>1, PlacesTyped DEF Commit, queueVars, workerVars, Queued, Observing
<1>4. committed + 1 \notin Queued \cup Dispatching \cup Observing \cup delivered
  BY PlacesTyped
<1>5. Apart'
  <2>1. ~Repeats(eventChannel')
    BY DEF Commit, queueVars, Places, Apart
  <2>2. \A h \in Goroutine : event[h] # committed + 1
    BY <1>4, <1>1, PlacesTyped DEF NoEvent
  <2>3. \A h, k \in Goroutine : event'[h] = event'[k] /\ event'[h] # NoEvent => h = k
    BY <2>2, <1>t DEF Commit, Types, Places, Apart
  <2>4. QED
    BY <2>1, <2>3, <1>3, <1>4 DEF Places, Apart
<1>6. Numbered'
  <2>1. 1..committed \subseteq 1..(committed + 1) /\ committed + 1 \in 1..(committed + 1)
    BY <1>t DEF Types
  <2>2. QED
    BY <2>1, <1>3 DEF Commit, Places, Numbered
<1>7. Sums'
  <2>1. /\ IsFiniteSet(Dispatching)
        /\ Cardinality(Queued) \in Nat /\ Cardinality(Dispatching) \in Nat
        /\ Cardinality(Observing) \in Nat /\ Cardinality(delivered) \in Nat
    BY <1>t, PlacesFinite DEF Types, Places
  <2>2. Cardinality(Dispatching') = Cardinality(Dispatching) + 1
    BY <2>1, <1>3, <1>4, FS_AddElement
  <2>3. QED
    <3>1. /\ committed' = committed + 1 /\ dropped' = dropped
          /\ Len(eventChannel') = Len(eventChannel)
      BY DEF Commit, queueVars
    <3>2. /\ Cardinality(Queued') = Cardinality(Queued)
          /\ Cardinality(Observing') = Cardinality(Observing)
          /\ Cardinality(delivered') = Cardinality(delivered)
      BY <1>3
    <3>3. QED
      BY <2>1, <2>2, <3>1, <3>2, <1>t DEF Places, Sums, Types
<1>8. QED
  BY <1>2, <1>5, <1>6, <1>7 DEF Places

\* The end of enqueue: the goroutine no longer carries its event.
LEMMA UnlockTakes ==
  ASSUME Control, Places, NEW g \in Goroutine, pc[g] \in {"enqueue", "resend"}, Unlock(g),
         UNCHANGED <<current, delivered>>
  PROVE  /\ Carriers'
         /\ event[g] \in Dispatching /\ event[g] \in Nat
         /\ Dispatching' = Dispatching \ {event[g]}
         /\ \A h, k \in Goroutine : event'[h] = event'[k] /\ event'[h] # NoEvent => h = k
<1> USE ObserverAssumption
<1>t. Types /\ Worker \in Goroutine
  BY DEF Control, Goroutine
<1>1. event[g] # NoEvent /\ event[g] \in Nat
  BY <1>t DEF Places, Carriers, Types
<1>2. Carriers'
  BY <1>t DEF Unlock, Goto, Home, Types, Places, Carriers, NoEvent
<1>3. \A h \in Goroutine : event[h] = event[g] => h = g
  BY <1>1 DEF Places, Apart
<1>4. Carried(event') = Carried(event) \ {event[g]}
  BY <1>t, <1>3, CarriedOps DEF Unlock, Types
<1>5. \A h, k \in Goroutine : event'[h] = event'[k] /\ event'[h] # NoEvent => h = k
  BY <1>t DEF Unlock, Types, Places, Apart
<1>6. QED
  BY <1>1, <1>2, <1>4, <1>5, PlacesTyped

\* A dropped event leaves every place, and is counted.
LEMMA RefuseKeepsPlaces ==
  ASSUME Control, Places, NEW g \in Goroutine, Refuse(g)
  PROVE  Places'
<1>t. Types
  BY DEF Control
<1>1. /\ Carriers' /\ event[g] \in Dispatching
      /\ Dispatching' = Dispatching \ {event[g]}
      /\ \A h, k \in Goroutine : event'[h] = event'[k] /\ event'[h] # NoEvent => h = k
  BY UnlockTakes DEF Refuse, workerVars
<1>2. /\ Queued' = Queued /\ Observing' = Observing /\ delivered' = delivered
      /\ eventChannel' = eventChannel /\ committed' = committed /\ dropped' = dropped + 1
  BY DEF Refuse, workerVars, Queued, Observing
<1>3. Apart'
  BY <1>1, <1>2 DEF Places, Apart
<1>4. Numbered'
  BY <1>1, <1>2 DEF Places, Numbered
<1>5. Sums'
  <2>1. /\ IsFiniteSet(Dispatching)
        /\ Cardinality(Queued) \in Nat /\ Cardinality(Dispatching) \in Nat
        /\ Cardinality(Observing) \in Nat /\ Cardinality(delivered) \in Nat
    BY <1>t, PlacesFinite DEF Types, Places
  <2>2. Cardinality(Dispatching') = Cardinality(Dispatching) - 1
    BY <2>1, <1>1, FS_RemoveElement
  <2>3. /\ Cardinality(Queued') = Cardinality(Queued) /\ Len(eventChannel') = Len(eventChannel)
        /\ Cardinality(Observing') = Cardinality(Observing)
        /\ Cardinality(delivered') = Cardinality(delivered)
        /\ committed' = committed /\ dropped' = dropped + 1
    BY <1>2
  <2>4. QED
    BY <2>1, <2>2, <2>3, <1>t DEF Places, Sums, Types
<1>6. QED
  BY <1>1, <1>3, <1>4, <1>5 DEF Places

\* A send moves the event into the queue.
LEMMA SendKeepsPlaces ==
  ASSUME Control, Places, NEW g \in Goroutine, Send(g) \/ Resend(g)
  PROVE  Places'
<1>t. Types
  BY DEF Control
<1>0. /\ pc[g] \in {"enqueue", "resend"} /\ Unlock(g)
      /\ eventChannel' = Append(eventChannel, event[g])
      /\ committed' = committed /\ dropped' = dropped
      /\ current' = current /\ delivered' = delivered /\ Observing' = Observing
  BY DEF Send, Resend, workerVars, Observing
<1>1. /\ Carriers' /\ event[g] \in Dispatching /\ event[g] \in Nat
      /\ Dispatching' = Dispatching \ {event[g]}
      /\ \A h, k \in Goroutine : event'[h] = event'[k] /\ event'[h] # NoEvent => h = k
  BY <1>0, UnlockTakes
<1>2. event[g] \notin Queued
  BY <1>1 DEF Places, Apart
<1>3. /\ Queued' = Queued \cup {event[g]} /\ ~Repeats(eventChannel')
      /\ Len(eventChannel') = Len(eventChannel) + 1 /\ Len(eventChannel) \in Nat
  <2>1. eventChannel \in Seq(Nat) /\ event[g] \notin Elements(eventChannel)
    BY <1>t, <1>2, PlacesTyped DEF Types
  <2>2. ~Repeats(eventChannel)
    BY DEF Places, Apart
  <2>3. /\ Elements(eventChannel') = Elements(eventChannel) \cup {event[g]}
        /\ ~Repeats(eventChannel')
    BY <2>1, <2>2, <1>0, <1>1, AppendElements
  <2>4. Len(eventChannel') = Len(eventChannel) + 1 /\ Len(eventChannel) \in Nat
    BY <2>1, <1>0, <1>1, QueueOps
  <2>5. QED
    BY <2>3, <2>4, PlacesTyped
<1>4. Apart'
  BY <1>0, <1>1, <1>2, <1>3 DEF Places, Apart
<1>5. Numbered'
  BY <1>0, <1>1, <1>3 DEF Places, Numbered
<1>6. Sums'
  <2>1. /\ IsFiniteSet(Dispatching) /\ IsFiniteSet(Queued)
        /\ Cardinality(Queued) \in Nat /\ Cardinality(Dispatching) \in Nat
        /\ Cardinality(Observing) \in Nat /\ Cardinality(delivered) \in Nat
    BY <1>t, PlacesFinite DEF Types, Places
  <2>2. Cardinality(Dispatching') = Cardinality(Dispatching) - 1
    BY <2>1, <1>1, FS_RemoveElement
  <2>3. Cardinality(Queued') = Cardinality(Queued) + 1
    BY <2>1, <1>2, <1>3, FS_AddElement
  <2>4. QED
    BY <2>1, <2>2, <2>3, <1>0, <1>3, <1>t DEF Places, Sums, Types
<1>7. QED
  BY <1>1, <1>4, <1>5, <1>6 DEF Places

\* The head leaves the queue.
LEMMA HeadTaken ==
  ASSUME Control, Places, eventChannel # <<>>, eventChannel' = Tail(eventChannel)
  PROVE  /\ Head(eventChannel) \in Queued
         /\ Queued' = Queued \ {Head(eventChannel)} /\ ~Repeats(eventChannel')
         /\ Len(eventChannel') = Len(eventChannel) - 1
         /\ Len(eventChannel) \in Nat /\ Cardinality(Queued) \in Nat
         /\ Cardinality(Queued') = Cardinality(Queued) - 1
<1>1. eventChannel \in Seq(Nat) /\ ~Repeats(eventChannel)
  BY DEF Control, Types, Places, Apart
<1>2. /\ Head(eventChannel) \in Elements(eventChannel)
      /\ Elements(eventChannel') = Elements(eventChannel) \ {Head(eventChannel)}
      /\ ~Repeats(eventChannel')
  BY <1>1, TailElements
<1>3. Len(eventChannel') = Len(eventChannel) - 1 /\ Len(eventChannel) \in Nat
  BY <1>1, QueueOps
<1>4. IsFiniteSet(Queued) /\ Cardinality(Queued) \in Nat
  BY PlacesFinite DEF Control, Types, Places
<1>5. Head(eventChannel) \in Queued /\ Queued' = Queued \ {Head(eventChannel)}
  BY <1>2, PlacesTyped
<1>6. Cardinality(Queued') = Cardinality(Queued) - 1
  BY <1>4, <1>5, FS_RemoveElement
<1>7. QED
  BY <1>2, <1>3, <1>4, <1>5, <1>6

\* An eviction takes the oldest event and counts it; of an empty queue, nothing.
LEMMA EvictKeepsPlaces ==
  ASSUME Control, Places, NEW g \in Goroutine, Evict(g)
  PROVE  Places'
<1> USE ObserverAssumption
<1>t. Types /\ Worker \in Goroutine
  BY DEF Control, Goroutine
<1>0. Carriers'
  BY <1>t DEF Evict, Goto, Types, Places, Carriers, NoEvent, workerVars
<1>1. CASE eventChannel = <<>>
  BY <1>0, <1>1, QuietKeepsPlaces DEF Evict, workerVars
<1>2. CASE eventChannel # <<>>
  <2>1. /\ eventChannel' = Tail(eventChannel) /\ dropped' = dropped + 1 /\ committed' = committed
        /\ event' = event /\ delivered' = delivered
        /\ Dispatching' = Dispatching /\ Observing' = Observing
    BY <1>2 DEF Evict, workerVars, Dispatching, Observing
  <2>2. /\ Queued' = Queued \ {Head(eventChannel)} /\ ~Repeats(eventChannel')
        /\ Len(eventChannel') = Len(eventChannel) - 1
        /\ Len(eventChannel) \in Nat /\ Cardinality(Queued) \in Nat
        /\ Cardinality(Queued') = Cardinality(Queued) - 1
    BY <1>2, <2>1, HeadTaken
  <2>3. Apart'
    BY <2>1, <2>2 DEF Places, Apart
  <2>4. Numbered'
    BY <2>1, <2>2 DEF Places, Numbered
  <2>5. Sums'
    <3>1. /\ Cardinality(Dispatching) \in Nat /\ Cardinality(Observing) \in Nat
          /\ Cardinality(delivered) \in Nat
      BY <1>t, PlacesFinite DEF Types, Places
    <3>2. /\ Cardinality(Dispatching') = Cardinality(Dispatching)
          /\ Cardinality(Observing') = Cardinality(Observing)
          /\ Cardinality(delivered') = Cardinality(delivered)
      BY <2>1
    <3>3. QED
      BY <2>1, <2>2, <3>1, <3>2, <1>t DEF Places, Sums, Types
  <2>6. QED
    BY <1>0, <2>3, <2>4, <2>5 DEF Places
<1>3. QED
  BY <1>1, <1>2

\* The worker takes the head to the callback.
LEMMA ReceiveKeepsPlaces ==
  ASSUME Control, Places, Receive
  PROVE  Places'
<1> USE ObserverAssumption
<1>t. Types /\ Worker \in Goroutine
  BY DEF Control, Goroutine
<1>1. /\ Head(eventChannel) \in Queued
      /\ Queued' = Queued \ {Head(eventChannel)} /\ ~Repeats(eventChannel')
      /\ Len(eventChannel') = Len(eventChannel) - 1
      /\ Len(eventChannel) \in Nat /\ Cardinality(Queued) \in Nat
      /\ Cardinality(Queued') = Cardinality(Queued) - 1
  BY HeadTaken DEF Receive
<1>2. Head(eventChannel) # NoEvent /\ current = NoEvent
  BY <1>1, PlacesTyped DEF Receive, Places, Carriers
<1>3. Carriers'
  BY <1>t, <1>2 DEF Receive, Goto, Types, Places, Carriers
<1>4. /\ Observing = {} /\ Observing' = {Head(eventChannel)}
      /\ Dispatching' = Dispatching /\ delivered' = delivered /\ event' = event
      /\ committed' = committed /\ dropped' = dropped
  BY <1>2 DEF Receive, Observing, Dispatching
<1>5. Apart'
  BY <1>1, <1>4 DEF Places, Apart
<1>6. Numbered'
  BY <1>1, <1>4 DEF Places, Numbered
<1>7. Sums'
  <2>1. /\ Cardinality(Dispatching) \in Nat /\ Cardinality(delivered) \in Nat
    BY <1>t, PlacesFinite DEF Types, Places
  <2>2. Cardinality(Observing) = 0 /\ Cardinality(Observing') = 1
    BY <1>4, FS_EmptySet, FS_Singleton
  <2>3. /\ Cardinality(Dispatching') = Cardinality(Dispatching)
        /\ Cardinality(delivered') = Cardinality(delivered)
        /\ committed' = committed /\ dropped' = dropped
    BY <1>4
  <2>4. /\ Len(eventChannel') = Len(eventChannel) - 1 /\ Len(eventChannel) \in Nat
        /\ Cardinality(Queued) \in Nat /\ Cardinality(Queued') = Cardinality(Queued) - 1
    BY <1>1
  <2>5. QED
    BY <2>1, <2>2, <2>3, <2>4, <1>t DEF Places, Sums, Types
<1>8. QED
  BY <1>3, <1>5, <1>6, <1>7 DEF Places

\* The callback's event has been delivered, whether it failed or not.
LEMMA CallbackKeepsPlaces ==
  ASSUME Control, Places, NEW failed, CallbackReturns(failed)
  PROVE  Places'
<1> USE ObserverAssumption
<1>t. Types /\ Worker \in Goroutine
  BY DEF Control, Goroutine
<1>1. current # NoEvent
  BY DEF CallbackReturns, Places, Carriers
<1>2. Carriers'
  BY <1>t DEF CallbackReturns, Goto, Types, Places, Carriers
<1>3. /\ Observing = {current} /\ Observing' = {} /\ delivered' = delivered \cup {current}
      /\ Queued' = Queued /\ Dispatching' = Dispatching /\ event' = event
      /\ eventChannel' = eventChannel /\ committed' = committed /\ dropped' = dropped
  BY <1>1 DEF CallbackReturns, Observing, Queued, Dispatching, queueVars
<1>4. Apart'
  BY <1>3 DEF Places, Apart
<1>5. Numbered'
  BY <1>3 DEF Places, Numbered
<1>6. Sums'
  <2>1. /\ IsFiniteSet(delivered) /\ Cardinality(delivered) \in Nat
        /\ Cardinality(Dispatching) \in Nat /\ Cardinality(Queued) \in Nat
    BY <1>t, PlacesFinite DEF Types, Places
  <2>2. Cardinality(Observing) = 1 /\ Cardinality(Observing') = 0
    BY <1>3, FS_EmptySet, FS_Singleton
  <2>3. current \notin delivered
    BY <1>3 DEF Places, Apart
  <2>4. Cardinality(delivered') = Cardinality(delivered) + 1
    BY <1>3, <2>1, <2>3, FS_AddElement
  <2>5. /\ Cardinality(Dispatching') = Cardinality(Dispatching)
        /\ Cardinality(Queued') = Cardinality(Queued) /\ Len(eventChannel') = Len(eventChannel)
        /\ committed' = committed /\ dropped' = dropped
    BY <1>3
  <2>6. QED
    BY <2>1, <2>2, <2>4, <2>5, <1>t DEF Places, Sums, Types
<1>7. QED
  BY <1>2, <1>4, <1>5, <1>6 DEF Places

\* Locking, Close, Shutdown and the end of the worker move no event.
LEMMA OthersKeepPlaces ==
  ASSUME Control, Places,
         \/ \E g \in Goroutine : \/ Lock(g) \/ Overflow(g)
                                 \/ CloseBegins(g) \/ CloseStores(g) \/ CloseStops(g)
         \/ \E c \in Client : ShutdownWaits(c) \/ ShutdownReturns(c) \/ ShutdownCanceled(c)
         \/ SeeStop \/ Finish
  PROVE  Places'
<1> USE ObserverAssumption
<1>t. Types /\ Worker \in Goroutine /\ Client \subseteq Goroutine
  BY DEF Control, Goroutine
<1>1. UNCHANGED <<committed, dropped, eventChannel, event, current, delivered>>
  BY DEF Lock, Overflow, CloseBegins, CloseStores, CloseStops, ShutdownWaits, ShutdownReturns,
         ShutdownCanceled, SeeStop, Finish, queueVars, workerVars
<1>2. ASSUME NEW g \in Goroutine, NEW label, Goto(g, label),
             pc[g] \in {"dispatch", "enqueue", "evict", "resend"}
               <=> label \in {"dispatch", "enqueue", "evict", "resend"},
             g = Worker => (pc[g] \in {"select", "drain", "done"}
                              <=> label \in {"select", "drain", "done"})
      PROVE  Carriers'
  BY <1>1, <1>2, <1>t DEF Goto, Types, Places, Carriers
<1>3. ASSUME NEW g \in Goroutine, Lock(g) \/ Overflow(g) PROVE Carriers'
  BY <1>2, <1>3 DEF Lock, Overflow
<1>4. ASSUME NEW g \in Goroutine, CloseBegins(g) \/ CloseStores(g) \/ CloseStops(g)
      PROVE  Carriers'
  BY <1>2, <1>4 DEF CloseBegins, CloseStores, CloseStops, Home
<1>5. ASSUME NEW c \in Client, ShutdownWaits(c) \/ ShutdownReturns(c) \/ ShutdownCanceled(c)
      PROVE  Carriers'
  BY <1>2, <1>5, <1>t DEF ShutdownWaits, ShutdownReturns, ShutdownCanceled
<1>6. CASE SeeStop \/ Finish
  BY <1>2, <1>6, <1>t, QuietKeepsPlaces, <1>1 DEF SeeStop, Finish
<1>7. QED
  BY <1>1, <1>3, <1>4, <1>5, <1>6, QuietKeepsPlaces

\* New starts with no event anywhere.
LEMMA InitPlaces == Init => Places
<1> SUFFICES ASSUME Init PROVE Places
  OBVIOUS
<1>1. Queued = {} /\ Dispatching = {} /\ Observing = {} /\ delivered = {}
  BY DEF Init, Queued, Dispatching, Observing
<1>2. Carriers
  BY DEF Init, Carriers, Goroutine
<1>3. Apart
  BY <1>1 DEF Init, Apart, Repeats
<1>4. Sums
  <2>1. Cardinality({}) = 0
    BY FS_EmptySet
  <2>2. QED
    BY <1>1, <2>1 DEF Init, Sums
<1>5. QED
  BY <1>1, <1>2, <1>3, <1>4 DEF Places, Numbered

\* Every step keeps it.
LEMMA PlacesStep == Control /\ Places /\ [Next]_vars => Places'
<1> SUFFICES ASSUME Control, Places, [Next]_vars PROVE Places'
  OBVIOUS
<1>1. CASE UNCHANGED vars
  BY <1>1
     DEF Places, Carriers, Apart, Numbered, Sums, Queued, Dispatching, Observing,
         vars, queueVars, closeVars, workerVars
<1>2. ASSUME NEW g \in Goroutine, Commit(g) PROVE Places'
  BY <1>2, CommitKeepsPlaces
<1>3. ASSUME NEW g \in Goroutine, Enqueue(g) PROVE Places'
  BY <1>3, RefuseKeepsPlaces, SendKeepsPlaces, EvictKeepsPlaces, OthersKeepPlaces DEF Enqueue
<1>4. CASE Work \/ \E failed \in BOOLEAN : CallbackReturns(failed)
  BY <1>4, ReceiveKeepsPlaces, CallbackKeepsPlaces, OthersKeepPlaces DEF Work
<1>5. QED
  BY <1>1, <1>2, <1>3, <1>4, OthersKeepPlaces DEF Next

(***************************************************************************)
(* Whatever producers, worker and Close do in whatever order, each         *)
(* committed event is in one place, was delivered once, or was counted in  *)
(* dropped once.                                                           *)
(***************************************************************************)
THEOREM EventsCounted == Spec => []EventsAccounted
<1>1. Init => Control /\ Places
  BY InitControl, InitPlaces
<1>2. Control /\ Places /\ [Next]_vars => (Control /\ Places)'
  BY ControlStep, PlacesStep
<1>3. Control /\ Places => EventsAccounted
  BY PlacesAccount
<1>4. QED
  BY <1>1, <1>2, <1>3, PTL DEF Spec

=============================================================================
