------------------------ MODULE SessionTurns_proofs ------------------------
(***************************************************************************)
(* Proofs about SessionTurns, for any number of turns, Session objects and *)
(* client operations: the queue of a session keeps a turn that will        *)
(* dispatch it, in_flight_turn names a running turn, and a retry that      *)
(* joined a turn is told what became of it.                                *)
(***************************************************************************)
EXTENDS SessionTurns, TLAPS

(***************************************************************************)
(* Sequences of turns in which no turn occurs twice.                       *)
(***************************************************************************)
Elems(s) == {s[i] : i \in DOMAIN s}
Wf(s) == s \in Seq(Turns) /\ \A i, j \in DOMAIN s : s[i] = s[j] => i = j

\* The empty sequence.
LEMMA EmptyWf == Wf(<<>>) /\ Elems(<<>>) = {}
  BY DEF Wf, Elems

\* A sequence is empty exactly when it has no elements, which are turns.
LEMMA ElemsOf ==
  ASSUME NEW s, Wf(s)
  PROVE  /\ s \in Seq(Turns) /\ Elems(s) \subseteq Turns
         /\ s = <<>> <=> Elems(s) = {}
  <1>1. s \in Seq(Turns) /\ DOMAIN s = 1..Len(s) /\ Len(s) \in Nat
    BY DEF Wf
  <1>2. Elems(s) \subseteq Turns
    BY <1>1 DEF Elems
  <1>3. ASSUME s # <<>> PROVE Elems(s) # {}
    <2>1. 1 \in DOMAIN s
      BY <1>1, <1>3
    <2> QED BY <2>1 DEF Elems
  <1>4. ASSUME s = <<>> PROVE Elems(s) = {}
    BY <1>4, EmptyWf
  <1> QED BY <1>1, <1>2, <1>3, <1>4

\* Taking the head of the queue.
LEMMA TailWf ==
  ASSUME NEW s, Wf(s), s # <<>>
  PROVE  /\ Wf(Tail(s)) /\ Head(s) \in Elems(s) /\ Head(s) \in Turns
         /\ Elems(Tail(s)) = Elems(s) \ {Head(s)}
  <1>1. /\ s \in Seq(Turns) /\ DOMAIN s = 1..Len(s) /\ Len(s) \in Nat /\ Len(s) > 0
        /\ \A i, j \in 1..Len(s) : s[i] = s[j] => i = j
    BY DEF Wf
  <1>2. /\ Tail(s) \in Seq(Turns) /\ Len(Tail(s)) = Len(s) - 1
        /\ DOMAIN Tail(s) = 1..(Len(s) - 1)
        /\ \A i \in 1..(Len(s) - 1) : Tail(s)[i] = s[i + 1]
    BY <1>1
  <1>3. Head(s) = s[1]
    BY <1>1
  <1>4. Wf(Tail(s))
    BY <1>1, <1>2 DEF Wf
  <1>5. Head(s) \in Elems(s) /\ Head(s) \in Turns
    BY <1>1, <1>3 DEF Elems
  <1>6. ASSUME NEW x \in Elems(Tail(s)) PROVE x \in Elems(s) \ {Head(s)}
    <2>1. PICK i \in 1..(Len(s) - 1) : x = s[i + 1]
      BY <1>2 DEF Elems
    <2>2. i + 1 \in 1..Len(s) /\ i + 1 # 1 /\ 1 \in 1..Len(s)
      BY <1>1
    <2>3. x # s[1]
      BY <2>1, <2>2, <1>1
    <2> QED BY <2>1, <2>2, <2>3, <1>1, <1>3 DEF Elems
  <1>7. ASSUME NEW x \in Elems(s) \ {Head(s)} PROVE x \in Elems(Tail(s))
    <2>1. PICK i \in 1..Len(s) : x = s[i]
      BY <1>1 DEF Elems
    <2>2. i # 1
      BY <2>1, <1>3
    <2>3. i - 1 \in 1..(Len(s) - 1) /\ (i - 1) + 1 = i
      BY <2>2, <1>1
    <2>4. Tail(s)[i - 1] = x
      BY <2>1, <2>3, <1>2
    <2> QED BY <2>3, <2>4, <1>2 DEF Elems
  <1> QED BY <1>4, <1>5, <1>6, <1>7

\* Appending a turn that is not there.
LEMMA AppendWf ==
  ASSUME NEW s, Wf(s), NEW t \in Turns, t \notin Elems(s)
  PROVE  /\ Wf(Append(s, t)) /\ Elems(Append(s, t)) = Elems(s) \cup {t}
         /\ Append(s, t) # <<>>
  <1>1. /\ s \in Seq(Turns) /\ DOMAIN s = 1..Len(s) /\ Len(s) \in Nat
        /\ \A i, j \in 1..Len(s) : s[i] = s[j] => i = j
    BY DEF Wf
  <1>2. \A i \in 1..Len(s) : s[i] # t
    BY <1>1 DEF Elems
  <1> DEFINE a == Append(s, t)
  <1>3. /\ a \in Seq(Turns) /\ Len(a) = Len(s) + 1 /\ DOMAIN a = 1..(Len(s) + 1)
        /\ a[Len(s) + 1] = t /\ \A i \in 1..Len(s) : a[i] = s[i]
    BY <1>1
  <1> HIDE DEF a
  <1>4. Wf(a)
    <2>1. ASSUME NEW i \in 1..(Len(s) + 1), NEW j \in 1..(Len(s) + 1), a[i] = a[j]
          PROVE  i = j
      <3>1. i \in 1..Len(s) \/ i = Len(s) + 1
        BY <1>1
      <3>2. j \in 1..Len(s) \/ j = Len(s) + 1
        BY <1>1
      <3> QED BY <2>1, <3>1, <3>2, <1>1, <1>2, <1>3
    <2> QED BY <1>3, <2>1 DEF Wf
  <1>5. ASSUME NEW x \in Elems(a) PROVE x \in Elems(s) \cup {t}
    <2>1. PICK i \in 1..(Len(s) + 1) : x = a[i]
      BY <1>3 DEF Elems
    <2>2. i \in 1..Len(s) \/ i = Len(s) + 1
      BY <1>1
    <2> QED BY <2>1, <2>2, <1>1, <1>3 DEF Elems
  <1>6. ASSUME NEW x \in Elems(s) \cup {t} PROVE x \in Elems(a)
    <2>1. CASE x = t
      <3>1. Len(s) + 1 \in 1..(Len(s) + 1)
        BY <1>1
      <3> QED BY <2>1, <3>1, <1>3 DEF Elems
    <2>2. CASE x \in Elems(s)
      <3>1. PICK i \in 1..Len(s) : x = s[i]
        BY <2>2, <1>1 DEF Elems
      <3>2. i \in 1..(Len(s) + 1)
        BY <1>1
      <3> QED BY <3>1, <3>2, <1>3 DEF Elems
    <2> QED BY <2>1, <2>2
  <1>7. a # <<>>
    BY <1>1, <1>3
  <1> QED BY <1>4, <1>5, <1>6, <1>7 DEF a

(***************************************************************************)
(* The inductive invariant.                                                *)
(***************************************************************************)

\* Where a turn is that nothing in a queue or in_flight_turn refers to.
Idle == {"new", "loading", "lookup", "onFlight", "onQueue", "over"}

\* Every queue holds turns of its own object that wait for it, each once.
QueuesAreSound ==
  \A o \in Objects : /\ Wf(queue[o])
                     /\ \A t \in Elems(queue[o]) : pc[t] = "queued" /\ of[t] = o

\* Every dispatched task is a turn that was popped, each once.
ReadyIsSound == Wf(ready) /\ \A t \in Elems(ready) : pc[t] = "popped"

\* A turn on its way into or through _run_turn_core holds a Session object.
HoldsObject ==
  \A t \in Turns : pc[t] \in Core \cup {"lookup", "queued", "popped"} => of[t] \in Objects

TurnInv ==
  /\ QueuesAreSound
  /\ ReadyIsSound
  /\ HoldsObject
  /\ InFlightIsRunning
  /\ QueueHasDriver

\* The part of the state the invariant is about, and its types.
coreVars == <<queue, ready, inflight, pc, of, wedged>>

CoreTypes ==
  /\ table \in Objects \cup {None}
  /\ inflight \in [Objects -> Turns \cup {None}]
  /\ DOMAIN queue = Objects
  /\ pc \in [Turns -> Pcs]
  /\ of \in [Turns -> Objects \cup {None}]

\* QueueHasDriver in the words of this module.
LEMMA DriverOf ==
  ASSUME \A o \in Objects : Wf(queue[o])
  PROVE  QueueHasDriver <=>
           \A o \in Objects \ wedged : Elems(queue[o]) # {} =>
             \E t \in Turns : of[t] = o /\ pc[t] \in Core \cup {"popped"}
  BY ElemsOf, Zenon DEF QueueHasDriver, Drivers

\* A step that moves one idle turn to another idle place, or one running turn
\* along, and leaves queues, dispatched tasks and in_flight_turn alone.
LEMMA QuietStep ==
  ASSUME CoreTypes, CoreTypes', TurnInv,
         UNCHANGED <<queue, ready, inflight>>, wedged \subseteq wedged',
         NEW t \in Turns,
         \A u \in Turns \ {t} : pc'[u] = pc[u] /\ of'[u] = of[u],
         \/ /\ pc[t] \in Idle /\ pc'[t] \in Idle
            /\ pc'[t] = "lookup" => of'[t] \in Objects
         \/ pc[t] \in Core /\ pc'[t] \in Core /\ of'[t] = of[t]
  PROVE  TurnInv'
  <1>1. QueuesAreSound'
    <2> SUFFICES ASSUME NEW o \in Objects
                 PROVE  /\ Wf(queue'[o])
                        /\ \A u \in Elems(queue'[o]) : pc'[u] = "queued" /\ of'[u] = o
      BY Zenon DEF QueuesAreSound
    <2>1. Wf(queue[o]) /\ \A u \in Elems(queue[o]) : pc[u] = "queued" /\ of[u] = o
      BY DEF TurnInv, QueuesAreSound
    <2>2. Elems(queue[o]) \subseteq Turns \ {t}
      BY <2>1, ElemsOf DEF Idle, Core
    <2> QED BY <2>1, <2>2
  <1>2. ReadyIsSound'
    <2>1. Wf(ready) /\ \A u \in Elems(ready) : pc[u] = "popped"
      BY DEF TurnInv, ReadyIsSound
    <2>2. Elems(ready) \subseteq Turns \ {t}
      BY <2>1, ElemsOf DEF Idle, Core
    <2>3. Wf(ready') /\ \A u \in Elems(ready') : pc'[u] = "popped"
      BY <2>1, <2>2
    <2> QED BY <2>3 DEF ReadyIsSound
  <1>3. HoldsObject'
    BY DEF TurnInv, HoldsObject, Idle, Core, CoreTypes
  <1>4. InFlightIsRunning'
    BY DEF TurnInv, InFlightIsRunning, Idle, Core, CoreTypes
  <1>5. QueueHasDriver'
    <2>1. \A o \in Objects : Wf(queue[o]) /\ Wf(queue'[o])
      BY <1>1 DEF TurnInv, QueuesAreSound
    <2>2. \A o \in Objects \ wedged' : Elems(queue'[o]) # {} =>
             \E u \in Turns : of'[u] = o /\ pc'[u] \in Core \cup {"popped"}
      <3> SUFFICES ASSUME NEW o \in Objects \ wedged', Elems(queue'[o]) # {}
                   PROVE  \E u \in Turns : of'[u] = o /\ pc'[u] \in Core \cup {"popped"}
        OBVIOUS
      <3>1. PICK u \in Turns : of[u] = o /\ pc[u] \in Core \cup {"popped"}
        BY <2>1, DriverOf DEF TurnInv
      <3>2. of'[u] = o /\ pc'[u] \in Core \cup {"popped"}
        BY <3>1 DEF Idle, Core
      <3> QED BY <3>2
    <2> QED BY <2>1, <2>2, ElemsOf, Zenon DEF QueueHasDriver, Drivers
  <1> QED BY <1>1, <1>2, <1>3, <1>4, <1>5 DEF TurnInv

\* What a step that can disturb a queue has to show: the other parts of the
\* invariant, and for every queue that is not empty a turn that will dispatch it.
LEMMA Combine ==
  ASSUME QueuesAreSound', ReadyIsSound', HoldsObject', InFlightIsRunning',
         \A o \in Objects \ wedged' : Elems(queue'[o]) # {} =>
           \E u \in Turns : of'[u] = o /\ pc'[u] \in Core \cup {"popped"}
  PROVE  TurnInv'
  <1>1. QueueHasDriver'
    BY ElemsOf, Zenon DEF QueueHasDriver, Drivers, QueuesAreSound
  <1> QED BY <1>1 DEF TurnInv

\* The invariant, unfolded.
LEMMA Unfold ==
  ASSUME CoreTypes, TurnInv
  PROVE  /\ \A o \in Objects : /\ Wf(queue[o]) /\ Elems(queue[o]) \subseteq Turns
                               /\ \A t \in Elems(queue[o]) : pc[t] = "queued" /\ of[t] = o
                               /\ queue[o] = <<>> <=> Elems(queue[o]) = {}
         /\ Wf(ready) /\ Elems(ready) \subseteq Turns
         /\ \A t \in Elems(ready) : pc[t] = "popped"
         /\ \A o \in Objects \ wedged : Elems(queue[o]) # {} =>
              \E u \in Turns : of[u] = o /\ pc[u] \in Core \cup {"popped"}
  <1>1. \A o \in Objects : /\ Wf(queue[o])
                           /\ \A t \in Elems(queue[o]) : pc[t] = "queued" /\ of[t] = o
    BY DEF TurnInv, QueuesAreSound
  <1>2. Wf(ready) /\ \A t \in Elems(ready) : pc[t] = "popped"
    BY DEF TurnInv, ReadyIsSound
  <1>3. \A o \in Objects : /\ Elems(queue[o]) \subseteq Turns
                           /\ queue[o] = <<>> <=> Elems(queue[o]) = {}
    BY <1>1, ElemsOf
  <1>4. Elems(ready) \subseteq Turns
    BY <1>2, ElemsOf
  <1>5. \A o \in Objects \ wedged : Elems(queue[o]) # {} =>
              \E u \in Turns : of[u] = o /\ pc[u] \in Core \cup {"popped"}
    BY <1>1, DriverOf, Zenon DEF TurnInv
  <1> QED BY <1>1, <1>2, <1>3, <1>4, <1>5

\* A turn starts: inline from its request, or the oldest dispatched task.
LEMMA StartStep ==
  ASSUME CoreTypes, TurnInv, NEW t \in Turns, NEW o \in Objects,
         BeginCore(t, o), of' = [of EXCEPT ![t] = o],
         UNCHANGED <<queue, wedged>>,
         \/ pc[t] \in Idle /\ UNCHANGED ready
         \/ ready # <<>> /\ t = Head(ready) /\ ready' = Tail(ready) /\ of[t] = o
  PROVE  TurnInv'
  <1>1. /\ \A u \in Turns \ {t} : pc'[u] = pc[u] /\ of'[u] = of[u]
        /\ pc'[t] = "setup" /\ of'[t] = o
        /\ \A p \in Objects : inflight'[p] = IF p = o THEN t ELSE inflight[p]
    BY DEF BeginCore, CoreTypes
  <1>2. pc[t] \in Idle \cup {"popped"}
    BY Unfold, TailWf
  <1>3. QueuesAreSound'
    <2>1. \A p \in Objects : \A u \in Elems(queue[p]) : u # t
      BY <1>2, Unfold DEF Idle
    <2>2. \A p \in Objects : /\ Wf(queue'[p])
                             /\ \A u \in Elems(queue'[p]) : pc'[u] = "queued" /\ of'[u] = p
      BY <2>1, <1>1, Unfold
    <2> QED BY <2>2 DEF QueuesAreSound
  <1>4. ReadyIsSound'
    <2>1. Wf(ready') /\ Elems(ready') \subseteq Elems(ready) \ {t}
      <3>1. CASE pc[t] \in Idle /\ UNCHANGED ready
        BY <3>1, Unfold DEF Idle
      <3>2. CASE ready # <<>> /\ t = Head(ready) /\ ready' = Tail(ready) /\ of[t] = o
        BY <3>2, Unfold, TailWf
      <3> QED BY <3>1, <3>2
    <2>2. \A u \in Elems(ready') : pc'[u] = "popped"
      BY <2>1, <1>1, Unfold
    <2> QED BY <2>1, <2>2 DEF ReadyIsSound
  <1>5. HoldsObject'
    BY <1>1 DEF TurnInv, HoldsObject, Core
  <1>6. InFlightIsRunning'
    BY <1>1, <1>2 DEF TurnInv, InFlightIsRunning, Core, Idle
  <1>7. ASSUME NEW p \in Objects \ wedged', Elems(queue'[p]) # {}
        PROVE  \E u \in Turns : of'[u] = p /\ pc'[u] \in Core \cup {"popped"}
    <2>1. PICK u \in Turns : of[u] = p /\ pc[u] \in Core \cup {"popped"}
      BY <1>7, Unfold
    <2>2. CASE u # t
      BY <2>1, <2>2, <1>1
    <2>3. CASE u = t /\ p = o
      BY <2>3, <1>1 DEF Core
    <2>4. CASE u = t /\ p # o
      BY <2>4, <2>1 DEF Idle, Core
    <2> QED BY <2>2, <2>3, <2>4
  <1> QED BY <1>3, <1>4, <1>5, <1>6, <1>7, Combine

\* A turn joins the queue, whose head is dispatched when no turn is in flight.
LEMMA EnqueueStep ==
  ASSUME CoreTypes, TurnInv, NEW t \in Turns, NEW o \in Objects, pc[t] \in Idle,
         _enqueue_turn(t, o), of' = [of EXCEPT ![t] = o], UNCHANGED <<inflight, wedged>>
  PROVE  TurnInv'
  <1> DEFINE q == Append(queue[o], t)
  <1>1. t \notin Elems(queue[o]) /\ t \notin Elems(ready)
    BY Unfold DEF Idle
  <1>2. Wf(q) /\ Elems(q) = Elems(queue[o]) \cup {t} /\ q # <<>>
    BY <1>1, Unfold, AppendWf
  <1>3. of'[t] = o /\ \A u \in Turns \ {t} : of'[u] = of[u]
    BY DEF CoreTypes
  <1>4. CASE inflight[o] = None
    <2> DEFINE h == Head(q)
    <2>1. /\ \A p \in Objects : queue'[p] = IF p = o THEN Tail(q) ELSE queue[p]
          /\ ready' = Append(ready, h)
          /\ pc' = [pc EXCEPT ![t] = "queued", ![h] = "popped"]
      BY <1>4 DEF _enqueue_turn, CoreTypes
    <2>2. /\ Wf(Tail(q)) /\ h \in Elems(q) /\ h \in Turns
          /\ Elems(Tail(q)) = Elems(q) \ {h}
      BY <1>2, TailWf
    <2> HIDE DEF q, h
    <2>3. h = t \/ h \in Elems(queue[o])
      BY <1>2, <2>2
    <2>4. /\ pc'[h] = "popped"
          /\ h # t => pc'[t] = "queued"
          /\ \A u \in Turns \ {t, h} : pc'[u] = pc[u]
      BY <2>1, <2>2 DEF CoreTypes
    <2>5. pc[h] \in Idle \cup {"queued"} /\ of'[h] = o
      BY <2>3, <1>3, Unfold
    <2>6. QueuesAreSound'
      <3> SUFFICES ASSUME NEW p \in Objects
                   PROVE  /\ Wf(queue'[p])
                          /\ \A u \in Elems(queue'[p]) : pc'[u] = "queued" /\ of'[u] = p
        BY Zenon DEF QueuesAreSound
      <3>1. CASE p = o
        <4>1. queue'[p] = Tail(q)
          BY <3>1, <2>1
        <4>2. ASSUME NEW u \in Elems(Tail(q)) PROVE pc'[u] = "queued" /\ of'[u] = p
          <5>1. u # h /\ (u = t \/ u \in Elems(queue[o])) /\ u \in Turns
            BY <2>2, <1>2, Unfold
          <5> QED BY <5>1, <3>1, <2>4, <1>3, Unfold
        <4> QED BY <4>1, <4>2, <2>2
      <3>2. CASE p # o
        <4>1. queue'[p] = queue[p]
          BY <3>2, <2>1
        <4>2. ASSUME NEW u \in Elems(queue[p]) PROVE pc'[u] = "queued" /\ of'[u] = p
          <5>1. u \in Turns /\ pc[u] = "queued" /\ of[u] = p
            BY Unfold
          <5>2. u # t /\ u # h
            BY <5>1, <2>3, <3>2, Unfold DEF Idle
          <5> QED BY <5>1, <5>2, <2>4, <1>3
        <4> QED BY <4>1, <4>2, Unfold
      <3> QED BY <3>1, <3>2
    <2>7. ReadyIsSound'
      <3>1. h \notin Elems(ready)
        BY <2>5, Unfold DEF Idle
      <3>2. Wf(ready') /\ Elems(ready') = Elems(ready) \cup {h}
        BY <3>1, <2>1, <2>2, Unfold, AppendWf
      <3>3. \A u \in Elems(ready) : u # t /\ u # h /\ u \in Turns /\ pc[u] = "popped"
        BY <3>1, <1>1, Unfold
      <3> QED BY <3>2, <3>3, <2>4 DEF ReadyIsSound
    <2>8. HoldsObject'
      BY <2>4, <2>5, <1>3 DEF TurnInv, HoldsObject
    <2>9. InFlightIsRunning'
      BY <2>4, <2>5, <1>3 DEF TurnInv, InFlightIsRunning, Core, Idle
    <2>10. ASSUME NEW p \in Objects \ wedged', Elems(queue'[p]) # {}
           PROVE  \E u \in Turns : of'[u] = p /\ pc'[u] \in Core \cup {"popped"}
      <3>1. CASE p = o
        BY <3>1, <2>2, <2>4, <2>5
      <3>2. CASE p # o
        <4>1. queue'[p] = queue[p]
          BY <3>2, <2>1
        <4>2. PICK u \in Turns : of[u] = p /\ pc[u] \in Core \cup {"popped"}
          BY <4>1, <2>10, Unfold
        <4>3. u # t /\ u # h
          BY <4>2, <2>5 DEF Idle, Core
        <4> QED BY <4>2, <4>3, <2>4, <1>3
      <3> QED BY <3>1, <3>2
    <2> QED BY <2>6, <2>7, <2>8, <2>9, <2>10, Combine
  <1>5. CASE inflight[o] # None
    <2>1. /\ \A p \in Objects : queue'[p] = IF p = o THEN q ELSE queue[p]
          /\ ready' = ready
          /\ pc' = [pc EXCEPT ![t] = "queued"]
      BY <1>5 DEF _enqueue_turn, CoreTypes
    <2> HIDE DEF q
    <2>2. pc'[t] = "queued" /\ \A u \in Turns \ {t} : pc'[u] = pc[u]
      BY <2>1 DEF CoreTypes
    <2>3. QueuesAreSound'
      <3> SUFFICES ASSUME NEW p \in Objects
                   PROVE  /\ Wf(queue'[p])
                          /\ \A u \in Elems(queue'[p]) : pc'[u] = "queued" /\ of'[u] = p
        BY Zenon DEF QueuesAreSound
      <3>1. \A u \in Elems(queue[p]) : /\ u \in Turns /\ pc[u] = "queued" /\ of[u] = p
                                       /\ u # t
        BY Unfold DEF Idle
      <3>2. \A u \in Elems(queue[p]) : pc'[u] = "queued" /\ of'[u] = p
        BY <3>1, <2>2, <1>3
      <3>3. CASE p = o
        BY <3>2, <3>3, <2>1, <2>2, <1>2, <1>3
      <3>4. CASE p # o
        BY <3>2, <3>4, <2>1, Unfold
      <3> QED BY <3>3, <3>4
    <2>4. ReadyIsSound'
      BY <1>1, <2>1, <2>2, Unfold DEF ReadyIsSound
    <2>5. HoldsObject'
      BY <2>2, <1>3 DEF TurnInv, HoldsObject
    <2>6. InFlightIsRunning'
      BY <2>2, <1>3 DEF TurnInv, InFlightIsRunning, Core, Idle
    <2>7. ASSUME NEW p \in Objects \ wedged', Elems(queue'[p]) # {}
          PROVE  \E u \in Turns : of'[u] = p /\ pc'[u] \in Core \cup {"popped"}
      <3>1. PICK u \in Turns : of[u] = p /\ pc[u] \in Core \cup {"popped"}
        <4>1. CASE p = o
          <5>1. inflight[o] \in Turns
            BY <1>5 DEF CoreTypes
          <5> QED BY <4>1, <5>1, <2>7 DEF TurnInv, InFlightIsRunning
        <4>2. CASE p # o
          BY <4>2, <2>1, <2>7, Unfold
        <4> QED BY <4>1, <4>2
      <3>2. u # t
        BY <3>1 DEF Idle, Core
      <3> QED BY <3>1, <3>2, <2>2, <1>3
    <2> QED BY <2>3, <2>4, <2>5, <2>6, <2>7, Combine
  <1> QED BY <1>4, <1>5

\* A reload puts a fresh object in the place of one nothing refers to; a gateway
\* turn that waited for it is dispatched at once.
LEMMA LoadStep ==
  ASSUME CoreTypes, TurnInv, NEW o \in Objects, Free(o), UNCHANGED wedged,
         inflight' = [inflight EXCEPT ![o] = None],
         queue' = [queue EXCEPT ![o] = <<>>],
         \/ UNCHANGED <<ready, pc, of>>
         \/ \E t \in Turns : /\ pc[t] = "loading" /\ ready' = Append(ready, t)
                             /\ pc' = [pc EXCEPT ![t] = "popped"]
                             /\ of' = [of EXCEPT ![t] = o]
  PROVE  TurnInv'
  <1>1. /\ \A p \in Objects : queue'[p] = IF p = o THEN <<>> ELSE queue[p]
        /\ \A p \in Objects : inflight'[p] = IF p = o THEN None ELSE inflight[p]
    BY DEF CoreTypes
  <1>2. \A u \in Turns : pc[u] \in Core \cup {"queued", "popped"} =>
          pc'[u] = pc[u] /\ of'[u] = of[u]
    BY DEF CoreTypes, Core
  <1>3. QueuesAreSound'
    <2>1. \A p \in Objects : \A u \in Elems(queue[p]) : pc'[u] = "queued" /\ of'[u] = p
      BY <1>2, Unfold
    <2>2. \A p \in Objects : /\ Wf(queue'[p])
                             /\ \A u \in Elems(queue'[p]) : pc'[u] = "queued" /\ of'[u] = p
      BY <2>1, <1>1, Unfold, EmptyWf
    <2> QED BY <2>2 DEF QueuesAreSound
  <1>4. ReadyIsSound'
    <2>1. \A u \in Elems(ready) : pc'[u] = "popped"
      BY <1>2, Unfold
    <2>2. CASE UNCHANGED <<ready, pc, of>>
      BY <2>1, <2>2, Unfold DEF ReadyIsSound
    <2>3. ASSUME NEW t \in Turns, pc[t] = "loading", ready' = Append(ready, t),
                 pc' = [pc EXCEPT ![t] = "popped"]
          PROVE  ReadyIsSound'
      <3>1. t \notin Elems(ready)
        BY <2>3, Unfold
      <3>2. Wf(ready') /\ Elems(ready') = Elems(ready) \cup {t}
        BY <3>1, <2>3, Unfold, AppendWf
      <3>3. pc'[t] = "popped"
        BY <2>3 DEF CoreTypes
      <3>4. \A u \in Elems(ready') : pc'[u] = "popped"
        BY <3>2, <3>3, <2>1
      <3> QED BY <3>2, <3>4 DEF ReadyIsSound
    <2> QED BY <2>2, <2>3
  <1>5. HoldsObject'
    BY DEF CoreTypes, TurnInv, HoldsObject
  <1>6. InFlightIsRunning'
    BY <1>1, <1>2, TurnsAssumption DEF TurnInv, InFlightIsRunning
  <1>7. ASSUME NEW p \in Objects \ wedged', Elems(queue'[p]) # {}
        PROVE  \E u \in Turns : of'[u] = p /\ pc'[u] \in Core \cup {"popped"}
    <2>1. queue'[p] = queue[p]
      BY <1>1, <1>7, EmptyWf
    <2>2. PICK u \in Turns : of[u] = p /\ pc[u] \in Core \cup {"popped"}
      BY <2>1, <1>7, Unfold
    <2> QED BY <2>2, <1>2
  <1> QED BY <1>3, <1>4, <1>5, <1>6, <1>7, Combine

\* The end of a finally clause: in_flight_turn is cleared and the queue moves on.
LEMMA CloseStep ==
  ASSUME CoreTypes, TurnInv, NEW t \in Turns, NEW o \in Objects,
         pc[t] = "closing", of[t] = o, ClearInFlight(o), _maybe_dispatch_next(t, o),
         of' = [of EXCEPT ![t] = None], UNCHANGED wedged
  PROVE  TurnInv'
  <1>1. /\ of'[t] = None /\ \A u \in Turns \ {t} : of'[u] = of[u]
        /\ \A p \in Objects : inflight'[p] = IF p = o THEN None ELSE inflight[p]
    BY DEF CoreTypes, ClearInFlight
  <1>2. CASE queue[o] # <<>>
    <2> DEFINE h == Head(queue[o])
    <2>1. /\ \A p \in Objects : queue'[p] = IF p = o THEN Tail(queue[o]) ELSE queue[p]
          /\ ready' = Append(ready, h)
          /\ pc' = [pc EXCEPT ![t] = "over", ![h] = "popped"]
      BY <1>2 DEF _maybe_dispatch_next, CoreTypes
    <2>2. /\ Wf(Tail(queue[o])) /\ h \in Elems(queue[o]) /\ h \in Turns
          /\ Elems(Tail(queue[o])) = Elems(queue[o]) \ {h}
      BY <1>2, TailWf, Unfold
    <2> HIDE DEF h
    <2>3. pc[h] = "queued" /\ of[h] = o /\ h # t
      BY <2>2, Unfold
    <2>4. /\ pc'[t] = "over" /\ pc'[h] = "popped"
          /\ \A u \in Turns \ {t, h} : pc'[u] = pc[u]
      BY <2>1, <2>2, <2>3 DEF CoreTypes
    <2>5. QueuesAreSound'
      <3> SUFFICES ASSUME NEW p \in Objects
                   PROVE  /\ Wf(queue'[p])
                          /\ \A u \in Elems(queue'[p]) : pc'[u] = "queued" /\ of'[u] = p
        BY Zenon DEF QueuesAreSound
      <3>1. Wf(queue'[p]) /\ Elems(queue'[p]) \subseteq Elems(queue[p]) \ {h}
        <4>1. CASE p = o
          BY <4>1, <2>1, <2>2
        <4>2. CASE p # o
          BY <4>2, <2>1, <2>3, Unfold
        <4> QED BY <4>1, <4>2
      <3>2. \A u \in Elems(queue[p]) : u \in Turns /\ pc[u] = "queued" /\ of[u] = p /\ u # t
        BY Unfold
      <3> QED BY <3>1, <3>2, <2>4, <1>1
    <2>6. ReadyIsSound'
      <3>1. \A u \in Elems(ready) : u \in Turns /\ pc[u] = "popped" /\ u # t /\ u # h
        BY <2>3, Unfold
      <3>2. Wf(ready') /\ Elems(ready') = Elems(ready) \cup {h}
        BY <3>1, <2>1, <2>2, Unfold, AppendWf
      <3> QED BY <3>1, <3>2, <2>4 DEF ReadyIsSound
    <2>7. HoldsObject'
      BY <2>3, <2>4, <1>1 DEF TurnInv, HoldsObject, Core
    <2>8. InFlightIsRunning'
      BY <2>3, <2>4, <1>1, TurnsAssumption DEF TurnInv, InFlightIsRunning, Core
    <2>9. ASSUME NEW p \in Objects \ wedged', Elems(queue'[p]) # {}
          PROVE  \E u \in Turns : of'[u] = p /\ pc'[u] \in Core \cup {"popped"}
      <3>1. CASE p = o
        BY <3>1, <2>2, <2>3, <2>4, <1>1
      <3>2. CASE p # o
        <4>1. PICK u \in Turns : of[u] = p /\ pc[u] \in Core \cup {"popped"}
          BY <3>2, <2>1, <2>9, Unfold
        <4>2. u # t /\ u # h
          BY <4>1, <3>2, <2>3
        <4> QED BY <4>1, <4>2, <2>4, <1>1
      <3> QED BY <3>1, <3>2
    <2> QED BY <2>5, <2>6, <2>7, <2>8, <2>9, Combine
  <1>3. CASE queue[o] = <<>>
    <2>1. queue' = queue /\ ready' = ready /\ pc' = [pc EXCEPT ![t] = "over"]
      BY <1>3 DEF _maybe_dispatch_next
    <2>2. pc'[t] = "over" /\ \A u \in Turns \ {t} : pc'[u] = pc[u]
      BY <2>1 DEF CoreTypes
    <2>3. QueuesAreSound'
      <3>1. \A p \in Objects : \A u \in Elems(queue[p]) : pc'[u] = "queued" /\ of'[u] = p
        BY <2>2, <1>1, Unfold
      <3> QED BY <3>1, <2>1, Unfold DEF QueuesAreSound
    <2>4. ReadyIsSound'
      BY <2>1, <2>2, Unfold DEF ReadyIsSound
    <2>5. HoldsObject'
      BY <2>2, <1>1 DEF TurnInv, HoldsObject, Core
    <2>6. InFlightIsRunning'
      BY <2>2, <1>1, TurnsAssumption DEF TurnInv, InFlightIsRunning
    <2>7. ASSUME NEW p \in Objects \ wedged', Elems(queue'[p]) # {}
          PROVE  \E u \in Turns : of'[u] = p /\ pc'[u] \in Core \cup {"popped"}
      <3>1. p # o
        BY <2>1, <2>7, <1>3, Unfold
      <3>2. PICK u \in Turns : of[u] = p /\ pc[u] \in Core \cup {"popped"}
        BY <2>1, <2>7, Unfold
      <3> QED BY <3>1, <3>2, <2>2, <1>1
    <2> QED BY <2>3, <2>4, <2>5, <2>6, <2>7, Combine
  <1> QED BY <1>2, <1>3

\* A turn that ends outside its finally clause wedges its object and no other.
LEMMA AbortStep ==
  ASSUME CoreTypes, TurnInv, NEW t \in Turns, pc[t] \in {"setup", "closing"},
         UNCHANGED <<queue, ready, inflight>>, wedged' = wedged \cup {of[t]},
         pc' = [pc EXCEPT ![t] = "over"], of' = [of EXCEPT ![t] = None]
  PROVE  TurnInv'
  <1>1. /\ pc'[t] = "over" /\ of'[t] = None
        /\ \A u \in Turns \ {t} : pc'[u] = pc[u] /\ of'[u] = of[u]
    BY DEF CoreTypes
  <1>2. QueuesAreSound'
    <2>1. \A p \in Objects : \A u \in Elems(queue[p]) : pc'[u] = "queued" /\ of'[u] = p
      BY <1>1, Unfold
    <2> QED BY <2>1, Unfold DEF QueuesAreSound
  <1>3. ReadyIsSound'
    BY <1>1, Unfold DEF ReadyIsSound
  <1>4. HoldsObject'
    BY <1>1 DEF TurnInv, HoldsObject, Core
  <1>5. InFlightIsRunning'
    BY <1>1 DEF TurnInv, InFlightIsRunning
  <1>6. ASSUME NEW p \in Objects \ wedged', Elems(queue'[p]) # {}
        PROVE  \E u \in Turns : of'[u] = p /\ pc'[u] \in Core \cup {"popped"}
    <2>1. PICK u \in Turns : of[u] = p /\ pc[u] \in Core \cup {"popped"}
      BY <1>6, Unfold
    <2> QED BY <2>1, <1>1
  <1> QED BY <1>2, <1>3, <1>4, <1>5, <1>6, Combine

\* A queue is dropped, and in_flight_turn possibly cleared with it.
LEMMA DrainStep ==
  ASSUME CoreTypes, TurnInv, NEW o \in Objects, Drain(o), UNCHANGED <<ready, of, wedged>>,
         UNCHANGED inflight \/ ClearInFlight(o)
  PROVE  TurnInv'
  <1>1. /\ \A p \in Objects : queue'[p] = IF p = o THEN <<>> ELSE queue[p]
        /\ \A u \in Turns : pc'[u] = IF u \in Elems(queue[o]) THEN "over" ELSE pc[u]
    BY DEF Drain, InQueue, Elems, CoreTypes
  <1>2. \A p \in Objects : inflight'[p] \in {inflight[p], None}
    BY DEF ClearInFlight, CoreTypes
  <1>3. \A u \in Turns : pc'[u] = pc[u] \/ (pc[u] = "queued" /\ of[u] = o /\ pc'[u] = "over")
    BY <1>1, Unfold
  <1>4. QueuesAreSound'
    <2> SUFFICES ASSUME NEW p \in Objects
                 PROVE  /\ Wf(queue'[p])
                        /\ \A u \in Elems(queue'[p]) : pc'[u] = "queued" /\ of'[u] = p
      BY Zenon DEF QueuesAreSound
    <2>1. CASE p = o
      BY <2>1, <1>1, EmptyWf
    <2>2. CASE p # o
      BY <2>2, <1>1, <1>3, Unfold
    <2> QED BY <2>1, <2>2
  <1>5. ReadyIsSound'
    BY <1>3, Unfold DEF ReadyIsSound
  <1>6. HoldsObject'
    BY <1>3 DEF TurnInv, HoldsObject, Core
  <1>7. InFlightIsRunning'
    BY <1>2, <1>3, TurnsAssumption DEF TurnInv, InFlightIsRunning, Core
  <1>8. ASSUME NEW p \in Objects \ wedged', Elems(queue'[p]) # {}
        PROVE  \E u \in Turns : of'[u] = p /\ pc'[u] \in Core \cup {"popped"}
    <2>1. queue'[p] = queue[p]
      BY <1>1, <1>8, EmptyWf
    <2>2. PICK u \in Turns : of[u] = p /\ pc[u] \in Core \cup {"popped"}
      BY <2>1, <1>8, Unfold
    <2> QED BY <2>2, <1>3 DEF Core
  <1> QED BY <1>4, <1>5, <1>6, <1>7, <1>8, Combine

(***************************************************************************)
(* Types.                                                                  *)
(***************************************************************************)

\* Every step keeps the types the invariant needs.
LEMMA TypesStep ==
  ASSUME CoreTypes, TurnInv, [Next]_vars
  PROVE  CoreTypes'
  <1> USE TurnsAssumption
  <1>a. \A t \in Turns : pc[t] \in Core \cup {"lookup", "queued", "popped"} => of[t] \in Objects
    BY DEF TurnInv, HoldsObject
  <1>1. CASE RunQueued
    <2>1. Head(ready) \in Turns
      BY <1>1, Unfold, TailWf DEF RunQueued
    <2> QED BY <1>1, <2>1 DEF RunQueued, BeginCore, CoreTypes, Pcs, Core
  <1>2. ASSUME NEW t \in Turns, NEW o \in Objects, Admit(t, o), UNCHANGED table
        PROVE  CoreTypes'
    <2>1. of' = [of EXCEPT ![t] = o]
      BY <1>2 DEF Admit
    <2>2. CASE BeginCore(t, o) /\ UNCHANGED queue
      BY <1>2, <2>1, <2>2 DEF BeginCore, CoreTypes, Pcs, Core
    <2>3. CASE Return(t, "refused") /\ UNCHANGED <<inflight, queue>>
      BY <1>2, <2>1, <2>3 DEF Return, CoreTypes, Pcs
    <2>4. CASE _enqueue_turn(t, o) /\ UNCHANGED inflight
      BY <1>2, <2>1, <2>4 DEF _enqueue_turn, CoreTypes, Pcs
    <2> QED BY <1>2, <2>2, <2>3, <2>4 DEF Admit
  <1>3. ASSUME NEW t \in Turns, PromptNotFound(t) PROVE CoreTypes'
    BY <1>3 DEF PromptNotFound, Return, CoreTypes, Pcs, sessVars
  <1>4. ASSUME NEW t \in Turns, PromptWithId(t) PROVE CoreTypes'
    <2>1. /\ pc' \in [Turns -> Pcs]
          /\ of' \in [Turns -> Objects \cup {None}]
      BY <1>4 DEF PromptWithId, CoreTypes, Pcs
    <2> QED BY <1>4, <2>1 DEF PromptWithId, CoreTypes, sessVars
  <1>5. ASSUME NEW t \in Turns, CoreStep(t) PROVE CoreTypes'
    <2>1. CASE SetupDone(t)
      BY <2>1 DEF SetupDone, CoreTypes, Pcs, Core, sessVars
    <2>2. CASE QueryEnds(t)
      BY <2>2 DEF QueryEnds, CoreTypes, Pcs, Core, sessVars
    <2>3. CASE QueryCancelled(t)
      BY <2>3 DEF QueryCancelled, CoreTypes, Pcs, Core, sessVars
    <2>4. CASE CancelWritten(t)
      BY <2>4 DEF CancelWritten, CoreTypes, Pcs, Core, sessVars
    <2>5. CASE CloseTurn(t)
      BY <2>5 DEF CloseTurn, ClearInFlight, _maybe_dispatch_next, CoreTypes, Pcs
    <2>6. CASE TurnAborts(t)
      <3>1. /\ pc' = [pc EXCEPT ![t] = "over"] /\ of' = [of EXCEPT ![t] = None]
            /\ UNCHANGED sessVars
        BY <2>6 DEF TurnAborts
      <3> QED BY <3>1 DEF CoreTypes, Pcs, sessVars
    <2> QED BY <1>5, <2>1, <2>2, <2>3, <2>4, <2>5, <2>6 DEF CoreStep
  <1>6. ASSUME NEW t \in Turns, CancelRequest(t) PROVE CoreTypes'
    <2>1. /\ pc' = pc \/ pc' = [pc EXCEPT ![t] = "over"]
          /\ UNCHANGED <<sessVars, of>>
      BY <1>6 DEF CancelRequest, Return
    <2> QED BY <2>1 DEF CoreTypes, Pcs, sessVars
  <1>7. ASSUME NEW t \in Turns, RetryAnswered(t) PROVE CoreTypes'
    <2>1. pc' = [pc EXCEPT ![t] = "over"] /\ UNCHANGED <<sessVars, of>>
      BY <1>7 DEF RetryAnswered, Return
    <2> QED BY <2>1 DEF CoreTypes, Pcs, sessVars
  <1>8. ASSUME NEW o \in Objects, Drain(o), UNCHANGED <<table, of>>,
               UNCHANGED inflight \/ ClearInFlight(o)
        PROVE  CoreTypes'
    BY <1>8 DEF Drain, ClearInFlight, CoreTypes, Pcs
  <1>9. CASE Cancel
    BY <1>9, <1>8 DEF Cancel, CoreTypes
  <1>10. CASE CloseSession
    BY <1>10, <1>8 DEF CloseSession, CoreTypes
  <1>11. CASE SessionClosed \/ Attach \/ Disconnect
    BY <1>11 DEF SessionClosed, Attach, Disconnect, CoreTypes
  <1>12. ASSUME NEW o \in Objects, AttachLoaded(o) PROVE CoreTypes'
    BY <1>12 DEF AttachLoaded, CoreTypes
  <1>13. ASSUME NEW o \in Objects, EvictCheck(o) \/ Evicted(o) PROVE CoreTypes'
    BY <1>13 DEF EvictCheck, Evicted, CoreTypes, sessVars
  <1>14. ASSUME NEW t \in Turns, PromptWithoutId(t) PROVE CoreTypes'
    BY <1>14, <1>2 DEF PromptWithoutId, CoreTypes
  <1>15. ASSUME NEW t \in Turns, PromptLookedUp(t) PROVE CoreTypes'
    <2>1. of[t] \in Objects
      BY <1>15, <1>a DEF PromptLookedUp
    <2>2. CASE Admit(t, of[t])
      BY <1>15, <2>1, <2>2, <1>2 DEF PromptLookedUp
    <2>3. CASE ~Admit(t, of[t])
      BY <1>15, <2>3 DEF PromptLookedUp, Return, CoreTypes, Pcs
    <2> QED BY <2>2, <2>3
  <1>16. ASSUME NEW t \in Turns, GatewayTurn(t) PROVE CoreTypes'
    BY <1>16 DEF GatewayTurn, _enqueue_turn, CoreTypes, Pcs
  <1>17. ASSUME NEW t \in Turns, NEW o \in Objects, GatewayLoaded(t, o) PROVE CoreTypes'
    BY <1>17 DEF GatewayLoaded, CoreTypes, Pcs
  <1>18. CASE UNCHANGED vars
    BY <1>18 DEF vars, sessVars, CoreTypes
  <1> QED BY <1>1, <1>3, <1>4, <1>5, <1>6, <1>7, <1>9, <1>10, <1>11, <1>12, <1>13, <1>14,
             <1>15, <1>16, <1>17, <1>18 DEF Next, RequestStep, Ask, ManagerStep

(***************************************************************************)
(* The invariant.                                                          *)
(***************************************************************************)

\* The initial states satisfy it.
LEMMA InitInv == Init => CoreTypes /\ TurnInv
  <1> SUFFICES ASSUME Init PROVE CoreTypes /\ TurnInv
    OBVIOUS
  <1> USE TurnsAssumption
  <1>1. CoreTypes
    BY DEF Init, CoreTypes, Pcs
  <1>2. /\ \A o \in Objects : queue[o] = <<>> /\ inflight[o] = None
        /\ ready = <<>> /\ \A t \in Turns : pc[t] = "new"
    BY DEF Init
  <1>3. QueuesAreSound /\ ReadyIsSound
    BY <1>2, EmptyWf DEF QueuesAreSound, ReadyIsSound
  <1>4. HoldsObject
    BY <1>2 DEF HoldsObject, Core
  <1>5. InFlightIsRunning /\ QueueHasDriver
    BY <1>2 DEF InFlightIsRunning, QueueHasDriver
  <1> QED BY <1>1, <1>3, <1>4, <1>5 DEF TurnInv

\* A step that leaves the part of the state the invariant is about alone.
LEMMA OtherStep ==
  ASSUME TurnInv, UNCHANGED coreVars
  PROVE  TurnInv'
  <1> USE DEF coreVars
  <1>1. QueuesAreSound'
    BY Zenon DEF TurnInv, QueuesAreSound
  <1>2. ReadyIsSound'
    BY Zenon DEF TurnInv, ReadyIsSound
  <1>3. HoldsObject'
    BY DEF TurnInv, HoldsObject
  <1>4. InFlightIsRunning'
    BY DEF TurnInv, InFlightIsRunning
  <1>5. QueueHasDriver'
    BY DEF TurnInv, QueueHasDriver, Drivers
  <1> QED BY <1>1, <1>2, <1>3, <1>4, <1>5 DEF TurnInv

\* The end of prompt, from an idle place.
LEMMA AdmitStep ==
  ASSUME CoreTypes, CoreTypes', TurnInv, NEW t \in Turns, NEW o \in Objects,
         pc[t] \in {"new", "lookup"}, Admit(t, o), UNCHANGED wedged
  PROVE  TurnInv'
  <1>0. pc[t] \in Idle /\ of' = [of EXCEPT ![t] = o]
    BY DEF Idle, Admit
  <1>1. CASE BeginCore(t, o) /\ UNCHANGED <<queue, ready>>
    BY <1>0, <1>1, StartStep
  <1>2. CASE Return(t, "refused") /\ UNCHANGED <<inflight, queue, ready>>
    <2>1. /\ \A u \in Turns \ {t} : pc'[u] = pc[u] /\ of'[u] = of[u]
          /\ pc'[t] = "over"
      BY <1>0, <1>2 DEF Return, CoreTypes
    <2>2. pc'[t] \in Idle /\ pc'[t] # "lookup"
      BY <2>1 DEF Idle
    <2> QED BY <1>0, <1>2, <2>1, <2>2, QuietStep
  <1>3. CASE _enqueue_turn(t, o) /\ UNCHANGED inflight
    BY <1>0, <1>3, EnqueueStep
  <1> QED BY <1>1, <1>2, <1>3 DEF Admit

\* Every step keeps it.
LEMMA NextInv ==
  ASSUME CoreTypes, TurnInv, [Next]_vars
  PROVE  CoreTypes' /\ TurnInv'
  <1> USE TurnsAssumption
  <1>0. CoreTypes'
    BY TypesStep
  <1>a. \A t \in Turns : pc[t] \in Core \cup {"lookup", "queued", "popped"} => of[t] \in Objects
    BY DEF TurnInv, HoldsObject
  <1>b. ASSUME NEW t \in Turns, NEW p, pc' = [pc EXCEPT ![t] = p],
               pc[t] \in Idle, p \in Idle \ {"lookup"},
               UNCHANGED <<queue, ready, inflight, of, wedged>>
        PROVE  TurnInv'
    <2>1. /\ \A u \in Turns \ {t} : pc'[u] = pc[u] /\ of'[u] = of[u]
          /\ pc'[t] = p
      BY <1>b DEF CoreTypes
    <2> QED BY <1>0, <1>b, <2>1, QuietStep
  <1>c. ASSUME NEW t \in Turns, NEW p, pc' = [pc EXCEPT ![t] = p],
               pc[t] \in Core, p \in Core,
               UNCHANGED <<queue, ready, inflight, of, wedged>>
        PROVE  TurnInv'
    <2>1. /\ \A u \in Turns \ {t} : pc'[u] = pc[u] /\ of'[u] = of[u]
          /\ pc'[t] = p /\ of'[t] = of[t]
      BY <1>c DEF CoreTypes
    <2> QED BY <1>0, <1>c, <2>1, QuietStep
  <1>1. CASE RunQueued
    <2> DEFINE t == Head(ready)
    <2>1. t \in Turns /\ pc[t] = "popped" /\ ready # <<>>
      BY <1>1, Unfold, TailWf DEF RunQueued
    <2>2. of[t] \in Objects
      BY <2>1, <1>a
    <2>3. /\ BeginCore(t, of[t]) /\ ready' = Tail(ready)
          /\ UNCHANGED <<queue, wedged, of>>
      BY <1>1 DEF RunQueued
    <2>4. of' = [of EXCEPT ![t] = of[t]]
      BY <2>1, <2>3 DEF CoreTypes
    <2> HIDE DEF t
    <2>5. t = Head(ready)
      BY DEF t
    <2> QED BY <1>0, <2>1, <2>2, <2>3, <2>4, <2>5, StartStep
  <1>2. ASSUME NEW t \in Turns, PromptNotFound(t) PROVE TurnInv'
    <2>1. pc[t] = "new" /\ pc' = [pc EXCEPT ![t] = "over"]
          /\ UNCHANGED <<queue, ready, inflight, of, wedged>>
      BY <1>2 DEF PromptNotFound, Asks, Return, sessVars
    <2> QED BY <2>1, <1>b DEF Idle
  <1>3. ASSUME NEW t \in Turns, PromptWithId(t) PROVE TurnInv'
    <2>1. /\ pc[t] = "new" /\ table \in Objects
          /\ UNCHANGED <<queue, ready, inflight, wedged>>
          /\ of' = [of EXCEPT ![t] = table]
      BY <1>3 DEF PromptWithId, Asks, sessVars, CoreTypes
    <2>2. PICK p \in {"onFlight", "onQueue", "lookup"} : pc' = [pc EXCEPT ![t] = p]
      BY <1>3 DEF PromptWithId
    <2>3. /\ \A u \in Turns \ {t} : pc'[u] = pc[u] /\ of'[u] = of[u]
          /\ pc'[t] = p /\ of'[t] = table
      BY <2>1, <2>2 DEF CoreTypes
    <2>4. pc[t] \in Idle /\ pc'[t] \in Idle
      BY <2>1, <2>2, <2>3 DEF Idle
    <2> QED BY <1>0, <2>1, <2>3, <2>4, QuietStep
  <1>4. ASSUME NEW t \in Turns, PromptWithoutId(t) PROVE TurnInv'
    <2>1. table \in Objects /\ pc[t] = "new" /\ Admit(t, table) /\ UNCHANGED wedged
      BY <1>4 DEF PromptWithoutId, Asks, CoreTypes
    <2> QED BY <1>0, <2>1, AdmitStep
  <1>5. ASSUME NEW t \in Turns, PromptLookedUp(t) PROVE TurnInv'
    <2>1. of[t] \in Objects /\ pc[t] = "lookup" /\ UNCHANGED wedged
      BY <1>5, <1>a DEF PromptLookedUp
    <2>2. CASE Admit(t, of[t])
      BY <1>0, <2>1, <2>2, AdmitStep
    <2>3. CASE ~Admit(t, of[t])
      <3>1. /\ pc' = [pc EXCEPT ![t] = "over"]
            /\ UNCHANGED <<queue, ready, inflight, of, wedged>>
        BY <1>5, <2>3 DEF PromptLookedUp, Return
      <3> QED BY <2>1, <3>1, <1>b DEF Idle
    <2> QED BY <2>2, <2>3
  <1>6. ASSUME NEW t \in Turns, GatewayTurn(t) PROVE TurnInv'
    <2>1. pc[t] = "new" /\ UNCHANGED <<inflight, wedged>>
      BY <1>6 DEF GatewayTurn
    <2>2. CASE table # None
      <3>1. table \in Objects /\ _enqueue_turn(t, table) /\ of' = [of EXCEPT ![t] = table]
        BY <1>6, <2>2 DEF GatewayTurn, CoreTypes
      <3>2. pc[t] \in Idle
        BY <2>1 DEF Idle
      <3> QED BY <2>1, <3>1, <3>2, EnqueueStep
    <2>3. CASE table = None
      <3>1. pc' = [pc EXCEPT ![t] = "loading"] /\ UNCHANGED <<queue, ready, of>>
        BY <1>6, <2>3 DEF GatewayTurn
      <3> QED BY <2>1, <3>1, <1>b DEF Idle
    <2> QED BY <2>2, <2>3
  <1>7. ASSUME NEW t \in Turns, NEW o \in Objects, GatewayLoaded(t, o) PROVE TurnInv'
    BY <1>7, LoadStep DEF GatewayLoaded
  <1>8. ASSUME NEW t \in Turns, SetupDone(t) PROVE TurnInv'
    <2>1. /\ pc[t] = "setup" /\ pc' = [pc EXCEPT ![t] = "query"]
          /\ UNCHANGED <<queue, ready, inflight, of, wedged>>
      BY <1>8 DEF SetupDone, sessVars
    <2> QED BY <2>1, <1>c DEF Core
  <1>9. ASSUME NEW t \in Turns, QueryEnds(t) PROVE TurnInv'
    <2>1. /\ pc[t] = "query" /\ pc' = [pc EXCEPT ![t] = "closing"]
          /\ UNCHANGED <<queue, ready, inflight, of, wedged>>
      BY <1>9 DEF QueryEnds, sessVars
    <2> QED BY <2>1, <1>c DEF Core
  <1>10. ASSUME NEW t \in Turns, QueryCancelled(t) PROVE TurnInv'
    <2>1. /\ pc[t] = "query" /\ UNCHANGED <<queue, ready, inflight, of, wedged>>
          /\ \E p \in {"cancelling", "closing"} : pc' = [pc EXCEPT ![t] = p]
      BY <1>10 DEF QueryCancelled, sessVars
    <2> QED BY <2>1, <1>c DEF Core
  <1>11. ASSUME NEW t \in Turns, CancelWritten(t) PROVE TurnInv'
    <2>1. /\ pc[t] = "cancelling" /\ pc' = [pc EXCEPT ![t] = "closing"]
          /\ UNCHANGED <<queue, ready, inflight, of, wedged>>
      BY <1>11 DEF CancelWritten, sessVars
    <2> QED BY <2>1, <1>c DEF Core
  <1>12. ASSUME NEW t \in Turns, CloseTurn(t) PROVE TurnInv'
    <2>1. /\ pc[t] = "closing" /\ ClearInFlight(of[t]) /\ _maybe_dispatch_next(t, of[t])
          /\ of' = [of EXCEPT ![t] = None] /\ UNCHANGED wedged
      BY <1>12 DEF CloseTurn
    <2>2. of[t] \in Objects
      BY <2>1, <1>a DEF Core
    <2> QED BY <2>1, <2>2, CloseStep
  <1>13. ASSUME NEW t \in Turns, TurnAborts(t) PROVE TurnInv'
    <2>1. /\ pc[t] \in {"setup", "closing"} /\ UNCHANGED <<queue, ready, inflight>>
          /\ wedged' = wedged \cup {of[t]}
          /\ pc' = [pc EXCEPT ![t] = "over"] /\ of' = [of EXCEPT ![t] = None]
      BY <1>13 DEF TurnAborts, sessVars
    <2> QED BY <2>1, AbortStep
  <1>14. CASE Cancel
    <2>1. /\ table \in Objects /\ Drain(table)
          /\ UNCHANGED <<ready, of, wedged, inflight>>
      BY <1>14 DEF Cancel, CoreTypes
    <2> QED BY <1>0, <2>1, DrainStep
  <1>15. CASE CloseSession
    <2>1. /\ table \in Objects /\ Drain(table) /\ ClearInFlight(table)
          /\ UNCHANGED <<ready, of, wedged>>
      BY <1>15 DEF CloseSession, CoreTypes
    <2> QED BY <1>0, <2>1, DrainStep
  <1>16. ASSUME NEW t \in Turns, CancelRequest(t) PROVE TurnInv'
    <2>1. /\ UNCHANGED <<queue, ready, inflight, of, wedged>>
          /\ \/ pc' = pc
             \/ /\ pc[t] \in {"lookup", "onQueue", "onFlight"}
                /\ pc' = [pc EXCEPT ![t] = "over"]
      BY <1>16 DEF CancelRequest, Return, sessVars
    <2>2. CASE pc' = pc
      BY <2>1, <2>2, OtherStep DEF coreVars
    <2>3. CASE pc' # pc
      BY <2>1, <2>3, <1>b DEF Idle
    <2> QED BY <2>2, <2>3
  <1>17. ASSUME NEW t \in Turns, RetryAnswered(t) PROVE TurnInv'
    <2>1. /\ pc[t] \in {"onFlight", "onQueue"} /\ pc' = [pc EXCEPT ![t] = "over"]
          /\ UNCHANGED <<queue, ready, inflight, of, wedged>>
      BY <1>17 DEF RetryAnswered, Return, sessVars
    <2> QED BY <2>1, <1>b DEF Idle
  <1>18. ASSUME NEW o \in Objects, AttachLoaded(o) PROVE TurnInv'
    BY <1>18, LoadStep DEF AttachLoaded
  <1>19. CASE SessionClosed \/ Attach \/ Disconnect \/ UNCHANGED vars
    <2>1. UNCHANGED coreVars
      BY <1>19 DEF SessionClosed, Attach, Disconnect, vars, sessVars, coreVars
    <2> QED BY <1>0, <2>1, OtherStep
  <1>20. ASSUME NEW o \in Objects, EvictCheck(o) \/ Evicted(o) PROVE TurnInv'
    <2>1. UNCHANGED coreVars
      BY <1>20 DEF EvictCheck, Evicted, sessVars, coreVars
    <2> QED BY <2>1, OtherStep
  <1>21. ASSUME NEW t \in Turns, CoreStep(t) PROVE TurnInv'
    BY <1>8, <1>9, <1>10, <1>11, <1>12, <1>13, <1>21 DEF CoreStep
  <1>22. TurnInv'
    BY <1>1, <1>2, <1>3, <1>4, <1>5, <1>6, <1>7, <1>14, <1>15, <1>16, <1>17, <1>18, <1>19,
       <1>20, <1>21 DEF Next, RequestStep, Ask, ManagerStep
  <1> QED BY <1>0, <1>22

\* For any number of turns, Session objects and operations, a queue that is not
\* empty has a turn that will dispatch it, unless a turn of its session ended
\* outside the finally clause of _run_turn_core.
THEOREM QueueIsDriven == Spec => []QueueHasDriver
  <1>1. TurnInv => QueueHasDriver
    BY DEF TurnInv
  <1> QED BY InitInv, NextInv, <1>1, PTL DEF Spec

\* Likewise in_flight_turn names a turn that is inside _run_turn_core and holds
\* this Session object: prompts never queue behind a turn that has ended.
THEOREM InFlightIsTruthful == Spec => []InFlightIsRunning
  <1>1. TurnInv => InFlightIsRunning
    BY DEF TurnInv
  <1> QED BY InitInv, NextInv, <1>1, PTL DEF Spec


(***************************************************************************)
(* Retries.  A prompt is being asked, or is a retry that awaits another    *)
(* turn, or is underway, or over.                                          *)
(***************************************************************************)
Asking == {"new", "loading", "lookup"}
Awaiting == {"onFlight", "onQueue"}
Underway == Core \cup {"queued", "popped"}

\* A retry never becomes a turn, and what it awaits is a turn and no retry.
RetriesWait ==
  \A t \in Turns :
    /\ pc[t] \in Awaiting => wait[t] \in Turns
    /\ wait[t] # None => /\ pc[t] \in Awaiting \cup {"over"}
                         /\ pc[wait[t]] \in Underway \cup {"over"}
                         /\ wait[wait[t]] = None

\* Only a prompt that carries a clientTurnId looks into the event log.
LooksUpAnId == \A t \in Turns : pc[t] = "lookup" => Id[t] \in Ids

\* in_flight_turn names no retry, even in an object that a turn left early.
InFlightIsNoRetry ==
  \A o \in Objects, t \in Turns :
    inflight[o] = t => pc[t] \in Core \cup {"over"} /\ wait[t] = None

\* A turn that is not over has its two futures pending, unless a client withdrew
\* a request for it.
Unanswered ==
  \A t \in Turns :
    pc[t] \in Asking \cup Awaiting \/ (pc[t] \in Underway /\ ~Withdrawn(t)) =>
      answer[t] = "pending" /\ comp[t] = "pending"

\* A settled completion_future says what response_future says.
FuturesAgree ==
  \A u \in Turns :
    ~Withdrawn(u) /\ comp[u] # "pending" =>
      answer[u] # "pending" /\ (answer[u] = "raised" \/ comp[u] = answer[u])

\* RetryGetsTheAnswer, and a retry is never answered before its turn.
RetryAgrees ==
  \A t, u \in Turns :
    wait[t] = u /\ ~Withdrawn(u) /\ pc[t] = "over" =>
      answer[u] # "pending" /\ (answer[u] = "raised" \/ answer[t] = answer[u])

RetryInv ==
  /\ RetriesWait /\ LooksUpAnId /\ InFlightIsNoRetry
  /\ Unanswered /\ FuturesAgree /\ RetryAgrees

\* The types CoreTypes leaves out.
DataTypes ==
  /\ queue \in [Objects -> Seq(Turns)]
  /\ senders \in [Objects -> BOOLEAN]
  /\ ready \in Seq(Turns)
  /\ inline \subseteq Turns
  /\ wait \in [Turns -> Turns \cup {None}]
  /\ stop \in [Turns -> Stops]
  /\ cancelled \subseteq Turns
  /\ answer \in [Turns -> Answers] /\ comp \in [Turns -> Answers]
  /\ stored \in [Ids -> {"none", "incomplete"} \cup Stops]
  /\ client \in {"here", "away", "loading"} /\ budget \in Nat
  /\ closer \in Objects \cup {None}
  /\ checks \in [Objects -> Nat] /\ evicting \in [Objects -> Nat]
  /\ wedged \subseteq Objects
  /\ ran \in [Ids -> Nat]

\* Together they are the type invariant.
LEMMA AllTypes == CoreTypes /\ DataTypes <=> TypeOK
  BY DEF CoreTypes, DataTypes, TypeOK

\* A withdrawal is never forgotten.
LEMMA WithdrawnStays ==
  ASSUME TurnsAssumption, NEW u \in Turns, Withdrawn(u),
         \A v \in Turns : /\ answer[v] = "withdrawn" => answer'[v] = "withdrawn"
                          /\ wait[v] # None => wait'[v] = wait[v]
  PROVE  Withdrawn(u)'
  <1>1. PICK v \in Turns : answer[v] = "withdrawn" /\ u \in {v, wait[v]}
    BY DEF Withdrawn
  <1>2. answer'[v] = "withdrawn" /\ u \in {v, wait'[v]}
    BY <1>1 DEF TurnsAssumption
  <1> QED BY <1>2 DEF Withdrawn

\* What most steps do to a turn: it moves on, is answered and leaves, has its own
\* request withdrawn, or reaches the end of its finally clause.
MovesOn(u) ==
  /\ answer'[u] = answer[u] /\ comp'[u] = comp[u]
  /\ \/ pc'[u] = pc[u]
     \/ /\ pc[u] \in Asking /\ pc'[u] \in Asking \cup Underway
        /\ pc'[u] = "lookup" => Id[u] # None
     \/ pc[u] \in Core /\ pc'[u] \in Core
     \/ pc[u] \in {"queued", "popped"} /\ pc'[u] \in Underway

Leaves(u) ==
  /\ pc[u] \in Asking \cup Underway /\ comp'[u] = comp[u]
  /\ IF answer[u] = "pending" THEN answer'[u] # "pending" ELSE answer'[u] = answer[u]
  /\ pc'[u] = "over" \/ (pc'[u] = pc[u] /\ pc[u] \in Underway /\ answer'[u] = "withdrawn")

Closes(u) ==
  /\ pc[u] \in Core /\ pc'[u] = "over"
  /\ \E s \in Stops :
       /\ answer'[u] = IF answer[u] = "pending" THEN s ELSE answer[u]
       /\ comp'[u] = IF comp[u] = "pending" THEN (IF s = "raised" THEN "end" ELSE s)
                     ELSE comp[u]

\* Such a step keeps the invariant.
LEMMA PointStep ==
  ASSUME CoreTypes, CoreTypes', DataTypes, RetryInv, UNCHANGED wait,
         \A u \in Turns : MovesOn(u) \/ Leaves(u) \/ Closes(u),
         \A o \in Objects, t \in Turns : inflight'[o] = t =>
           inflight[o] = t \/ (pc[t] \in Asking \cup {"popped"} /\ pc'[t] \in Core)
  PROVE  RetryInv'
  <1> USE TurnsAssumption
  <1>1. \A v \in Turns : answer[v] # "pending" => answer'[v] = answer[v]
    BY DEF MovesOn, Leaves, Closes
  <1>2. \A u \in Turns : Withdrawn(u) => Withdrawn(u)'
    BY <1>1, WithdrawnStays
  <1>3. \A u \in Turns : answer'[u] = "withdrawn" => Withdrawn(u)'
    BY DEF Withdrawn
  <1>4. /\ \A u \in Turns : pc[u] = "over" => pc'[u] = "over"
        /\ \A u \in Turns : pc[u] \in Core => pc'[u] \in Core \cup {"over"}
        /\ \A u \in Turns : pc[u] \in Underway => pc'[u] \in Underway \cup {"over"}
        /\ \A u \in Turns : pc[u] \in Awaiting => pc'[u] = pc[u]
        /\ \A u \in Turns : pc'[u] \in Awaiting => pc[u] = pc'[u]
    BY DEF MovesOn, Leaves, Closes, Asking, Awaiting, Underway, Core
  <1>5. RetriesWait'
    <2> SUFFICES ASSUME NEW t \in Turns
                 PROVE  /\ pc'[t] \in Awaiting => wait[t] \in Turns
                        /\ wait[t] # None => /\ pc'[t] \in Awaiting \cup {"over"}
                                             /\ pc'[wait[t]] \in Underway \cup {"over"}
                                             /\ wait[wait[t]] = None
      BY DEF RetriesWait
    <2>1. /\ pc[t] \in Awaiting => wait[t] \in Turns
          /\ wait[t] # None => /\ pc[t] \in Awaiting \cup {"over"}
                               /\ pc[wait[t]] \in Underway \cup {"over"}
                               /\ wait[wait[t]] = None
          /\ wait[t] \in Turns \cup {None}
      BY DEF RetryInv, RetriesWait, DataTypes
    <2> QED BY <2>1, <1>4
  <1>6. InFlightIsNoRetry'
    <2> SUFFICES ASSUME NEW o \in Objects, NEW t \in Turns, inflight'[o] = t
                 PROVE  pc'[t] \in Core \cup {"over"} /\ wait[t] = None
      BY DEF InFlightIsNoRetry
    <2>1. CASE inflight[o] = t
      BY <2>1, <1>4 DEF RetryInv, InFlightIsNoRetry
    <2>2. CASE pc[t] \in Asking \cup {"popped"} /\ pc'[t] \in Core
      BY <2>2 DEF RetryInv, RetriesWait, Asking, Awaiting
    <2> QED BY <2>1, <2>2
  <1>7. Unanswered'
    <2> SUFFICES ASSUME NEW t \in Turns,
                        \/ pc'[t] \in Asking \cup Awaiting
                        \/ pc'[t] \in Underway /\ ~Withdrawn(t)'
                 PROVE  answer'[t] = "pending" /\ comp'[t] = "pending"
      BY DEF Unanswered
    <2>1. MovesOn(t)
      <3>1. pc'[t] # "over"
        BY DEF Asking, Awaiting, Underway, Core
      <3>2. ASSUME pc'[t] = pc[t], pc[t] \in Underway, answer'[t] = "withdrawn" PROVE FALSE
        BY <3>2, <1>3 DEF Asking, Awaiting, Underway, Core
      <3> QED BY <3>1, <3>2 DEF Leaves, Closes
    <2>2. pc[t] \in Asking \cup Awaiting \/ (pc[t] \in Underway /\ ~Withdrawn(t))
      BY <2>1, <1>2 DEF MovesOn, Asking, Awaiting, Underway, Core
    <2>3. answer[t] = "pending" /\ comp[t] = "pending"
      BY <2>2 DEF RetryInv, Unanswered
    <2> QED BY <2>1, <2>3 DEF MovesOn
  <1>8. FuturesAgree'
    <2> SUFFICES ASSUME NEW u \in Turns, ~Withdrawn(u)', comp'[u] # "pending"
                 PROVE  /\ answer'[u] # "pending"
                        /\ answer'[u] = "raised" \/ comp'[u] = answer'[u]
      BY DEF FuturesAgree
    <2>1. ~Withdrawn(u)
      BY <1>2
    <2>2. CASE comp[u] # "pending"
      <3>1. answer[u] # "pending" /\ (answer[u] = "raised" \/ comp[u] = answer[u])
        BY <2>1, <2>2 DEF RetryInv, FuturesAgree
      <3>2. answer'[u] = answer[u] /\ comp'[u] = comp[u]
        BY <3>1, <2>2 DEF MovesOn, Leaves, Closes
      <3> QED BY <3>1, <3>2
    <2>3. CASE comp[u] = "pending"
      <3>1. Closes(u)
        BY <2>3 DEF MovesOn, Leaves
      <3>2. answer[u] = "pending"
        BY <2>1, <3>1 DEF Closes, RetryInv, Unanswered, Underway
      <3> QED BY <3>1, <3>2, <2>3 DEF Closes, Stops
    <2> QED BY <2>2, <2>3
  <1>9. RetryAgrees'
    <2> SUFFICES ASSUME NEW t \in Turns, NEW u \in Turns,
                        wait[t] = u, ~Withdrawn(u)', pc'[t] = "over"
                 PROVE  /\ answer'[u] # "pending"
                        /\ answer'[u] = "raised" \/ answer'[t] = answer'[u]
      BY DEF RetryAgrees
    <2>1. pc[t] = "over" /\ ~Withdrawn(u)
      BY <1>2, <1>4 DEF RetryInv, RetriesWait, Awaiting
    <2>2. answer[u] # "pending" /\ (answer[u] = "raised" \/ answer[t] = answer[u])
      BY <2>1 DEF RetryInv, RetryAgrees
    <2>3. answer'[u] = answer[u] /\ (answer[t] = answer[u] => answer'[t] = answer[t])
      BY <2>2, <1>1
    <2> QED BY <2>2, <2>3
  <1>10. LooksUpAnId'
    BY DEF RetryInv, LooksUpAnId, MovesOn, Leaves, Closes, Underway, Core
  <1> QED BY <1>5, <1>6, <1>7, <1>8, <1>9, <1>10 DEF RetryInv

\* A retry joins the turn it finds in flight or in the queue.
LEMMA JoinStep ==
  ASSUME CoreTypes, DataTypes, RetryInv, NEW t \in Turns, NEW u \in Turns,
         NEW w \in Awaiting, pc[t] = "new", pc[u] \in Underway \cup {"over"}, wait[u] = None,
         pc' = [pc EXCEPT ![t] = w], wait' = [wait EXCEPT ![t] = u],
         UNCHANGED <<answer, comp, inflight>>
  PROVE  RetryInv'
  <1> USE TurnsAssumption
  <1>1. /\ pc'[t] = w /\ wait'[t] = u /\ wait[t] = None /\ u # t
        /\ \A v \in Turns \ {t} : pc'[v] = pc[v] /\ wait'[v] = wait[v]
        /\ answer[t] = "pending" /\ comp[t] = "pending"
    <2>1. wait[t] = None /\ u # t
      BY DEF RetryInv, RetriesWait, Awaiting, Underway, Core
    <2>2. answer[t] = "pending" /\ comp[t] = "pending"
      BY DEF RetryInv, Unanswered, Asking
    <2>3. /\ pc'[t] = w /\ wait'[t] = u
          /\ \A v \in Turns \ {t} : pc'[v] = pc[v] /\ wait'[v] = wait[v]
      BY DEF CoreTypes, DataTypes
    <2> QED BY <2>1, <2>2, <2>3
  <1>2. \A v \in Turns : wait[v] # t
    BY DEF DataTypes, RetryInv, RetriesWait, Underway, Core
  <1>3. \A v \in Turns : Withdrawn(v) => Withdrawn(v)'
    BY <1>1, WithdrawnStays
  <1>4. RetriesWait'
    <2> SUFFICES ASSUME NEW v \in Turns
                 PROVE  /\ pc'[v] \in Awaiting => wait'[v] \in Turns
                        /\ wait'[v] # None => /\ pc'[v] \in Awaiting \cup {"over"}
                                              /\ pc'[wait'[v]] \in Underway \cup {"over"}
                                              /\ wait'[wait'[v]] = None
      BY DEF RetriesWait
    <2>1. CASE v = t
      BY <2>1, <1>1
    <2>2. CASE v # t
      <3>1. /\ pc[v] \in Awaiting => wait[v] \in Turns
            /\ wait[v] # None => /\ pc[v] \in Awaiting \cup {"over"}
                                 /\ pc[wait[v]] \in Underway \cup {"over"}
                                 /\ wait[wait[v]] = None
            /\ wait[v] \in Turns \cup {None} /\ wait[v] # t
        BY <1>2 DEF RetryInv, RetriesWait, DataTypes
      <3> QED BY <3>1, <2>2, <1>1
    <2> QED BY <2>1, <2>2
  <1>5. InFlightIsNoRetry'
    <2>1. \A o \in Objects : inflight[o] # t
      BY DEF RetryInv, InFlightIsNoRetry, Core
    <2> QED BY <2>1, <1>1 DEF RetryInv, InFlightIsNoRetry
  <1>6. Unanswered'
    <2> SUFFICES ASSUME NEW v \in Turns,
                        \/ pc'[v] \in Asking \cup Awaiting
                        \/ pc'[v] \in Underway /\ ~Withdrawn(v)'
                 PROVE  answer[v] = "pending" /\ comp[v] = "pending"
      BY DEF Unanswered
    <2>1. CASE v # t
      BY <2>1, <1>1, <1>3 DEF RetryInv, Unanswered
    <2> QED BY <2>1, <1>1
  <1>7. FuturesAgree'
    BY <1>3 DEF RetryInv, FuturesAgree
  <1>8. RetryAgrees'
    <2> SUFFICES ASSUME NEW v \in Turns, NEW x \in Turns,
                        wait'[v] = x, ~Withdrawn(x)', pc'[v] = "over"
                 PROVE  answer[x] # "pending" /\ (answer[x] = "raised" \/ answer[v] = answer[x])
      BY DEF RetryAgrees
    <2>1. v # t
      BY <1>1 DEF Awaiting
    <2>2. wait[v] = x /\ pc[v] = "over" /\ ~Withdrawn(x)
      BY <2>1, <1>1, <1>3
    <2> QED BY <2>2 DEF RetryInv, RetryAgrees
  <1>9. LooksUpAnId'
    BY <1>1 DEF RetryInv, LooksUpAnId, Awaiting
  <1> QED BY <1>4, <1>5, <1>6, <1>7, <1>8, <1>9 DEF RetryInv

\* A retry leaves its await: with the result of the future, or withdrawn by its
\* client, which settles the future for the turn and for every other retry.
LEMMA AwaitEnds ==
  ASSUME CoreTypes, DataTypes, RetryInv, NEW t \in Turns, NEW u \in Turns,
         pc[t] \in Awaiting, wait[t] = u, pc' = [pc EXCEPT ![t] = "over"],
         UNCHANGED <<wait, inflight>>,
         \A v \in Turns \ {t, u} : answer'[v] = answer[v] /\ comp'[v] = comp[v],
         comp'[t] = comp[t],
         \/ /\ answer'[t] = "withdrawn"
            /\ answer[u] = "pending" \/ answer'[u] = answer[u]
         \/ /\ answer'[u] = answer[u] /\ comp'[u] = comp[u]
            /\ \E a \in {answer[u], comp[u]} :
                 a # "pending" /\ answer'[t] = IF a = "withdrawn" THEN "cancelled" ELSE a
  PROVE  RetryInv'
  <1> USE TurnsAssumption
  <1>1. /\ pc'[t] = "over" /\ \A v \in Turns \ {t} : pc'[v] = pc[v]
        /\ pc[u] \in Underway \cup {"over"} /\ wait[u] = None /\ u # t
        /\ answer[t] = "pending" /\ comp[t] = "pending"
    BY DEF CoreTypes, RetryInv, RetriesWait, Unanswered, Asking, Awaiting, Underway, Core
  <1>2. \A v \in Turns : wait[v] # t
    BY <1>1 DEF RetryInv, RetriesWait
  <1>3. \A v \in Turns : answer[v] = "withdrawn" => answer'[v] = "withdrawn"
    BY <1>1
  <1>4. \A v \in Turns : Withdrawn(v) => Withdrawn(v)'
    BY <1>3, WithdrawnStays
  <1>5. answer'[t] = "withdrawn" => Withdrawn(t)' /\ Withdrawn(u)'
    BY DEF Withdrawn
  <1>6. \A v \in Turns \ {t} : ~Withdrawn(v)' => answer'[v] = answer[v] /\ comp'[v] = comp[v]
    BY <1>5
  <1>7. RetriesWait'
    <2> SUFFICES ASSUME NEW v \in Turns
                 PROVE  /\ pc'[v] \in Awaiting => wait[v] \in Turns
                        /\ wait[v] # None => /\ pc'[v] \in Awaiting \cup {"over"}
                                             /\ pc'[wait[v]] \in Underway \cup {"over"}
                                             /\ wait[wait[v]] = None
      BY DEF RetriesWait
    <2>1. /\ pc[v] \in Awaiting => wait[v] \in Turns
          /\ wait[v] # None => /\ pc[v] \in Awaiting \cup {"over"}
                               /\ pc[wait[v]] \in Underway \cup {"over"}
                               /\ wait[wait[v]] = None
          /\ wait[v] \in Turns \cup {None} /\ wait[v] # t
      BY <1>2 DEF RetryInv, RetriesWait, DataTypes
    <2> QED BY <2>1, <1>1 DEF Awaiting
  <1>8. InFlightIsNoRetry'
    <2>1. \A o \in Objects : inflight[o] # t
      BY DEF RetryInv, InFlightIsNoRetry, Core, Awaiting
    <2> QED BY <2>1, <1>1 DEF RetryInv, InFlightIsNoRetry
  <1>9. Unanswered'
    <2> SUFFICES ASSUME NEW v \in Turns,
                        \/ pc'[v] \in Asking \cup Awaiting
                        \/ pc'[v] \in Underway /\ ~Withdrawn(v)'
                 PROVE  answer'[v] = "pending" /\ comp'[v] = "pending"
      BY DEF Unanswered
    <2>1. v # t
      BY <1>1 DEF Asking, Awaiting, Underway, Core
    <2>2. answer[v] = "pending" /\ comp[v] = "pending"
      BY <2>1, <1>1, <1>4 DEF RetryInv, Unanswered
    <2>3. v # u \/ ~Withdrawn(v)'
      BY <1>1 DEF Asking, Awaiting, Underway, Core
    <2> QED BY <2>1, <2>2, <2>3, <1>6
  <1>10. FuturesAgree'
    <2> SUFFICES ASSUME NEW v \in Turns, ~Withdrawn(v)', comp'[v] # "pending"
                 PROVE  /\ answer'[v] # "pending"
                        /\ answer'[v] = "raised" \/ comp'[v] = answer'[v]
      BY DEF FuturesAgree
    <2>1. v # t
      BY <1>1
    <2> QED BY <2>1, <1>4, <1>6 DEF RetryInv, FuturesAgree
  <1>11. RetryAgrees'
    <2> SUFFICES ASSUME NEW v \in Turns, NEW x \in Turns,
                        wait[v] = x, ~Withdrawn(x)', pc'[v] = "over"
                 PROVE  /\ answer'[x] # "pending"
                        /\ answer'[x] = "raised" \/ answer'[v] = answer'[x]
      BY DEF RetryAgrees
    <2>1. x # t /\ ~Withdrawn(x) /\ answer'[x] = answer[x]
      BY <1>2, <1>4, <1>6
    <2>2. CASE v = t
      <3>1. x = u /\ answer'[t] # "withdrawn"
        BY <2>2, <1>5
      <3>2. answer[u] # "withdrawn"
        BY <3>1, <2>1 DEF Withdrawn
      <3>3. comp[u] # "pending" => /\ answer[u] # "pending"
                                   /\ answer[u] = "raised" \/ comp[u] = answer[u]
        BY <3>1, <2>1 DEF RetryInv, FuturesAgree
      <3> QED BY <2>1, <2>2, <3>1, <3>2, <3>3
    <2>3. CASE v # t
      <3>1. answer[x] # "pending" /\ (answer[x] = "raised" \/ answer[v] = answer[x])
        BY <2>1, <2>3, <1>1 DEF RetryInv, RetryAgrees
      <3>2. v # u
        BY <1>1
      <3> QED BY <3>1, <3>2, <2>1, <2>3
    <2> QED BY <2>2, <2>3
  <1>12. LooksUpAnId'
    BY <1>1 DEF RetryInv, LooksUpAnId
  <1> QED BY <1>7, <1>8, <1>9, <1>10, <1>11, <1>12 DEF RetryInv

(***************************************************************************)
(* Every step keeps the types.                                             *)
(***************************************************************************)

\* What a lookup may find after a write.
LEMMA LoggedTypes ==
  ASSUME DataTypes, NEW t \in Turns, NEW s \in {"incomplete"} \cup Stops
  PROVE  Logged(t, s) \in [Ids -> {"none", "incomplete"} \cup Stops]
  BY DEF DataTypes, Logged

LEMMA DataStep ==
  ASSUME CoreTypes, CoreTypes', TurnInv, TurnInv', DataTypes, RetryInv, [Next]_vars
  PROVE  DataTypes'
  <1> USE TurnsAssumption
  <1>a. \A t \in Turns : pc[t] \in Core \cup {"lookup", "queued", "popped"} => of[t] \in Objects
    BY DEF TurnInv, HoldsObject
  <1>b. ready' \in Seq(Turns) /\ \A o \in Objects : queue'[o] \in Seq(Turns)
    BY DEF TurnInv, ReadyIsSound, QueuesAreSound, Wf
  <1>c. ASSUME NEW o \in Objects, NEW x, queue' = [queue EXCEPT ![o] = x]
        PROVE  queue' \in [Objects -> Seq(Turns)]
    BY <1>b, <1>c DEF DataTypes
  <1>d. ASSUME NEW t \in Turns, NEW a \in Answers
        PROVE  /\ Settle(answer, t, a) \in [Turns -> Answers]
               /\ Settle(comp, t, a) \in [Turns -> Answers]
    BY DEF Settle, DataTypes
  <1>e. ASSUME NEW t \in Turns, NEW o \in Objects, _enqueue_turn(t, o)
        PROVE  queue' \in [Objects -> Seq(Turns)]
    BY <1>e, <1>c DEF _enqueue_turn
  <1>f. ASSUME NEW t \in Turns, NEW o \in Objects, BeginCore(t, o)
        PROVE  ran' \in [Ids -> Nat]
    BY <1>f DEF BeginCore, DataTypes
  <1>g. ASSUME NEW t \in Turns, NEW o \in Objects, Admit(t, o)
        PROVE  /\ queue' \in [Objects -> Seq(Turns)] /\ inline' \subseteq Turns
               /\ answer' \in [Turns -> Answers] /\ ran' \in [Ids -> Nat]
    <2>1. CASE BeginCore(t, o) /\ inline' = inline \cup {t} /\ UNCHANGED <<queue, answer>>
      BY <2>1, <1>f DEF DataTypes
    <2>2. CASE Return(t, "refused") /\ UNCHANGED <<queue, inline, ran>>
      BY <2>2 DEF DataTypes, Return, Answers
    <2>3. CASE _enqueue_turn(t, o) /\ UNCHANGED <<inline, answer, ran>>
      BY <2>3, <1>e DEF DataTypes
    <2> QED BY <1>g, <2>1, <2>2, <2>3 DEF Admit
  <1>1. CASE RunQueued
    <2>1. Head(ready) \in Turns /\ pc[Head(ready)] = "popped"
      BY <1>1, Unfold, TailWf DEF RunQueued
    <2>2. of[Head(ready)] \in Objects
      BY <2>1, <1>a
    <2>3. ran' \in [Ids -> Nat]
      BY <1>1, <2>1, <2>2, <1>f DEF RunQueued
    <2> QED BY <1>1, <1>b, <2>3 DEF RunQueued, DataTypes, connVars, evictVars
  <1>2. ASSUME NEW t \in Turns, PromptNotFound(t) PROVE DataTypes'
    BY <1>2 DEF PromptNotFound, Return, DataTypes, Answers, sessVars, logVars, connVars,
                evictVars
  <1>3. ASSUME NEW t \in Turns, PromptWithoutId(t) PROVE DataTypes'
    <2>1. table \in Objects /\ Admit(t, table)
      BY <1>3 DEF PromptWithoutId, CoreTypes
    <2> QED BY <1>3, <2>1, <1>b, <1>g DEF PromptWithoutId, DataTypes, connVars, evictVars
  <1>4. ASSUME NEW t \in Turns, PromptWithId(t) PROVE DataTypes'
    <2>1. table \in Objects
      BY <1>4 DEF PromptWithId, CoreTypes
    <2>2. InQueue(table) \subseteq Turns
      BY <2>1 DEF InQueue, DataTypes
    <2>3. wait' = wait \/ \E u \in Turns : wait' = [wait EXCEPT ![t] = u]
      BY <1>4, <2>2 DEF PromptWithId
    <2>4. wait \in [Turns -> Turns \cup {None}]
      BY DEF DataTypes
    <2>5. wait' \in [Turns -> Turns \cup {None}]
      BY <2>3, <2>4
    <2> QED BY <1>4, <2>5 DEF PromptWithId, DataTypes, sessVars, logVars, connVars, evictVars
  <1>5. ASSUME NEW t \in Turns, PromptLookedUp(t) PROVE DataTypes'
    <2>1. /\ of[t] \in Objects
          /\ UNCHANGED <<senders, wait, stop, cancelled, comp, stored, connVars, evictVars,
                         wedged>>
      BY <1>5, <1>a DEF PromptLookedUp
    <2>2. CASE Admit(t, of[t])
      BY <2>1, <2>2, <1>b, <1>g DEF DataTypes, connVars, evictVars
    <2>3. CASE ~Admit(t, of[t])
      <3>1. /\ stored[Id[t]] # "none"
            /\ answer' = [answer EXCEPT ![t] = IF stored[Id[t]] = "incomplete" THEN "refused"
                                               ELSE stored[Id[t]]]
            /\ UNCHANGED <<queue, ready, inline, ran>>
        BY <1>5, <2>3 DEF PromptLookedUp, Return
      <3>2. stored[Id[t]] \in {"none", "incomplete"} \cup Stops
        BY <1>5 DEF PromptLookedUp, RetryInv, LooksUpAnId, DataTypes
      <3>3. \E a \in Answers : answer' = [answer EXCEPT ![t] = a]
        BY <3>1, <3>2 DEF Answers
      <3>4. answer' \in [Turns -> Answers]
        BY <3>3 DEF DataTypes
      <3> QED BY <2>1, <3>1, <3>4 DEF DataTypes, connVars, evictVars
    <2> QED BY <2>2, <2>3
  <1>6. ASSUME NEW t \in Turns, GatewayTurn(t) PROVE DataTypes'
    <2>1. queue' \in [Objects -> Seq(Turns)]
      <3>1. CASE table # None
        BY <1>6, <3>1, <1>e DEF GatewayTurn, CoreTypes
      <3>2. CASE table = None
        BY <1>6, <3>2 DEF GatewayTurn, DataTypes
      <3> QED BY <3>1, <3>2
    <2> QED BY <1>6, <2>1, <1>b DEF GatewayTurn, DataTypes, logVars, connVars, evictVars
  <1>7. ASSUME NEW t \in Turns, NEW o \in Objects, GatewayLoaded(t, o) PROVE DataTypes'
    BY <1>7, <1>b, <1>c DEF GatewayLoaded, DataTypes, logVars, connVars, evictVars
  <1>8. ASSUME NEW t \in Turns, SetupDone(t) PROVE DataTypes'
    BY <1>8, LoggedTypes DEF SetupDone, DataTypes, sessVars, connVars, evictVars
  <1>9. ASSUME NEW t \in Turns, QueryEnds(t) \/ QueryCancelled(t) \/ CancelWritten(t)
        PROVE  DataTypes'
    <2>1. stop' = stop \/ \E s \in Stops : stop' = [stop EXCEPT ![t] = s]
      BY <1>9 DEF QueryEnds, QueryCancelled, CancelWritten, Stops
    <2>2. stop' \in [Turns -> Stops]
      <3>1. stop \in [Turns -> Stops]
        BY DEF DataTypes
      <3> QED BY <2>1, <3>1
    <2>3. /\ cancelled' \subseteq cancelled
          /\ UNCHANGED <<sessVars, ready, inline, wait, answer, comp, logVars, connVars,
                         evictVars, wedged>>
      BY <1>9 DEF QueryEnds, QueryCancelled, CancelWritten
    <2> QED BY <2>2, <2>3 DEF DataTypes, sessVars, logVars, connVars, evictVars
  <1>10. ASSUME NEW t \in Turns, CloseTurn(t) PROVE DataTypes'
    <2>1. of[t] \in Objects
      BY <1>10, <1>a DEF CloseTurn, Core
    <2>2. /\ stop[t] \in Stops /\ StopReason(t) \in Stops
          /\ stop[t] \in Answers /\ StopReason(t) \in Answers
      BY DEF DataTypes, StopReason, Stops, Answers
    <2>3. stored' \in [Ids -> {"none", "incomplete"} \cup Stops]
      BY <1>10, <2>2, LoggedTypes DEF CloseTurn
    <2>4. answer' \in [Turns -> Answers] /\ comp' \in [Turns -> Answers]
      BY <1>10, <2>2, <1>d DEF CloseTurn
    <2>5. queue' \in [Objects -> Seq(Turns)] /\ checks' \in [Objects -> Nat]
      <3>1. \/ queue' = [queue EXCEPT ![of[t]] = Tail(queue[of[t]])] /\ checks' = checks
            \/ queue' = queue /\ checks' = [checks EXCEPT ![of[t]] = checks[of[t]] + 1]
        BY <1>10 DEF CloseTurn, _maybe_dispatch_next
      <3>2. queue \in [Objects -> Seq(Turns)] /\ checks \in [Objects -> Nat]
        BY DEF DataTypes
      <3>3. CASE checks' = checks /\ queue' = [queue EXCEPT ![of[t]] = Tail(queue[of[t]])]
        BY <3>2, <3>3, <2>1, <1>c
      <3>4. CASE queue' = queue /\ checks' = [checks EXCEPT ![of[t]] = checks[of[t]] + 1]
        BY <3>2, <3>4, <2>1
      <3> QED BY <3>1, <3>3, <3>4
    <2> QED BY <1>10, <1>b, <2>3, <2>4, <2>5 DEF CloseTurn, DataTypes, connVars
  <1>11. ASSUME NEW t \in Turns, TurnAborts(t) PROVE DataTypes'
    <2>1. of[t] \in Objects
      BY <1>11, <1>a DEF TurnAborts, Core
    <2>2. StopReason(t) \in Stops
      BY DEF DataTypes, StopReason, Stops
    <2>3. stored' \in [Ids -> {"none", "incomplete"} \cup Stops]
      <3>1. PICK s \in {"incomplete"} \cup Stops : stored' \in {stored, Logged(t, s)}
        BY <1>11, <2>2 DEF TurnAborts
      <3> QED BY <3>1, LoggedTypes DEF DataTypes
    <2>4. answer' \in [Turns -> Answers]
      <3>1. \E a \in {"stranded", "cancelled", "withdrawn", "raised"} :
              answer' = Settle(answer, t, a)
        BY <1>11 DEF TurnAborts, Dropped
      <3> QED BY <3>1, <1>d DEF Answers, Stops
    <2>5. /\ wedged' = wedged \cup {of[t]} /\ inline' = inline \ {t}
          /\ cancelled' = cancelled \ {t}
          /\ UNCHANGED <<sessVars, ready, wait, stop, comp, ran, connVars, evictVars>>
      BY <1>11 DEF TurnAborts
    <2> QED BY <2>1, <2>3, <2>4, <2>5 DEF DataTypes, sessVars, connVars, evictVars
  <1>12. ASSUME NEW o \in Objects, Drain(o)
         PROVE  queue' \in [Objects -> Seq(Turns)] /\ answer' \in [Turns -> Answers]
    BY <1>12, <1>c DEF Drain, Dropped, DataTypes, Answers, Stops
  <1>13. ASSUME NEW op, Sends(op) PROVE budget' \in Nat
    BY <1>13 DEF Sends, DataTypes
  <1>14. CASE Cancel
    <2>1. table \in Objects /\ Drain(table) /\ budget' \in Nat /\ cancelled' \subseteq Turns
      BY <1>14, <1>13 DEF Cancel, CancelInFlight, CoreTypes, DataTypes
    <2> QED BY <1>14, <1>12, <1>b, <2>1, SMTT(30) DEF Cancel, DataTypes, logVars
  <1>15. CASE CloseSession
    <2>1. table \in Objects /\ Drain(table) /\ budget' \in Nat /\ cancelled' \subseteq Turns
      BY <1>15, <1>13 DEF CloseSession, CancelInFlight, CoreTypes, DataTypes
    <2> QED BY <1>15, <1>12, <1>b, <2>1 DEF CloseSession, DataTypes, logVars
  <1>16. ASSUME NEW t \in Turns, CancelRequest(t) PROVE DataTypes'
    <2>1. budget' \in Nat
      BY <1>16, <1>13 DEF CancelRequest
    <2>2. /\ cancelled' \subseteq Turns
          /\ answer' \in [Turns -> Answers] /\ comp' \in [Turns -> Answers]
      <3>1. /\ cancelled' \in {cancelled, cancelled \cup {t}}
            /\ \/ answer' = answer \/ answer' = [answer EXCEPT ![t] = "withdrawn"]
               \/ answer' = [answer EXCEPT ![wait[t]] = "cancelled", ![t] = "withdrawn"]
            /\ comp' = comp \/ comp' = [comp EXCEPT ![wait[t]] = "cancelled"]
        BY <1>16 DEF CancelRequest, Return
      <3>2. /\ cancelled \subseteq Turns
            /\ answer \in [Turns -> Answers] /\ comp \in [Turns -> Answers]
            /\ "withdrawn" \in Answers /\ "cancelled" \in Answers
        BY DEF DataTypes, Answers, Stops
      <3> QED BY <3>1, <3>2
    <2> QED BY <1>16, <2>1, <2>2 DEF CancelRequest, DataTypes, sessVars, logVars, evictVars
  <1>17. ASSUME NEW t \in Turns, RetryAnswered(t) PROVE DataTypes'
    <2>1. wait[t] \in Turns
      BY <1>17 DEF RetryAnswered, RetryInv, RetriesWait, Awaiting
    <2>2. \E a \in Answers : answer' = [answer EXCEPT ![t] = a]
      BY <1>17, <2>1 DEF RetryAnswered, Return, DataTypes, Answers, Stops
    <2>3. answer' \in [Turns -> Answers]
      BY <2>2 DEF DataTypes
    <2> QED BY <1>17, <2>3 DEF RetryAnswered, DataTypes, sessVars, logVars, connVars, evictVars
  <1>18. CASE SessionClosed \/ Attach \/ UNCHANGED vars
    BY <1>18 DEF SessionClosed, Attach, DataTypes, vars, sessVars, logVars, connVars,
                 evictVars, CoreTypes
  <1>19. CASE Disconnect
    <2>1. budget' \in Nat
      BY <1>19, <1>13 DEF Disconnect
    <2>2. \/ UNCHANGED <<senders, checks>>
          \/ /\ table \in Objects
             /\ senders' = [senders EXCEPT ![table] = FALSE]
             /\ checks' = [checks EXCEPT ![table] = checks[table] + 1]
      BY <1>19 DEF Disconnect, CoreTypes
    <2>3. senders' \in [Objects -> BOOLEAN] /\ checks' \in [Objects -> Nat]
      <3>1. senders \in [Objects -> BOOLEAN] /\ checks \in [Objects -> Nat]
        BY DEF DataTypes
      <3>2. checks' \in [Objects -> Nat]
        BY <2>2, <3>1
      <3>3. senders' \in [Objects -> BOOLEAN]
        BY <2>2, <3>1
      <3> QED BY <3>2, <3>3
    <2> QED BY <1>19, <2>1, <2>3 DEF Disconnect, DataTypes, logVars
  <1>20. ASSUME NEW o \in Objects, AttachLoaded(o) PROVE DataTypes'
    BY <1>20, <1>c DEF AttachLoaded, DataTypes, logVars, evictVars
  <1>21. ASSUME NEW o \in Objects, EvictCheck(o) \/ Evicted(o) PROVE DataTypes'
    <2>1. checks \in [Objects -> Nat] /\ evicting \in [Objects -> Nat]
      BY DEF DataTypes
    <2>2. CASE EvictCheck(o)
      <3>1. /\ checks[o] > 0 /\ checks' = [checks EXCEPT ![o] = checks[o] - 1]
            /\ evicting' \in {evicting, [evicting EXCEPT ![o] = evicting[o] + 1]}
        BY <2>2 DEF EvictCheck
      <3>2. checks' \in [Objects -> Nat] /\ evicting' \in [Objects -> Nat]
        BY <3>1, <2>1
      <3> QED BY <2>2, <3>2 DEF EvictCheck, DataTypes, sessVars, logVars, connVars
    <2>3. CASE Evicted(o)
      <3>1. evicting[o] > 0 /\ evicting' = [evicting EXCEPT ![o] = evicting[o] - 1]
        BY <2>3 DEF Evicted
      <3>2. evicting' \in [Objects -> Nat]
        BY <3>1, <2>1
      <3> QED BY <2>3, <3>2 DEF Evicted, DataTypes, logVars, connVars
    <2> QED BY <1>21, <2>2, <2>3
  <1> QED BY <1>1, <1>2, <1>3, <1>4, <1>5, <1>6, <1>7, <1>8, <1>9, <1>10, <1>11, <1>14, <1>15,
             <1>16, <1>17, <1>18, <1>19, <1>20, <1>21
          DEF Next, CoreStep, RequestStep, Ask, ManagerStep

(***************************************************************************)
(* Every step keeps the invariant about retries.                           *)
(***************************************************************************)
LEMMA RetryStep ==
  ASSUME CoreTypes, CoreTypes', TurnInv, DataTypes, RetryInv, [Next]_vars
  PROVE  RetryInv'
  <1> USE TurnsAssumption
  <1>a. \A t \in Turns : pc[t] \in Core \cup {"lookup", "queued", "popped"} => of[t] \in Objects
    BY DEF TurnInv, HoldsObject
  <1>b. \A t \in Turns : pc[t] \in Asking \cup Awaiting => answer[t] = "pending"
    BY DEF RetryInv, Unanswered
  <1>c. ASSUME UNCHANGED <<pc, answer, comp>>, UNCHANGED wait,
               \A o \in Objects : inflight'[o] \in {inflight[o], None}
        PROVE  RetryInv'
    <2>1. \A u \in Turns : MovesOn(u)
      BY <1>c DEF MovesOn
    <2> QED BY <1>c, <2>1, PointStep
  <1>d. ASSUME NEW t \in Turns, NEW p, pc' = [pc EXCEPT ![t] = p],
               \/ /\ pc[t] \in Asking /\ p \in Asking \cup Underway
                  /\ p = "lookup" => Id[t] # None
               \/ pc[t] \in Core /\ p \in Core
               \/ pc[t] \in {"queued", "popped"} /\ p \in Underway,
               UNCHANGED <<answer, comp, wait>>,
               \A o \in Objects : \/ inflight'[o] \in {inflight[o], None}
                                  \/ /\ inflight'[o] = t /\ p \in Core
                                     /\ pc[t] \in Asking \cup {"popped"}
        PROVE  RetryInv'
    <2>1. pc'[t] = p /\ \A u \in Turns \ {t} : pc'[u] = pc[u]
      BY <1>d DEF CoreTypes
    <2>2. \A u \in Turns : MovesOn(u)
      BY <1>d, <2>1 DEF MovesOn
    <2>3. \A o \in Objects, u \in Turns : inflight'[o] = u =>
            inflight[o] = u \/ (pc[u] \in Asking \cup {"popped"} /\ pc'[u] \in Core)
      BY <1>d, <2>1
    <2> QED BY <1>d, <2>2, <2>3, PointStep
  <1>e. ASSUME NEW t \in Turns, NEW a, pc[t] \in Asking, a # "pending", Return(t, a),
               UNCHANGED <<comp, wait, inflight>>
        PROVE  RetryInv'
    <2>1. /\ pc'[t] = "over" /\ answer'[t] = a
          /\ \A u \in Turns \ {t} : pc'[u] = pc[u] /\ answer'[u] = answer[u]
      BY <1>e DEF Return, CoreTypes, DataTypes
    <2>2. \A u \in Turns : MovesOn(u) \/ Leaves(u)
      BY <1>e, <2>1, <1>b DEF MovesOn, Leaves
    <2> QED BY <1>e, <2>2, PointStep
  <1>f. ASSUME NEW t \in Turns, NEW o \in Objects, pc[t] \in Asking, _enqueue_turn(t, o),
               UNCHANGED <<answer, comp, wait, inflight>>
        PROVE  RetryInv'
    <2> DEFINE q == Append(queue[o], t)
    <2>1. t \notin Elems(queue[o])
      BY <1>f, Unfold DEF Asking
    <2>2. Wf(q) /\ Elems(q) = Elems(queue[o]) \cup {t} /\ q # <<>>
      BY <2>1, Unfold, AppendWf
    <2>3. Head(q) \in Elems(q) /\ Head(q) \in Turns
      BY <2>2, TailWf
    <2>4. \/ pc' = [pc EXCEPT ![t] = "queued", ![Head(q)] = "popped"]
          \/ pc' = [pc EXCEPT ![t] = "queued"]
      BY <1>f DEF _enqueue_turn
    <2> HIDE DEF q
    <2>5. Head(q) = t \/ pc[Head(q)] = "queued"
      BY <2>2, <2>3, Unfold
    <2>6. /\ pc'[t] \in {"queued", "popped"}
          /\ \A u \in Turns \ {t} : pc'[u] = pc[u] \/ (pc[u] = "queued" /\ pc'[u] = "popped")
      BY <2>3, <2>4, <2>5 DEF CoreTypes
    <2>7. \A u \in Turns : MovesOn(u)
      BY <1>f, <2>6 DEF MovesOn, Underway, Asking
    <2> QED BY <1>f, <2>7, PointStep
  <1>g. ASSUME NEW t \in Turns, NEW o \in Objects, pc[t] \in Asking, Admit(t, o),
               UNCHANGED <<comp, wait>>
        PROVE  RetryInv'
    <2>1. CASE BeginCore(t, o) /\ UNCHANGED answer
      <3>1. /\ pc' = [pc EXCEPT ![t] = "setup"] /\ "setup" \in Core
            /\ \A p \in Objects : inflight'[p] \in {inflight[p], None} \/ inflight'[p] = t
        BY <2>1 DEF BeginCore, Core, CoreTypes
      <3> QED BY <1>g, <2>1, <3>1, <1>d DEF Underway
    <2>2. CASE Return(t, "refused") /\ UNCHANGED inflight
      BY <1>g, <2>2, <1>e
    <2>3. CASE _enqueue_turn(t, o) /\ UNCHANGED <<inflight, answer>>
      BY <1>g, <2>3, <1>f
    <2> QED BY <1>g, <2>1, <2>2, <2>3 DEF Admit
  <1>1. CASE RunQueued
    <2>0. PICK t : t = Head(ready)
      OBVIOUS
    <2>1. t \in Turns /\ pc[t] = "popped"
      BY <1>1, <2>0, Unfold, TailWf DEF RunQueued
    <2>2. /\ pc' = [pc EXCEPT ![t] = "setup"] /\ "setup" \in Core /\ "setup" \in Underway
          /\ \A p \in Objects : inflight'[p] \in {inflight[p], None} \/ inflight'[p] = t
          /\ UNCHANGED <<answer, comp, wait>>
      BY <1>1, <2>0 DEF RunQueued, BeginCore, Core, CoreTypes, Underway
    <2> QED BY <2>1, <2>2, <1>d
  <1>2. ASSUME NEW t \in Turns, PromptNotFound(t) PROVE RetryInv'
    <2>1. pc[t] \in Asking /\ Return(t, "refused") /\ UNCHANGED <<comp, wait, inflight>>
      BY <1>2 DEF PromptNotFound, Asks, Asking, sessVars
    <2> QED BY <2>1, <1>e
  <1>3. ASSUME NEW t \in Turns, PromptWithoutId(t) PROVE RetryInv'
    <2>1. table \in Objects /\ pc[t] \in Asking /\ Admit(t, table) /\ UNCHANGED <<comp, wait>>
      BY <1>3 DEF PromptWithoutId, Asks, Asking, CoreTypes
    <2> QED BY <2>1, <1>g
  <1>4. ASSUME NEW t \in Turns, PromptWithId(t) PROVE RetryInv'
    <2>1. /\ table \in Objects /\ pc[t] = "new" /\ Id[t] # None
          /\ UNCHANGED <<answer, comp, inflight>>
      BY <1>4 DEF PromptWithId, Asks, sessVars, CoreTypes
    <2>2. CASE pc' = [pc EXCEPT ![t] = "lookup"] /\ UNCHANGED wait
      BY <2>1, <2>2, <1>d DEF Asking
    <2>3. ASSUME NEW u \in Turns, NEW w \in Awaiting, inflight[table] = u \/ u \in InQueue(table),
                 pc' = [pc EXCEPT ![t] = w], wait' = [wait EXCEPT ![t] = u]
          PROVE  RetryInv'
      <3>1. CASE inflight[table] = u
        <4>1. pc[u] \in Underway \cup {"over"} /\ wait[u] = None
          BY <2>1, <3>1 DEF RetryInv, InFlightIsNoRetry, Underway
        <4> QED BY <2>1, <2>3, <4>1, JoinStep
      <3>2. CASE u \in InQueue(table)
        <4>1. u \in Elems(queue[table])
          BY <3>2 DEF InQueue, Elems
        <4>2. pc[u] = "queued"
          BY <2>1, <4>1, Unfold
        <4>3. pc[u] \in Underway \cup {"over"} /\ wait[u] = None
          BY <4>2 DEF RetryInv, RetriesWait, Underway, Awaiting
        <4> QED BY <2>1, <2>3, <4>3, JoinStep
      <3> QED BY <2>3, <3>1, <3>2
    <2>4. InQueue(table) \subseteq Turns
      BY <2>1 DEF InQueue, DataTypes
    <2>5. \/ pc' = [pc EXCEPT ![t] = "lookup"] /\ UNCHANGED wait
          \/ \E u \in Turns, w \in Awaiting :
               /\ inflight[table] = u \/ u \in InQueue(table)
               /\ pc' = [pc EXCEPT ![t] = w] /\ wait' = [wait EXCEPT ![t] = u]
      BY <1>4, <2>4 DEF PromptWithId, Awaiting
    <2> QED BY <2>2, <2>3, <2>5
  <1>5. ASSUME NEW t \in Turns, PromptLookedUp(t) PROVE RetryInv'
    <2>1. of[t] \in Objects /\ pc[t] \in Asking /\ UNCHANGED <<comp, wait>>
      BY <1>5, <1>a DEF PromptLookedUp, Asking
    <2>2. CASE Admit(t, of[t])
      BY <2>1, <2>2, <1>g
    <2>3. CASE ~Admit(t, of[t])
      <3>1. PICK a : Return(t, a) /\ a = IF stored[Id[t]] = "incomplete" THEN "refused"
                                         ELSE stored[Id[t]]
        BY <1>5, <2>3 DEF PromptLookedUp
      <3>2. stored[Id[t]] \in {"none", "incomplete"} \cup Stops
        BY <1>5 DEF PromptLookedUp, RetryInv, LooksUpAnId, DataTypes
      <3>3. a # "pending" /\ UNCHANGED inflight
        BY <1>5, <2>3, <3>1, <3>2 DEF PromptLookedUp, Stops
      <3> QED BY <2>1, <3>1, <3>3, <1>e
    <2> QED BY <2>2, <2>3
  <1>6. ASSUME NEW t \in Turns, GatewayTurn(t) PROVE RetryInv'
    <2>1. pc[t] \in Asking /\ UNCHANGED <<answer, comp, wait, inflight>>
      BY <1>6 DEF GatewayTurn, Asking
    <2>2. CASE table # None
      BY <1>6, <2>1, <2>2, <1>f DEF GatewayTurn, CoreTypes
    <2>3. CASE table = None
      BY <1>6, <2>1, <2>3, <1>d DEF GatewayTurn, Asking
    <2> QED BY <2>2, <2>3
  <1>7. ASSUME NEW t \in Turns, NEW o \in Objects, GatewayLoaded(t, o) PROVE RetryInv'
    <2>1. /\ pc[t] \in Asking /\ pc' = [pc EXCEPT ![t] = "popped"]
          /\ UNCHANGED <<answer, comp, wait>>
          /\ \A p \in Objects : inflight'[p] \in {inflight[p], None}
      BY <1>7 DEF GatewayLoaded, Asking, CoreTypes
    <2> QED BY <2>1, <1>d DEF Underway
  <1>8. ASSUME NEW t \in Turns,
               SetupDone(t) \/ QueryEnds(t) \/ QueryCancelled(t) \/ CancelWritten(t)
        PROVE  RetryInv'
    <2>1. PICK p \in Core : pc' = [pc EXCEPT ![t] = p]
      BY <1>8 DEF SetupDone, QueryEnds, QueryCancelled, CancelWritten, Core
    <2>2. pc[t] \in Core /\ UNCHANGED <<answer, comp, wait, inflight>>
      BY <1>8 DEF SetupDone, QueryEnds, QueryCancelled, CancelWritten, Core, sessVars
    <2> QED BY <2>1, <2>2, <1>d
  <1>9. ASSUME NEW t \in Turns, CloseTurn(t) PROVE RetryInv'
    <2>1. /\ pc[t] = "closing" /\ pc[t] \in Core /\ of[t] \in Objects
          /\ comp' = Settle(comp, t, StopReason(t)) /\ answer' = Settle(answer, t, stop[t])
          /\ inflight' = [inflight EXCEPT ![of[t]] = None] /\ UNCHANGED wait
      BY <1>9, <1>a DEF CloseTurn, ClearInFlight, Core
    <2>2. /\ pc'[t] = "over"
          /\ \A u \in Turns \ {t} : pc'[u] = pc[u] \/ (pc[u] = "queued" /\ pc'[u] = "popped")
      <3>1. CASE queue[of[t]] # <<>>
        <4>1. pc' = [pc EXCEPT ![t] = "over", ![Head(queue[of[t]])] = "popped"]
          BY <1>9, <3>1 DEF CloseTurn, _maybe_dispatch_next
        <4>2. pc[Head(queue[of[t]])] = "queued" /\ Head(queue[of[t]]) \in Turns
          BY <2>1, <3>1, TailWf, Unfold
        <4> QED BY <2>1, <4>1, <4>2 DEF CoreTypes
      <3>2. CASE queue[of[t]] = <<>>
        BY <1>9, <3>2 DEF CloseTurn, _maybe_dispatch_next, CoreTypes
      <3> QED BY <3>1, <3>2
    <2>3. \A u \in Turns \ {t} : answer'[u] = answer[u] /\ comp'[u] = comp[u]
      BY <2>1 DEF Settle, DataTypes
    <2>4. Closes(t)
      BY <2>1, <2>2 DEF Closes, Settle, StopReason, DataTypes
    <2>5. \A u \in Turns \ {t} : MovesOn(u)
      BY <2>2, <2>3 DEF MovesOn, Underway
    <2>6. \A o \in Objects, u \in Turns : inflight'[o] = u => inflight[o] = u
      BY <2>1 DEF CoreTypes
    <2> QED BY <2>1, <2>4, <2>5, <2>6, PointStep
  <1>10. ASSUME NEW t \in Turns, TurnAborts(t) PROVE RetryInv'
    <2>1. /\ pc[t] \in Underway /\ pc' = [pc EXCEPT ![t] = "over"]
          /\ UNCHANGED <<comp, wait, inflight>>
      BY <1>10 DEF TurnAborts, Underway, Core, sessVars
    <2>2. PICK a \in {"stranded", "cancelled", "withdrawn", "raised"} :
              answer' = Settle(answer, t, a)
      BY <1>10 DEF TurnAborts, Dropped
    <2>3. /\ pc'[t] = "over" /\ Leaves(t)
      BY <2>1, <2>2 DEF CoreTypes, DataTypes, Leaves, Settle
    <2>4. \A u \in Turns \ {t} : MovesOn(u)
      BY <2>1, <2>2 DEF MovesOn, CoreTypes, DataTypes, Settle
    <2> QED BY <2>1, <2>3, <2>4, PointStep
  <1>11. ASSUME NEW o \in Objects, Drain(o), UNCHANGED <<comp, wait>>,
                UNCHANGED inflight \/ ClearInFlight(o)
         PROVE  RetryInv'
    <2>1. ASSUME NEW u \in Turns PROVE MovesOn(u) \/ Leaves(u)
      <3>1. CASE u \in InQueue(o)
        <4>1. pc[u] \in Underway
          BY <3>1, Unfold DEF InQueue, Elems, Underway
        <4>2. pc'[u] = "over" /\ comp'[u] = comp[u]
              /\ answer'[u] = IF answer[u] = "pending" THEN Dropped(u) ELSE answer[u]
          BY <1>11, <3>1 DEF Drain
        <4> QED BY <4>1, <4>2 DEF Leaves, Dropped
      <3>2. CASE u \notin InQueue(o)
        BY <1>11, <3>2 DEF Drain, MovesOn
      <3> QED BY <3>1, <3>2
    <2>2. \A p \in Objects, u \in Turns : inflight'[p] = u => inflight[p] = u
      BY <1>11 DEF ClearInFlight, CoreTypes
    <2> QED BY <1>11, <2>1, <2>2, PointStep
  <1>12. CASE Cancel
    BY <1>12, <1>11 DEF Cancel, CoreTypes
  <1>13. CASE CloseSession
    BY <1>13, <1>11 DEF CloseSession, CoreTypes
  <1>14. ASSUME NEW t \in Turns, CancelRequest(t) PROVE RetryInv'
    <2>1. UNCHANGED <<wait, inflight>>
      BY <1>14 DEF CancelRequest, sessVars
    <2>2. CASE UNCHANGED <<pc, answer, comp>>
      BY <2>1, <2>2, <1>c
    <2>3. CASE pc[t] = "lookup" /\ Return(t, "withdrawn") /\ UNCHANGED comp
      BY <2>1, <2>3, <1>e DEF Asking
    <2>4. CASE /\ pc[t] \in Core \cup {"queued", "popped"} /\ answer[t] = "pending"
               /\ answer' = [answer EXCEPT ![t] = "withdrawn"] /\ UNCHANGED <<pc, comp>>
      <3>1. Leaves(t) /\ \A u \in Turns \ {t} : MovesOn(u)
        BY <2>4 DEF Leaves, MovesOn, Underway, DataTypes
      <3> QED BY <2>1, <2>4, <3>1, PointStep
    <2>5. CASE /\ pc[t] = "onQueue" /\ answer[wait[t]] = "pending"
               /\ answer' = [answer EXCEPT ![wait[t]] = "cancelled", ![t] = "withdrawn"]
               /\ pc' = [pc EXCEPT ![t] = "over"] /\ UNCHANGED comp
      <3>0. PICK u : u = wait[t]
        OBVIOUS
      <3>1. u \in Turns /\ pc[t] \in Awaiting
        BY <2>5, <3>0 DEF RetryInv, RetriesWait, Awaiting
      <3>2. answer'[t] = "withdrawn" /\ \A v \in Turns \ {t, u} : answer'[v] = answer[v]
        BY <2>5, <3>0, <3>1 DEF DataTypes
      <3>3. answer[u] = "pending" /\ comp' = comp /\ pc' = [pc EXCEPT ![t] = "over"]
        BY <2>5, <3>0
      <3> QED BY <2>1, <3>0, <3>1, <3>2, <3>3, AwaitEnds
    <2>6. CASE /\ pc[t] = "onFlight" /\ comp' = [comp EXCEPT ![wait[t]] = "cancelled"]
               /\ Return(t, "withdrawn")
      <3>0. PICK u : u = wait[t]
        OBVIOUS
      <3>1. u \in Turns /\ pc[t] \in Awaiting /\ pc' = [pc EXCEPT ![t] = "over"]
        BY <2>6, <3>0 DEF RetryInv, RetriesWait, Awaiting, Return
      <3>2. u # t
        BY <3>0, <3>1 DEF RetryInv, RetriesWait, Awaiting, Underway, Core
      <3>3. /\ answer'[t] = "withdrawn" /\ \A v \in Turns \ {t} : answer'[v] = answer[v]
            /\ \A v \in Turns \ {u} : comp'[v] = comp[v]
        BY <2>6, <3>0, <3>1 DEF DataTypes, Return
      <3>4. /\ answer'[u] = answer[u] /\ comp'[t] = comp[t]
            /\ \A v \in Turns \ {t, u} : answer'[v] = answer[v] /\ comp'[v] = comp[v]
        BY <3>1, <3>2, <3>3
      <3> QED BY <2>1, <3>0, <3>1, <3>3, <3>4, AwaitEnds
    <2> QED BY <1>14, <2>2, <2>3, <2>4, <2>5, <2>6 DEF CancelRequest
  <1>15. ASSUME NEW t \in Turns, RetryAnswered(t) PROVE RetryInv'
    <2>0. PICK u : u = wait[t]
      OBVIOUS
    <2>1. /\ u \in Turns /\ pc[t] \in Awaiting /\ pc' = [pc EXCEPT ![t] = "over"]
          /\ UNCHANGED <<comp, wait, inflight>>
      BY <1>15, <2>0 DEF RetryAnswered, RetryInv, RetriesWait, Awaiting, Return, sessVars
    <2>2. u # t
      BY <2>0, <2>1 DEF RetryInv, RetriesWait, Awaiting, Underway, Core
    <2>3. PICK a \in {answer[u], comp[u]} :
            /\ a # "pending"
            /\ answer' = [answer EXCEPT ![t] = IF a = "withdrawn" THEN "cancelled" ELSE a]
      BY <1>15, <2>0 DEF RetryAnswered, Return
    <2>4. /\ answer'[t] = IF a = "withdrawn" THEN "cancelled" ELSE a
          /\ \A v \in Turns \ {t} : answer'[v] = answer[v]
      BY <2>3 DEF DataTypes
    <2> QED BY <2>0, <2>1, <2>2, <2>3, <2>4, AwaitEnds
  <1>16. CASE SessionClosed \/ Attach \/ Disconnect \/ UNCHANGED vars
    <2>1. UNCHANGED <<pc, answer, comp, wait, inflight>>
      BY <1>16 DEF SessionClosed, Attach, Disconnect, vars, sessVars
    <2> QED BY <2>1, <1>c
  <1>17. ASSUME NEW o \in Objects, AttachLoaded(o) \/ EvictCheck(o) \/ Evicted(o)
         PROVE  RetryInv'
    <2>1. /\ UNCHANGED <<pc, answer, comp, wait>>
          /\ \A p \in Objects : inflight'[p] \in {inflight[p], None}
      BY <1>17 DEF AttachLoaded, EvictCheck, Evicted, sessVars, CoreTypes
    <2> QED BY <2>1, <1>c
  <1> QED BY <1>1, <1>2, <1>3, <1>4, <1>5, <1>6, <1>7, <1>8, <1>9, <1>10, <1>12, <1>13, <1>14,
             <1>15, <1>16, <1>17 DEF Next, CoreStep, RequestStep, Ask, ManagerStep

\* The initial states.
LEMMA InitRetry == Init => DataTypes /\ RetryInv
  <1> SUFFICES ASSUME Init PROVE DataTypes /\ RetryInv
    OBVIOUS
  <1> USE TurnsAssumption
  <1>1. DataTypes
    BY DEF Init, DataTypes, Stops, Answers
  <1>2. /\ \A t \in Turns : /\ pc[t] = "new" /\ wait[t] = None
                            /\ answer[t] = "pending" /\ comp[t] = "pending"
        /\ \A o \in Objects : inflight[o] = None
    BY DEF Init
  <1>3. RetryInv
    BY <1>2 DEF RetryInv, RetriesWait, LooksUpAnId, InFlightIsNoRetry, Unanswered,
                FuturesAgree, RetryAgrees, Awaiting
  <1> QED BY <1>1, <1>3

\* The whole invariant holds in every reachable state.
LEMMA TurnsInvariant == Spec => [](CoreTypes /\ TurnInv /\ DataTypes /\ RetryInv)
  <1>1. ASSUME CoreTypes, TurnInv, DataTypes, RetryInv, [Next]_vars
        PROVE  CoreTypes' /\ TurnInv' /\ DataTypes' /\ RetryInv'
    <2>1. CoreTypes' /\ TurnInv'
      BY <1>1, NextInv
    <2>2. DataTypes' /\ RetryInv'
      BY <1>1, <2>1, DataStep, RetryStep
    <2> QED BY <2>1, <2>2
  <1> QED BY InitInv, InitRetry, <1>1, PTL DEF Spec

\* The state of the turn queue keeps its types: every coroutine that goes on reads
\* a Session object, a future or an id that is there.
THEOREM SessionTypes == Spec => []TypeOK
  <1>1. CoreTypes /\ DataTypes => TypeOK
    BY AllTypes
  <1> QED BY <1>1, TurnsInvariant, PTL

\* However many retries of however many prompts there are, and whatever is cancelled,
\* closed, evicted or reloaded meanwhile: a retry that joined a turn is answered as
\* that turn is, unless the turn raised or a client withdrew a request for it.
THEOREM RetryIsTold == Spec => []RetryGetsTheAnswer
  <1>1. RetryInv => RetryGetsTheAnswer
    BY DEF RetryInv, RetryAgrees, RetryGetsTheAnswer
  <1> QED BY <1>1, TurnsInvariant, PTL
=============================================================================
