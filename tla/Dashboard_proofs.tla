-------------------------- MODULE Dashboard_proofs --------------------------
(***************************************************************************)
(* Theorems about the dashboard, for any number of devices, handlers and   *)
(* streams, queues of any capacity and any values.                         *)
(***************************************************************************)
EXTENDS Dashboard, SequenceTheorems, TLAPS

-----------------------------------------------------------------------------
(* Queues and wires as sequences: what is appended, what is taken away. *)

\* Behind a queue whose events are kept, new events about d0 settle d0 ...
LEMMA ConcatSettles ==
  ASSUME NEW q \in Seq(Event), NEW events \in Seq(Event), NEW d \in Dev, NEW o,
         Len(events) > 0, events[Len(events)].dev = d, Told(events[Len(events)], o)
  PROVE  QueueSettles(q \o events, d, o)
<1>1. /\ Len(q) \in Nat /\ Len(events) \in Nat
      /\ Len(q \o events) = Len(q) + Len(events)
      /\ \A i \in 1..Len(q) + Len(events) :
           (q \o events)[i] = IF i <= Len(q) THEN q[i] ELSE events[i - Len(q)]
  BY ConcatProperties, LenProperties
<1> DEFINE n == Len(q) + Len(events)
<1>2. n \in 1..Len(q \o events) /\ (q \o events)[n] = events[Len(events)]
  BY <1>1
<1>3. QED
  BY <1>1, <1>2 DEF QueueSettles

\* ... and leave what is said of the others as it is.
LEMMA ConcatOther ==
  ASSUME NEW q \in Seq(Event), NEW events \in Seq(Event), NEW d \in Dev, NEW o,
         \A i \in 1..Len(events) : events[i].dev # d
  PROVE  /\ QueueSilent(q, d) => QueueSilent(q \o events, d)
         /\ QueueSettles(q, d, o) => QueueSettles(q \o events, d, o)
<1>1. /\ Len(q) \in Nat /\ Len(events) \in Nat
      /\ Len(q \o events) = Len(q) + Len(events)
      /\ \A i \in 1..Len(q) + Len(events) :
           (q \o events)[i] = IF i <= Len(q) THEN q[i] ELSE events[i - Len(q)]
  BY ConcatProperties, LenProperties
<1>2. \A i \in 1..Len(q) + Len(events) : i > Len(q) => (q \o events)[i].dev # d
  BY <1>1
<1>3. QED
  BY <1>1, <1>2 DEF QueueSilent, QueueSettles

\* The first event is taken off a queue: either it was the last about d, and is
\* true, or what is said of d stays.
LEMMA TailOfQueue ==
  ASSUME NEW q \in Seq(Event), q # <<>>, NEW d \in Dev, NEW o
  PROVE  /\ QueueSilent(q, d) => QueueSilent(Tail(q), d) /\ Head(q).dev # d
         /\ QueueSettles(q, d, o) =>
              \/ QueueSettles(Tail(q), d, o)
              \/ QueueSilent(Tail(q), d) /\ Head(q).dev = d /\ Told(Head(q), o)
<1>1. /\ Len(q) \in Nat \ {0}
      /\ Len(Tail(q)) = Len(q) - 1
      /\ \A i \in 1..Len(Tail(q)) : Tail(q)[i] = q[i + 1]
      /\ Head(q) = q[1]
  BY HeadTailProperties, EmptySeq
<1>2. \A i \in 2..Len(q) : i - 1 \in 1..Len(Tail(q)) /\ Tail(q)[i - 1] = q[i]
  BY <1>1
<1>3. QueueSilent(q, d) => QueueSilent(Tail(q), d) /\ Head(q).dev # d
  BY <1>1 DEF QueueSilent
<1>4. ASSUME QueueSettles(q, d, o)
      PROVE  \/ QueueSettles(Tail(q), d, o)
             \/ QueueSilent(Tail(q), d) /\ Head(q).dev = d /\ Told(Head(q), o)
  <2>1. PICK i \in 1..Len(q) : /\ q[i].dev = d /\ Told(q[i], o)
                               /\ \A j \in 1..Len(q) : j > i => q[j].dev # d
    BY <1>4 DEF QueueSettles
  <2>2. CASE i = 1
    BY <1>1, <2>1, <2>2 DEF QueueSilent
  <2>3. CASE i # 1
    <3>1. /\ i - 1 \in 1..Len(Tail(q)) /\ Tail(q)[i - 1] = q[i]
          /\ \A j \in 1..Len(Tail(q)) : j > i - 1 => Tail(q)[j].dev # d
      BY <1>1, <1>2, <2>1, <2>3
    <3>2. QED
      BY <2>1, <3>1 DEF QueueSettles
  <2>4. QED
    BY <2>2, <2>3
<1>5. QED
  BY <1>3, <1>4

\* A message is written behind the others.
LEMMA WireAppend ==
  ASSUME NEW w \in Seq(Message), NEW m \in Message, NEW d \in Dev, NEW x
  PROVE  /\ About(m, d) /\ Shows(m, d) = x => WireSettles(Append(w, m), d, x)
         /\ ~About(m, d) => /\ WireSettles(w, d, x) => WireSettles(Append(w, m), d, x)
                            /\ WireSilent(w, d) => WireSilent(Append(w, m), d)
<1> DEFINE v == Append(w, m)
<1>1. /\ Len(w) \in Nat /\ Len(v) = Len(w) + 1 /\ v[Len(w) + 1] = m
      /\ \A i \in 1..Len(w) : v[i] = w[i]
  BY LenProperties, AppendProperties
<1> HIDE DEF v
<1>2. ASSUME About(m, d), Shows(m, d) = x PROVE WireSettles(v, d, x)
  BY <1>1, <1>2 DEF WireSettles
<1>3. ASSUME ~About(m, d), WireSettles(w, d, x) PROVE WireSettles(v, d, x)
  BY <1>1, <1>3 DEF WireSettles
<1>4. ASSUME ~About(m, d), WireSilent(w, d) PROVE WireSilent(v, d)
  BY <1>1, <1>4 DEF WireSilent
<1>5. QED
  BY <1>2, <1>3, <1>4 DEF v

\* The page takes the first message.
LEMMA TailOfWire ==
  ASSUME NEW w \in Seq(Message), w # <<>>, NEW d \in Dev, NEW x
  PROVE  /\ WireSilent(w, d) => WireSilent(Tail(w), d) /\ ~About(Head(w), d)
         /\ WireSettles(w, d, x) =>
              \/ WireSettles(Tail(w), d, x)
              \/ WireSilent(Tail(w), d) /\ About(Head(w), d) /\ Shows(Head(w), d) = x
<1>1. /\ Len(w) \in Nat \ {0}
      /\ Len(Tail(w)) = Len(w) - 1
      /\ \A i \in 1..Len(Tail(w)) : Tail(w)[i] = w[i + 1]
      /\ Head(w) = w[1]
  BY HeadTailProperties, EmptySeq
<1>2. \A i \in 2..Len(w) : i - 1 \in 1..Len(Tail(w)) /\ Tail(w)[i - 1] = w[i]
  BY <1>1
<1>3. WireSilent(w, d) => WireSilent(Tail(w), d) /\ ~About(Head(w), d)
  BY <1>1 DEF WireSilent
<1>4. ASSUME WireSettles(w, d, x)
      PROVE  \/ WireSettles(Tail(w), d, x)
             \/ WireSilent(Tail(w), d) /\ About(Head(w), d) /\ Shows(Head(w), d) = x
  <2>1. PICK i \in 1..Len(w) : /\ About(w[i], d) /\ Shows(w[i], d) = x
                               /\ \A j \in 1..Len(w) : j > i => ~About(w[j], d)
    BY <1>4 DEF WireSettles
  <2>2. CASE i = 1
    BY <1>1, <2>1, <2>2 DEF WireSilent
  <2>3. CASE i # 1
    <3>1. /\ i - 1 \in 1..Len(Tail(w)) /\ Tail(w)[i - 1] = w[i]
          /\ \A j \in 1..Len(Tail(w)) : j > i - 1 => ~About(Tail(w)[j], d)
      BY <1>1, <1>2, <2>1, <2>3
    <3>2. QED
      BY <2>1, <3>1 DEF WireSettles
  <2>4. QED
    BY <2>2, <2>3
<1>5. QED
  BY <1>3, <1>4

-----------------------------------------------------------------------------
(* The steps. *)

\* A queue of a subscriber is a sequence of events.
LEMMA QueueType ==
  ASSUME TypeOK, NEW s \in Stream, Subscribed(s)
  PROVE  queue[s] \in Seq(Event) /\ Len(queue[s]) \in Nat /\ Len(queue[s]) <= QueueMax
  BY LenProperties DEF TypeOK, Subscribed

\* Publishing keeps the queues bounded, and a queue that missed nothing has all.
LEMMA PublishQueues ==
  ASSUME TypeOK, NEW events \in Seq(Event), Publish(events)
  PROVE  /\ queue' \in [Stream -> Seq(Event) \cup {None}]
         /\ missed' \in [Stream -> BOOLEAN]
         /\ \A s \in Stream :
              /\ Subscribed(s)' <=> Subscribed(s)
              /\ Subscribed(s) => Len(queue'[s]) <= QueueMax
              /\ Subscribed(s) /\ ~missed'[s] => ~missed[s] /\ queue'[s] = queue[s] \o events
<1>1. ASSUME NEW s \in Stream, Subscribed(s)
      PROVE  /\ queue'[s] \in Seq(Event) /\ Len(queue'[s]) <= QueueMax
             /\ Len(events) <= Room(s) => queue'[s] = queue[s] \o events
  <2>1. /\ queue[s] \in Seq(Event) /\ Len(queue[s]) \in Nat /\ Len(queue[s]) <= QueueMax
        /\ Len(events) \in Nat
    BY <1>1, QueueType, LenProperties
  <2>2. /\ queue[s] \o events \in Seq(Event)
        /\ Len(queue[s] \o events) = Len(queue[s]) + Len(events)
    BY <2>1, ConcatProperties
  <2>3. CASE Len(events) <= Room(s)
    <3>1. queue'[s] = queue[s] \o events
      BY <1>1, <2>3, Zenon DEF Publish
    <3>2. Len(queue[s]) + Len(events) <= QueueMax
      BY <2>1, <2>3, BoundsAssumption DEF Room
    <3>3. QED
      BY <2>2, <3>1, <3>2
  <2>4. CASE ~(Len(events) <= Room(s))
    <3>1. queue'[s] = SubSeq(queue[s] \o events, 1, QueueMax)
      BY <1>1, <2>4, Zenon DEF Publish
    <3>2. PICK q \in Seq(Event) : q = queue[s] \o events
      BY <2>2
    <3>3. QueueMax \in 1..Len(q) + 1 /\ QueueMax <= Len(q)
      BY <2>1, <2>2, <2>4, <3>2, BoundsAssumption DEF Room
    <3>4. \A i \in 1..QueueMax : q[i] \in Event
      BY <3>3, LenProperties, ElementOfSeq
    <3>5. SubSeq(q, 1, QueueMax) \in Seq(Event) /\ Len(SubSeq(q, 1, QueueMax)) = QueueMax
      <4>1. 1 \in Int /\ QueueMax \in Int /\ QueueMax \in Nat /\ 1 <= QueueMax
        BY BoundsAssumption
      <4>2. SubSeq(q, 1, QueueMax) \in Seq(Event)
        BY <3>4, <4>1, SubSeqProperties
      <4>3. Len(SubSeq(q, 1, QueueMax)) = QueueMax - 1 + 1
        BY <3>4, <4>1, SubSeqProperties
      <4>4. QED
        BY <4>1, <4>2, <4>3
    <3>6. queue'[s] = SubSeq(q, 1, QueueMax)
      BY <3>1, <3>2, Zenon
    <3>7. queue'[s] \in Seq(Event) /\ Len(queue'[s]) = QueueMax
      BY <3>5, <3>6, Zenon
    <3>8. Len(queue'[s]) <= QueueMax
      BY <3>7, BoundsAssumption
    <3>9. QED
      BY <2>4, <3>7, <3>8, Zenon
  <2>5. QED
    BY <2>3, <2>4
<1>2. \A s \in Stream : ~Subscribed(s) => queue'[s] = None
  BY DEF Publish
<1>3. \A s \in Stream : Subscribed(s)' <=> Subscribed(s)
  BY <1>1, <1>2, NoneAssumption DEF Subscribed
<1>4. queue' \in [Stream -> Seq(Event) \cup {None}]
  <2>1. \A s \in Stream : queue'[s] \in Seq(Event) \cup {None}
    BY <1>1, <1>2
  <2>2. DOMAIN queue' = Stream /\ queue' = [s \in Stream |-> queue'[s]]
    BY DEF Publish
  <2>3. QED
    BY <2>1, <2>2
<1>5. missed' \in [Stream -> BOOLEAN] /\ \A s \in Stream :
         Subscribed(s) /\ ~missed'[s] => ~missed[s] /\ Len(events) <= Room(s)
  <2>1. \A s \in Stream :
          missed'[s] = (missed[s] \/ (Subscribed(s) /\ Len(events) > Room(s)))
    BY DEF Publish
  <2>2. missed' \in [Stream -> BOOLEAN]
    BY Zenon DEF Publish, TypeOK
  <2>3. ASSUME NEW s \in Stream, Subscribed(s), ~(Len(events) > Room(s))
        PROVE  Len(events) <= Room(s)
    BY <2>3, QueueType, LenProperties, BoundsAssumption DEF Room
  <2>4. QED
    BY <2>1, <2>2, <2>3
<1>6. QED
  BY <1>1, <1>3, <1>4, <1>5

\* The hub publishes events of device d, the last of which tells what is so; the
\* other devices are as before.
LEMMA PublishStep ==
  ASSUME IInv, NEW d \in Dev, NEW events \in Seq(Event), Publish(events),
         UNCHANGED <<at, broken, wire, page, view>>,
         Len(events) > 0, \A i \in 1..Len(events) : events[i].dev = d,
         Told(events[Len(events)], devices'[d]),
         \A e \in Dev \ {d} : devices'[e] = devices[e] /\ Shown'[e] = Shown[e]
  PROVE  /\ queue' \in [Stream -> Seq(Event) \cup {None}]
         /\ missed' \in [Stream -> BOOLEAN]
         /\ \A s \in Stream : queue'[s] # None => Len(queue'[s]) <= QueueMax
         /\ StreamsMatch' /\ PageFollows'
<1> USE DEF IInv
<1>1. /\ queue' \in [Stream -> Seq(Event) \cup {None}]
      /\ missed' \in [Stream -> BOOLEAN]
      /\ \A s \in Stream :
           /\ Subscribed(s)' <=> Subscribed(s)
           /\ Subscribed(s) => Len(queue'[s]) <= QueueMax
           /\ Subscribed(s) /\ ~missed'[s] => ~missed[s] /\ queue'[s] = queue[s] \o events
  BY PublishQueues
<1>2. StreamsMatch'
  BY <1>1 DEF StreamsMatch
<1>3. ASSUME NEW s \in Stream, NEW e \in Dev, page' = s, at'[s] = "streaming", ~missed'[s]
      PROVE  Follows(s, e)'
  <2>1. /\ Subscribed(s) /\ page = s /\ at[s] = "streaming" /\ ~missed[s]
        /\ queue'[s] = queue[s] \o events /\ queue[s] \in Seq(Event)
    BY <1>1, <1>3, QueueType DEF StreamsMatch
  <2>2. CASE e = d
    <3>1. events[Len(events)].dev = d
      BY LenProperties
    <3>2. QueueSettles(queue[s] \o events, d, devices'[d])
      BY <2>1, <3>1, ConcatSettles
    <3>3. QED
      BY <2>1, <2>2, <3>2 DEF Follows
  <2>3. CASE e # d
    <3>1. Follows(s, e)
      BY <2>1 DEF PageFollows
    <3>2. \A i \in 1..Len(events) : events[i].dev # e
      BY <2>3
    <3>3. /\ QueueSilent(queue[s], e) => QueueSilent(queue'[s], e)
          /\ QueueSettles(queue[s], e, devices[e]) => QueueSettles(queue'[s], e, devices[e])
      BY <2>1, <3>2, ConcatOther
    <3>4. devices'[e] = devices[e] /\ Shown'[e] = Shown[e]
      BY <2>3
    <3>5. QED
      BY <3>1, <3>3, <3>4 DEF Follows
  <2>4. QED
    BY <2>2, <2>3
<1>4. PageFollows'
  BY <1>3 DEF PageFollows
<1>5. QED
  BY <1>1, <1>2, <1>4 DEF Subscribed

\* The steps of the hub, one lemma each: they publish, the last event tells what
\* is so, and nothing of another device changes.
LEMMA IdentifyStep ==
  ASSUME IInv, NEW d \in Dev, NEW o \in Obj, Identify(d, o)
  PROVE  IInv'
<1> USE DEF IInv
<1>1. o # None
  BY NoneAssumption
<1>2. \A e \in Dev : devices[e] # o
  BY Zenon DEF Identify, FreshObject
<1>3. /\ devices' \in [Dev -> Obj \cup {None}] /\ devices'[d] = o
      /\ \A e \in Dev \ {d} : devices'[e] = devices[e]
  BY DEF Identify, TypeOK
<1>4. /\ value' \in [Obj -> Card]
      /\ \A c \in Obj \ {o} : value'[c] = value[c]
  BY DEF Identify, TypeOK, Card
<1>5. \A e \in Dev \ {d} : devices'[e] = devices[e] /\ Shown'[e] = Shown[e]
  BY <1>2, <1>3, <1>4 DEF Shown, TypeOK
<1>6. UNCHANGED <<at, broken, wire, page, view>>
  BY DEF Identify
<1>7. ObjectsOwned'
  BY <1>2, <1>3 DEF ObjectsOwned
<1>8. /\ queue' \in [Stream -> Seq(Event) \cup {None}]
      /\ missed' \in [Stream -> BOOLEAN]
      /\ \A s \in Stream : queue'[s] # None => Len(queue'[s]) <= QueueMax
      /\ StreamsMatch' /\ PageFollows'
  <2>1. PICK events \in Seq(Event) :
          /\ Publish(events) /\ Len(events) > 0
          /\ \A i \in 1..Len(events) : events[i].dev = d
          /\ Told(events[Len(events)], o)
    <3>1. Set(d, None) \in Event /\ Set(d, o) \in Event
      BY DEF Set, Event
    <3>2. CASE Publish(<<Set(d, None), Set(d, o)>>)
      <4> DEFINE both == <<Set(d, None), Set(d, o)>>
      <4>1. both \in Seq(Event) /\ Len(both) = 2
        BY <3>1
      <4>2. \A i \in 1..Len(both) : both[i].dev = d
        BY <4>1 DEF Set
      <4>3. Told(both[Len(both)], o)
        BY <1>1, <4>1 DEF Set, Told
      <4>4. QED
        BY <3>2, <4>1, <4>2, <4>3
    <3>3. CASE Publish(<<Set(d, o)>>)
      <4> DEFINE one == <<Set(d, o)>>
      <4>1. one \in Seq(Event) /\ Len(one) = 1
        BY <3>1
      <4>2. \A i \in 1..Len(one) : one[i].dev = d
        BY <4>1 DEF Set
      <4>3. Told(one[Len(one)], o)
        BY <1>1, <4>1 DEF Set, Told
      <4>4. Publish(one) /\ Len(one) > 0
        BY <3>3, <4>1
      <4> HIDE DEF one
      <4>5. QED
        BY <4>1, <4>2, <4>3, <4>4
    <3>4. QED
      BY <3>2, <3>3 DEF Identify
  <2>2. QED
    BY <1>3, <1>5, <1>6, <2>1, PublishStep
<1>9. TypeOK'
  BY <1>3, <1>4, <1>6, <1>8 DEF TypeOK
<1>10. QED
  BY <1>7, <1>8, <1>9

LEMMA DecodeStep ==
  ASSUME IInv, NEW d \in Dev, NEW v \in Value, Decode(d, v)
  PROVE  IInv'
<1> USE DEF IInv
<1>1. devices[d] \in Obj /\ devices[d] # None
  BY DEF Decode, TypeOK
<1>2. \A e \in Dev \ {d} : devices[e] # devices[d]
  BY <1>1 DEF ObjectsOwned
<1>3. /\ value' \in [Obj -> Card]
      /\ \A c \in Obj : c # devices[d] => value'[c] = value[c]
  BY <1>1 DEF Decode, TypeOK, Card
<1>4. UNCHANGED <<devices, at, broken, wire, page, view>>
  BY DEF Decode
<1>5. \A e \in Dev \ {d} : devices'[e] = devices[e] /\ Shown'[e] = Shown[e]
  BY <1>2, <1>3, <1>4 DEF Shown, TypeOK
<1>6. ObjectsOwned'
  BY <1>4 DEF ObjectsOwned
<1>7. /\ queue' \in [Stream -> Seq(Event) \cup {None}]
      /\ missed' \in [Stream -> BOOLEAN]
      /\ \A s \in Stream : queue'[s] # None => Len(queue'[s]) <= QueueMax
      /\ StreamsMatch' /\ PageFollows'
  <2>1. PICK events \in Seq(Event) :
          /\ Publish(events) /\ Len(events) > 0
          /\ \A i \in 1..Len(events) : events[i].dev = d
          /\ Told(events[Len(events)], devices[d])
    <3> DEFINE one == <<Set(d, devices[d])>>
    <3>1. one \in Seq(Event) /\ Len(one) = 1
      BY <1>1 DEF Set, Event
    <3>2. \A i \in 1..Len(one) : one[i].dev = d
      BY <3>1 DEF Set
    <3>3. Told(one[Len(one)], devices[d])
      BY <1>1, <3>1 DEF Set, Told
    <3>4. Publish(one) /\ Len(one) > 0
      BY <3>1 DEF Decode
    <3> HIDE DEF one
    <3>5. QED
      BY <3>1, <3>2, <3>3, <3>4
  <2>2. QED
    BY <1>4, <1>5, <2>1, PublishStep
<1>8. TypeOK'
  BY <1>3, <1>4, <1>7 DEF TypeOK
<1>9. QED
  BY <1>6, <1>7, <1>8

LEMMA RemoveStep ==
  ASSUME IInv, NEW d \in Dev, Remove(d)
  PROVE  IInv'
<1> USE DEF IInv
<1>1. /\ devices' \in [Dev -> Obj \cup {None}] /\ devices'[d] = None
      /\ \A e \in Dev \ {d} : devices'[e] = devices[e]
  BY DEF Remove, TypeOK
<1>2. UNCHANGED <<value, at, broken, wire, page, view>>
  BY DEF Remove
<1>3. \A e \in Dev \ {d} : devices'[e] = devices[e] /\ Shown'[e] = Shown[e]
  BY <1>1, <1>2 DEF Shown
<1>4. ObjectsOwned'
  BY <1>1 DEF ObjectsOwned
<1>5. /\ queue' \in [Stream -> Seq(Event) \cup {None}]
      /\ missed' \in [Stream -> BOOLEAN]
      /\ \A s \in Stream : queue'[s] # None => Len(queue'[s]) <= QueueMax
      /\ StreamsMatch' /\ PageFollows'
  <2>1. PICK events \in Seq(Event) :
          /\ Publish(events) /\ Len(events) > 0
          /\ \A i \in 1..Len(events) : events[i].dev = d
          /\ Told(events[Len(events)], None)
    <3> DEFINE one == <<[kind |-> "gone", dev |-> d, obj |-> None]>>
    <3>1. one \in Seq(Event) /\ Len(one) = 1
      BY DEF Event
    <3>2. \A i \in 1..Len(one) : one[i].dev = d
      BY <3>1
    <3>3. Told(one[Len(one)], None)
      BY <3>1 DEF Told
    <3>4. Publish(one) /\ Len(one) > 0
      BY <3>1 DEF Remove
    <3> HIDE DEF one
    <3>5. QED
      BY <3>1, <3>2, <3>3, <3>4
  <2>2. QED
    BY <1>1, <1>2, <1>3, <2>1, PublishStep
<1>6. TypeOK'
  BY <1>1, <1>2, <1>5 DEF TypeOK
<1>7. QED
  BY <1>4, <1>5, <1>6

\* The steps of a stream and its page.
LEMMA OpenStep ==
  ASSUME IInv, NEW s \in Stream, Open(s)
  PROVE  IInv'
<1> USE DEF IInv
<1>1. TypeOK'
  BY DEF Open, TypeOK, hub
<1>2. s # None /\ \A r \in Stream \ {s} : at'[r] = at[r] /\ broken'[r] = broken[r]
  BY NoneAssumption DEF Open, TypeOK
<1>3. at'[s] = "head" /\ broken'[s] = FALSE /\ at[s] = "idle" /\ page = None /\ page' = s
  BY DEF Open, TypeOK
<1>4. UNCHANGED <<devices, value, queue, missed, wire, view>>
  BY DEF Open, hub
<1>5. StreamsMatch'
  <2>1. /\ \A r \in Stream : r # None
        /\ \A r \in Stream : queue[r] # None <=> at[r] = "streaming"
        /\ \A r \in Stream : wire[r] # <<>> => page = r
        /\ \A r \in Stream : page = r <=> at[r] # "idle" /\ ~broken[r]
    BY NoneAssumption DEF StreamsMatch, Subscribed
  <2>2. /\ \A r \in Stream : wire'[r] = <<>>
        /\ \A r \in Stream \ {s} : ~(at'[r] # "idle" /\ ~broken'[r])
    BY <1>2, <1>3, <1>4, <2>1
  <2>3. \A r \in Stream : queue'[r] # None <=> at'[r] = "streaming"
    BY <1>2, <1>3, <1>4, <2>1
  <2>4. QED
    BY <1>3, <2>2, <2>3 DEF StreamsMatch, Subscribed
<1>6. PageFollows'
  BY <1>3 DEF PageFollows
<1>7. ObjectsOwned'
  BY <1>4 DEF ObjectsOwned
<1>8. QED
  BY <1>1, <1>5, <1>6, <1>7

\* The snapshot settles every device.
LEMMA SubscribeStep ==
  ASSUME IInv, NEW s \in Stream, Subscribe(s)
  PROVE  IInv'
<1> USE DEF IInv
<1> DEFINE snapshot == [kind |-> "snapshot", cards |-> Shown]
<1>1. Shown \in [Dev -> Card \cup {None}]
  BY DEF Shown, TypeOK
<1>2. snapshot \in Message
  BY <1>1 DEF Message
<1>3. UNCHANGED <<devices, value, broken, page, view>>
  BY DEF Subscribe, hub
<1>4. /\ at[s] = "head" /\ at'[s] = "streaming"
      /\ queue'[s] = <<>> /\ missed'[s] = FALSE
      /\ wire'[s] = IF broken[s] THEN wire[s] ELSE Append(wire[s], snapshot)
      /\ \A r \in Stream \ {s} : /\ at'[r] = at[r] /\ queue'[r] = queue[r]
                                 /\ missed'[r] = missed[r] /\ wire'[r] = wire[r]
  BY DEF Subscribe, TypeOK
<1>5. wire'[s] \in Seq(Message)
  BY <1>2, <1>4, AppendProperties DEF TypeOK
<1>6. <<>> \in Seq(Event) /\ Len(<<>>) = 0 /\ <<>> # None
  <2>1. <<>> \in Seq(Event) /\ Len(<<>>) = 0
    BY EmptySeq
  <2>2. QED
    BY <2>1, NoneAssumption, Zenon
<1>7. TypeOK'
  <2>1. /\ queue' \in [Stream -> Seq(Event) \cup {None}]
        /\ at' \in [Stream -> {"idle", "head", "streaming"}]
        /\ missed' \in [Stream -> BOOLEAN]
    BY <1>6 DEF Subscribe, TypeOK
  <2>2. wire' \in [Stream -> Seq(Message)]
    <3>1. DOMAIN wire' = Stream /\ wire' = [r \in Stream |-> wire'[r]]
      BY DEF Subscribe, TypeOK
    <3>2. \A r \in Stream : wire'[r] \in Seq(Message)
      BY <1>4, <1>5 DEF TypeOK
    <3>3. QED
      BY <3>1, <3>2
  <2>3. \A r \in Stream : queue'[r] # None => Len(queue'[r]) <= QueueMax
    <3>1. Len(queue'[s]) <= QueueMax
      BY <1>4, <1>6, BoundsAssumption
    <3>2. \A r \in Stream \ {s} : queue'[r] # None => Len(queue'[r]) <= QueueMax
      BY <1>4, Zenon DEF TypeOK
    <3>3. QED
      BY <3>1, <3>2, Zenon
  <2>4. QED
    BY <1>3, <2>1, <2>2, <2>3 DEF TypeOK
<1>8. wire[s] = <<>>
  BY <1>4 DEF StreamsMatch
<1>9. StreamsMatch'
  <2>1. ASSUME wire'[s] # <<>> PROVE page = s
    <3>1. ~broken[s]
      BY <1>4, <1>8, <2>1
    <3>2. QED
      BY <1>4, <3>1 DEF StreamsMatch
  <2>2. QED
    BY <1>3, <1>4, <1>6, <2>1 DEF StreamsMatch, Subscribed
<1>10. PageFollows'
  <2> SUFFICES ASSUME NEW r \in Stream, NEW d \in Dev,
                      page' = r, at'[r] = "streaming", ~missed'[r]
               PROVE  Follows(r, d)'
    BY DEF PageFollows
  <2>1. CASE r = s
    <3>1. ~broken[s]
      BY <1>3, <2>1 DEF StreamsMatch
    <3>2. About(snapshot, d) /\ Shows(snapshot, d) = Shown[d]
      BY DEF About, Shows
    <3>3. WireSettles(wire'[s], d, Shown[d])
      <4> HIDE DEF snapshot
      <4>1. WireSettles(Append(wire[s], snapshot), d, Shown[d])
        BY <1>2, <3>2, WireAppend DEF TypeOK
      <4>2. QED
        BY <1>4, <3>1, <4>1
    <3>4. QueueSilent(queue'[s], d)
      BY <1>4, <1>6 DEF QueueSilent
    <3>5. Shown' = Shown
      BY <1>3 DEF Shown
    <3>6. QED
      BY <2>1, <3>3, <3>4, <3>5 DEF Follows
  <2>2. CASE r # s
    <3>1. Follows(r, d)
      BY <1>3, <1>4, <2>2 DEF PageFollows
    <3>2. Shown' = Shown
      BY <1>3 DEF Shown
    <3>3. QED
      BY <1>3, <1>4, <2>2, <3>1, <3>2 DEF Follows
  <2>3. QED
    BY <2>1, <2>2
<1>11. ObjectsOwned'
  BY <1>3 DEF ObjectsOwned
<1>12. QED
  BY <1>7, <1>9, <1>10, <1>11

\* What is written of an event is about its device, and shows what the event told.
LEMMA WrittenTells ==
  ASSUME TypeOK, NEW e \in Event
  PROVE  /\ Written(e) \in Message
         /\ \A d \in Dev : About(Written(e), d) <=> e.dev = d
         /\ Told(e, devices[e.dev]) => Shows(Written(e), e.dev) = Shown[e.dev]
<1>1. e.kind \in {"set", "gone"} /\ e.dev \in Dev /\ e.obj \in Obj \cup {None}
  BY DEF Event
<1>2. CASE e.kind = "gone"
  BY <1>1, <1>2 DEF Written, Message, About, Shows, Told, Shown
<1>3. CASE e.kind = "set"
  <2>1. (IF e.obj = None THEN "empty" ELSE value[e.obj]) \in Card
    BY <1>1 DEF TypeOK, Card
  <2>2. QED
    BY <1>1, <1>3, <2>1 DEF Written, Message, About, Shows, Told, Shown
<1>4. QED
  BY <1>1, <1>2, <1>3

\* What a queue said of a device moves to the wire with its event.
LEMMA SendStep ==
  ASSUME IInv, NEW s \in Stream, Send(s)
  PROVE  IInv'
<1> USE DEF IInv
<1>1. UNCHANGED <<devices, value, at, broken, missed, page, view>>
  BY DEF Send, hub
<1>2. at[s] = "streaming" /\ queue[s] # <<>> /\ ~broken[s]
  BY DEF Send
<1>3. Subscribed(s)
  BY <1>2 DEF StreamsMatch
<1>4. queue[s] \in Seq(Event) /\ Len(queue[s]) \in Nat /\ Len(queue[s]) <= QueueMax
  BY <1>3, QueueType
<1>5. PICK e \in Event : e = Head(queue[s])
  BY <1>2, <1>4, HeadTailProperties
<1>6. /\ queue'[s] = Tail(queue[s]) /\ wire'[s] = Append(wire[s], Written(e))
      /\ \A r \in Stream \ {s} : queue'[r] = queue[r] /\ wire'[r] = wire[r]
  BY <1>5 DEF Send, TypeOK
<1>7. Written(e) \in Message /\ wire[s] \in Seq(Message)
  BY WrittenTells DEF TypeOK
<1>8. /\ queue'[s] \in Seq(Event) /\ Len(queue'[s]) <= QueueMax
      /\ wire'[s] \in Seq(Message) /\ wire'[s] # <<>>
  <2>1. queue'[s] \in Seq(Event) /\ Len(queue'[s]) = Len(queue[s]) - 1
    BY <1>2, <1>4, <1>6, HeadTailProperties
  <2>2. wire'[s] \in Seq(Message) /\ wire'[s] # <<>>
    BY <1>6, <1>7, AppendProperties
  <2>3. QED
    BY <1>4, <2>1, <2>2, BoundsAssumption
<1>9. queue'[s] # None
  BY <1>8, NoneAssumption
<1>10. TypeOK'
  <2>1. /\ queue' = [r \in Stream |-> queue'[r]]
        /\ wire' = [r \in Stream |-> wire'[r]]
    BY DEF Send, TypeOK
  <2>2. \A r \in Stream : queue'[r] \in Seq(Event) \cup {None} /\ wire'[r] \in Seq(Message)
    BY <1>6, <1>8 DEF TypeOK
  <2>3. \A r \in Stream : queue'[r] # None => Len(queue'[r]) <= QueueMax
    BY <1>6, <1>8 DEF TypeOK
  <2>4. QED
    BY <1>1, <2>1, <2>2, <2>3 DEF TypeOK
<1>11. StreamsMatch'
  <2>1. page = s
    BY <1>2 DEF StreamsMatch
  <2>2. QED
    BY <1>1, <1>3, <1>6, <1>9, <2>1 DEF StreamsMatch, Subscribed
<1>12. PageFollows'
  <2> SUFFICES ASSUME NEW r \in Stream, NEW d \in Dev,
                      page' = r, at'[r] = "streaming", ~missed'[r]
               PROVE  Follows(r, d)'
    BY DEF PageFollows
  <2>1. Follows(r, d) /\ Shown' = Shown
    BY <1>1 DEF PageFollows, Shown
  <2>2. CASE r = s
    <3>1. /\ About(Written(e), d) <=> e.dev = d
          /\ e.dev = d /\ Told(e, devices[d]) => Shows(Written(e), d) = Shown[d]
      BY WrittenTells
    <3>2. /\ QueueSilent(queue[s], d) => QueueSilent(queue'[s], d) /\ e.dev # d
          /\ QueueSettles(queue[s], d, devices[d]) =>
               \/ QueueSettles(queue'[s], d, devices[d])
               \/ QueueSilent(queue'[s], d) /\ e.dev = d /\ Told(e, devices[d])
      <4>1. /\ QueueSilent(queue[s], d) =>
                 QueueSilent(Tail(queue[s]), d) /\ Head(queue[s]).dev # d
            /\ QueueSettles(queue[s], d, devices[d]) =>
                 \/ QueueSettles(Tail(queue[s]), d, devices[d])
                 \/ /\ QueueSilent(Tail(queue[s]), d)
                    /\ Head(queue[s]).dev = d /\ Told(Head(queue[s]), devices[d])
        BY <1>2, <1>4, TailOfQueue, Zenon
      <4>2. queue'[s] = Tail(queue[s]) /\ e = Head(queue[s])
        BY <1>5, <1>6
      <4>3. QED
        BY <4>1, <4>2, Zenon
    <3>3. /\ About(Written(e), d) /\ Shows(Written(e), d) = Shown[d] =>
               WireSettles(wire'[s], d, Shown[d])
          /\ ~About(Written(e), d) =>
               /\ WireSettles(wire[s], d, Shown[d]) => WireSettles(wire'[s], d, Shown[d])
               /\ WireSilent(wire[s], d) => WireSilent(wire'[s], d)
      BY <1>6, <1>7, WireAppend
    <3>4. QED
      BY <1>1, <2>1, <2>2, <3>1, <3>2, <3>3 DEF Follows
  <2>3. CASE r # s
    BY <1>1, <1>6, <2>1, <2>3 DEF Follows
  <2>4. QED
    BY <2>2, <2>3
<1>13. ObjectsOwned'
  BY <1>1 DEF ObjectsOwned
<1>14. QED
  BY <1>10, <1>11, <1>12, <1>13

LEMMA NoticeStep ==
  ASSUME IInv, NEW s \in Stream, Notice(s)
  PROVE  IInv'
<1> USE DEF IInv
<1>1. UNCHANGED <<devices, value, broken, wire, page, view>>
  BY DEF Notice, hub
<1>2. /\ at[s] # "idle" /\ broken[s] /\ at'[s] = "idle" /\ queue'[s] = None
      /\ \A r \in Stream \ {s} : /\ at'[r] = at[r] /\ queue'[r] = queue[r]
                                 /\ missed'[r] = missed[r]
  BY DEF Notice, TypeOK
<1>3. TypeOK'
  <2>1. /\ queue' \in [Stream -> Seq(Event) \cup {None}]
        /\ at' \in [Stream -> {"idle", "head", "streaming"}]
        /\ missed' \in [Stream -> BOOLEAN]
    BY DEF Notice, TypeOK
  <2>2. \A r \in Stream : queue'[r] # None => Len(queue'[r]) <= QueueMax
    BY <1>2 DEF TypeOK
  <2>3. QED
    BY <1>1, <2>1, <2>2 DEF TypeOK
<1>4. page # s /\ wire[s] = <<>>
  BY <1>2 DEF StreamsMatch
<1>5. StreamsMatch'
  BY <1>1, <1>2, <1>4 DEF StreamsMatch, Subscribed
<1>6. PageFollows'
  <2> SUFFICES ASSUME NEW r \in Stream, NEW d \in Dev,
                      page' = r, at'[r] = "streaming", ~missed'[r]
               PROVE  Follows(r, d)'
    BY DEF PageFollows
  <2>1. r # s
    BY <1>1, <1>4
  <2>2. Follows(r, d) /\ Shown' = Shown
    BY <1>1, <1>2, <2>1 DEF PageFollows, Shown
  <2>3. QED
    BY <1>1, <1>2, <2>1, <2>2 DEF Follows
<1>7. ObjectsOwned'
  BY <1>1 DEF ObjectsOwned
<1>8. QED
  BY <1>3, <1>5, <1>6, <1>7

LEMMA BreakStep ==
  ASSUME IInv, NEW s \in Stream, Break(s)
  PROVE  IInv'
<1> USE DEF IInv
<1>1. UNCHANGED <<devices, value, at, queue, missed, view>>
  BY DEF Break, hub
<1>2. s # None /\ page = s /\ page' = None
  BY NoneAssumption DEF Break
<1>3. /\ broken'[s] = TRUE /\ wire'[s] = <<>>
      /\ \A r \in Stream \ {s} : broken'[r] = broken[r] /\ wire'[r] = wire[r]
  BY DEF Break, TypeOK
<1>4. TypeOK'
  <2>1. broken' \in [Stream -> BOOLEAN] /\ wire' \in [Stream -> Seq(Message)]
    BY DEF Break, TypeOK
  <2>2. QED
    BY <1>1, <1>2, <2>1 DEF TypeOK
<1>5. StreamsMatch'
  BY <1>1, <1>2, <1>3, NoneAssumption DEF StreamsMatch, Subscribed
<1>6. PageFollows'
  BY <1>2, NoneAssumption DEF PageFollows
<1>7. ObjectsOwned'
  BY <1>1 DEF ObjectsOwned
<1>8. QED
  BY <1>4, <1>5, <1>6, <1>7

\* What the page is told moves from the wire to what it shows.
LEMMA ReceiveStep ==
  ASSUME IInv, NEW s \in Stream, Receive(s)
  PROVE  IInv'
<1> USE DEF IInv
<1>1. UNCHANGED <<devices, value, at, broken, queue, missed, page>>
  BY DEF Receive, hub
<1>2. page = s /\ wire[s] # <<>> /\ wire[s] \in Seq(Message)
  BY DEF Receive, TypeOK
<1>3. PICK m \in Message : m = Head(wire[s])
  BY <1>2, HeadTailProperties
<1>4. /\ wire'[s] = Tail(wire[s]) /\ view' = Handle(m)
      /\ \A r \in Stream \ {s} : wire'[r] = wire[r]
  BY <1>3 DEF Receive, TypeOK
<1>5. wire'[s] \in Seq(Message)
  BY <1>2, <1>4, HeadTailProperties
<1>6. /\ view' \in [Dev -> Card \cup {None}]
      /\ \A d \in Dev : view'[d] = IF About(m, d) THEN Shows(m, d) ELSE view[d]
  <2>1. view \in [Dev -> Card \cup {None}]
    BY DEF TypeOK
  <2>2. CASE m.kind = "snapshot"
    <3>1. m.cards \in [Dev -> Card \cup {None}]
      BY <2>2 DEF Message
    <3>2. QED
      BY <1>4, <2>2, <3>1 DEF Handle, About, Shows
  <2>3. CASE m.kind = "set"
    <3>1. m.dev \in Dev /\ m.card \in Card
      BY <2>3 DEF Message
    <3>2. QED
      BY <1>4, <2>1, <2>3, <3>1 DEF Handle, About, Shows
  <2>4. CASE m.kind \notin {"snapshot", "set"}
    <3>1. m.dev \in Dev
      BY <2>4 DEF Message
    <3>2. QED
      BY <1>4, <2>1, <2>4, <3>1 DEF Handle, About, Shows
  <2>5. QED
    BY <2>2, <2>3, <2>4
<1>7. TypeOK'
  <2>1. wire' = [r \in Stream |-> wire'[r]]
    BY DEF Receive, TypeOK
  <2>2. \A r \in Stream : wire'[r] \in Seq(Message)
    BY <1>4, <1>5 DEF TypeOK
  <2>3. QED
    BY <1>1, <1>6, <2>1, <2>2 DEF TypeOK
<1>8. StreamsMatch'
  BY <1>1, <1>2, <1>4 DEF StreamsMatch, Subscribed
<1>9. PageFollows'
  <2> SUFFICES ASSUME NEW d \in Dev, at[s] = "streaming", ~missed[s]
               PROVE  Follows(s, d)'
    BY <1>1, <1>2 DEF PageFollows
  <2>1. Follows(s, d) /\ Shown' = Shown
    BY <1>1, <1>2 DEF PageFollows, Shown
  <2>2. /\ WireSilent(wire[s], d) => WireSilent(wire'[s], d) /\ ~About(m, d)
        /\ WireSettles(wire[s], d, Shown[d]) =>
             \/ WireSettles(wire'[s], d, Shown[d])
             \/ WireSilent(wire'[s], d) /\ About(m, d) /\ Shows(m, d) = Shown[d]
    BY <1>2, <1>3, <1>4, TailOfWire
  <2>3. QED
    BY <1>1, <1>6, <2>1, <2>2 DEF Follows
<1>10. ObjectsOwned'
  BY <1>1 DEF ObjectsOwned
<1>11. QED
  BY <1>7, <1>8, <1>9, <1>10

LEMMA DashboardInit == Init => IInv
<1> SUFFICES ASSUME Init PROVE IInv
  OBVIOUS
<1>1. TypeOK
  BY DEF Init, TypeOK, Card
<1>2. QED
  BY <1>1, NoneAssumption DEF Init, IInv, StreamsMatch, ObjectsOwned, PageFollows, Subscribed

LEMMA DashboardStep == IInv /\ [Next]_vars => IInv'
<1> SUFFICES ASSUME IInv, [Next]_vars PROVE IInv'
  OBVIOUS
<1>1. ASSUME NEW d \in Dev, NEW o \in Obj, Identify(d, o) PROVE IInv'
  BY <1>1, IdentifyStep
<1>2. ASSUME NEW d \in Dev, NEW v \in Value, Decode(d, v) PROVE IInv'
  BY <1>2, DecodeStep
<1>3. ASSUME NEW d \in Dev, Remove(d) PROVE IInv'
  BY <1>3, RemoveStep
<1>4. ASSUME NEW s \in Stream, Open(s) PROVE IInv'
  BY <1>4, OpenStep
<1>5. ASSUME NEW s \in Stream, Subscribe(s) PROVE IInv'
  BY <1>5, SubscribeStep
<1>6. ASSUME NEW s \in Stream, Send(s) PROVE IInv'
  BY <1>6, SendStep
<1>7. ASSUME NEW s \in Stream, Notice(s) PROVE IInv'
  BY <1>7, NoticeStep
<1>8. ASSUME NEW s \in Stream, Break(s) PROVE IInv'
  BY <1>8, BreakStep
<1>9. ASSUME NEW s \in Stream, Receive(s) PROVE IInv'
  BY <1>9, ReceiveStep
<1>10. ASSUME UNCHANGED vars PROVE IInv'
  BY <1>10 DEF vars, hub, streams, IInv, TypeOK, StreamsMatch, ObjectsOwned, PageFollows,
               Subscribed, Follows, Shown
<1>11. QED
  BY <1>1, <1>2, <1>3, <1>4, <1>5, <1>6, <1>7, <1>8, <1>9, <1>10 DEF Next

-----------------------------------------------------------------------------

\* Queue, wire and page are up to date in every state of the dashboard, for any
\* number of streams and events (hub.py:228-261, webserver.py:117-144).
THEOREM DashboardInv == Spec => []IInv
<1>1. QED
  BY DashboardInit, DashboardStep, PTL DEF Spec

\* The type of every variable, and no queue beyond its capacity (hub.py:228-241).
THEOREM DashboardTypes == Spec => []TypeOK
<1>1. IInv => TypeOK
  BY DEF IInv
<1>2. QED
  BY <1>1, DashboardInv, PTL

\* A page that has caught up shows what the hub knows, unless its own queue
\* overflowed since it subscribed (webserver.py:117-144, index.html:213-233).
THEOREM PageCatchesUp == Spec => []PageIsCurrent
<1>1. ASSUME IInv PROVE PageIsCurrent
  <2> SUFFICES ASSUME NEW s \in Stream, page = s, at[s] = "streaming",
                      queue[s] = <<>>, wire[s] = <<>>, ~missed[s]
               PROVE  view = Shown
    BY DEF PageIsCurrent
  <2>1. Len(<<>>) = 0
    OBVIOUS
  <2>2. \A d \in Dev : Follows(s, d)
    BY <1>1 DEF IInv, PageFollows
  <2>3. \A d \in Dev : view[d] = Shown[d]
    <3> TAKE d \in Dev
    <3>1. ~QueueSettles(<<>>, d, devices[d]) /\ ~WireSettles(<<>>, d, Shown[d])
      BY <2>1 DEF QueueSettles, WireSettles
    <3>2. QED
      BY <2>2, <3>1 DEF Follows
  <2>4. view \in [Dev -> Card \cup {None}]
    BY <1>1 DEF IInv, TypeOK
  <2>5. Shown = [d \in Dev |-> Shown[d]]
    BY DEF Shown
  <2>6. QED
    BY <2>3, <2>4, <2>5
<1>2. QED
  BY <1>1, DashboardInv, PTL

=============================================================================
