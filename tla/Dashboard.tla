----------------------------- MODULE Dashboard -----------------------------
(***************************************************************************)
(* The live dashboard.  A page opens an event stream; the handler of the   *)
(* stream subscribes a bounded queue to the hub, sends a snapshot and then *)
(* every event.  A page whose stream breaks opens another while the        *)
(* handler of the old one still has to find out.                           *)
(*                                                                         *)
(* An event carries the record as it was when the event was published, but *)
(* the handler's state dict by reference: what is sent is the state of the *)
(* handler by then.                                                        *)
(***************************************************************************)
EXTENDS Integers, Sequences

CONSTANTS
  Dev,        \* devices
  Obj,        \* DeviceHandler objects
  Value,      \* what a handler may have decoded
  Stream,     \* streams the server may have at the same time
  QueueMax,   \* capacity of a subscriber's queue
  WireMax,    \* bound: messages written to a stream before drain waits
  None

ASSUME BoundsAssumption == QueueMax \in Nat \ {0} /\ WireMax \in Nat \ {0}

\* What is shown of a device: nothing decoded yet is a value as well.
Card == Value \cup {"empty"}

Event == [kind : {"set", "gone"}, dev : Dev, obj : Obj \cup {None}]

\* A snapshot lists the cards of all devices, any other message is about one.
Message == [kind : {"snapshot"}, cards : [Dev -> Card \cup {None}]]
           \cup [kind : {"set"}, dev : Dev, card : Card]
           \cup [kind : {"gone"}, dev : Dev]

ASSUME NoneAssumption == None \notin Obj \cup Card \cup Stream \cup Seq(Event)

VARIABLES
  devices,  \* the handler of each known device
  value,    \* the state dict of a handler
  at,       \* how far the handler of a stream is
  broken,   \* the stream's connection is gone
  queue,    \* the subscription of a stream; None if it has none
  missed,   \* an event of this subscription was dropped (history)
  wire,     \* messages written and not read by the page
  page,     \* the stream the page listens to
  view      \* what the page shows

hub == <<devices, value>>
streams == <<at, broken, queue, missed, wire>>
vars == <<hub, streams, page, view>>

TypeOK ==
  /\ devices \in [Dev -> Obj \cup {None}]
  /\ value \in [Obj -> Card]
  /\ at \in [Stream -> {"idle", "head", "streaming"}]
  /\ broken \in [Stream -> BOOLEAN]
  /\ queue \in [Stream -> Seq(Event) \cup {None}]
  /\ \A s \in Stream : queue[s] # None => Len(queue[s]) <= QueueMax
  /\ wire \in [Stream -> Seq(Message)]
  /\ missed \in [Stream -> BOOLEAN]
  /\ page \in Stream \cup {None}
  /\ view \in [Dev -> Card \cup {None}]

Init ==
  /\ devices = [d \in Dev |-> None]
  /\ value = [o \in Obj |-> "empty"]
  /\ at = [s \in Stream |-> "idle"]
  /\ broken = [s \in Stream |-> FALSE]
  /\ queue = [s \in Stream |-> None]
  /\ missed = [s \in Stream |-> FALSE]
  /\ wire = [s \in Stream |-> <<>>]
  /\ page = None
  /\ view = [d \in Dev |-> None]

\* Hub.snapshot()
Shown == [d \in Dev |-> IF devices[d] = None THEN None ELSE value[devices[d]]]

-----------------------------------------------------------------------------
(* The hub, as its connections and timers drive it. *)

Subscribed(s) == queue[s] # None

Room(s) == QueueMax - Len(queue[s])

\* Hub.publish of one or more events: what does not fit is dropped.
Publish(events) ==
  /\ queue' = [s \in Stream |->
                 IF ~Subscribed(s) THEN None
                 ELSE IF Len(events) <= Room(s) THEN queue[s] \o events
                 ELSE SubSeq(queue[s] \o events, 1, QueueMax)]
  /\ missed' = [s \in Stream |-> missed[s] \/ (Subscribed(s) /\ Len(events) > Room(s))]

Set(d, o) == [kind |-> "set", dev |-> d, obj |-> o]

\* A new handler object: no record and no queued event refers to it.
FreshObject(o) ==
  /\ \A d \in Dev : devices[d] # o
  /\ \A s \in Stream : Subscribed(s) => \A i \in 1..Len(queue[s]) : queue[s][i].obj # o

\* The first frame of a device: device_connected, without a handler, and then
\* device_identified.  A known device may get a handler of another class.
Identify(d, o) ==
  /\ FreshObject(o)
  /\ devices' = [devices EXCEPT ![d] = o]
  /\ value' = [value EXCEPT ![o] = "empty"]
  /\ \/ devices[d] = None /\ Publish(<<Set(d, None), Set(d, o)>>)
     \/ devices[d] # None /\ Publish(<<Set(d, o)>>)
  /\ UNCHANGED <<at, broken, wire, page, view>>

Decode(d, v) ==
  /\ devices[d] # None
  /\ value' = [value EXCEPT ![devices[d]] = v]
  /\ Publish(<<Set(d, devices[d])>>)
  /\ UNCHANGED <<devices, at, broken, wire, page, view>>

Remove(d) ==
  /\ devices[d] # None
  /\ devices' = [devices EXCEPT ![d] = None]
  /\ Publish(<<[kind |-> "gone", dev |-> d, obj |-> None]>>)
  /\ UNCHANGED <<value, at, broken, wire, page, view>>

-----------------------------------------------------------------------------
(* The server's side of a stream. *)

\* The page asks for a stream: the head is written and drained.
Open(s) ==
  /\ page = None /\ at[s] = "idle"
  /\ at' = [at EXCEPT ![s] = "head"]
  /\ broken' = [broken EXCEPT ![s] = FALSE]
  /\ page' = s
  /\ UNCHANGED <<hub, queue, missed, wire, view>>

\* Mutant: the stream is subscribed once the snapshot is out.
SubscribeLate(s) ==
  \/ /\ at[s] = "head"
     /\ at' = [at EXCEPT ![s] = "primed"]
     /\ wire' = [wire EXCEPT ![s] = IF broken[s] THEN @
                                   ELSE Append(@, [kind |-> "snapshot", cards |-> Shown])]
     /\ UNCHANGED <<hub, broken, queue, missed, page, view>>
  \/ /\ at[s] = "primed"
     /\ at' = [at EXCEPT ![s] = "streaming"]
     /\ queue' = [queue EXCEPT ![s] = <<>>]
     /\ missed' = [missed EXCEPT ![s] = FALSE]
     /\ UNCHANGED <<hub, broken, wire, page, view>>

\* Hub.subscribe and the snapshot, with no await between them.
Subscribe(s) ==
  /\ at[s] = "head"
  /\ at' = [at EXCEPT ![s] = "streaming"]
  /\ queue' = [queue EXCEPT ![s] = <<>>]
  /\ missed' = [missed EXCEPT ![s] = FALSE]
  /\ wire' = [wire EXCEPT ![s] = IF broken[s] THEN @
                                ELSE Append(@, [kind |-> "snapshot", cards |-> Shown])]
  /\ UNCHANGED <<hub, broken, page, view>>

\* What is written of an event: the handler's state as it is now.
Written(e) ==
  IF e.kind = "gone" THEN [kind |-> "gone", dev |-> e.dev]
  ELSE [kind |-> "set", dev |-> e.dev,
        card |-> IF e.obj = None THEN "empty" ELSE value[e.obj]]

\* Mutant: an event that cannot be written at once is dropped.
SendLossy(s) ==
  /\ at[s] = "streaming" /\ ~broken[s] /\ queue[s] # <<>>
  /\ queue' = [queue EXCEPT ![s] = Tail(@)]
  /\ wire' = [wire EXCEPT ![s] = IF Len(@) < WireMax THEN Append(@, Written(Head(queue[s])))
                                                     ELSE @]
  /\ UNCHANGED <<hub, at, broken, missed, page, view>>

\* An event is sent once the page has taken enough of what was written before.
Send(s) ==
  /\ at[s] = "streaming" /\ ~broken[s] /\ queue[s] # <<>>
  /\ Len(wire[s]) < WireMax
  /\ queue' = [queue EXCEPT ![s] = Tail(@)]
  /\ wire' = [wire EXCEPT ![s] = Append(@, Written(Head(queue[s])))]
  /\ UNCHANGED <<hub, at, broken, missed, page, view>>

\* Mutant: the handler does not ping, it waits for an event to write.
NoticeWithoutPing(s) ==
  /\ at[s] # "idle" /\ broken[s] /\ queue[s] # <<>>
  /\ at' = [at EXCEPT ![s] = "idle"]
  /\ queue' = [queue EXCEPT ![s] = None]
  /\ missed' = [missed EXCEPT ![s] = FALSE]
  /\ UNCHANGED <<hub, broken, wire, page, view>>

\* The write that fails, of the head, an event, or the ping that is due when
\* there was none for a while: the finally clause unsubscribes.
Notice(s) ==
  /\ at[s] # "idle" /\ broken[s]
  /\ at' = [at EXCEPT ![s] = "idle"]
  /\ queue' = [queue EXCEPT ![s] = None]
  /\ missed' = [missed EXCEPT ![s] = FALSE]
  /\ UNCHANGED <<hub, broken, wire, page, view>>

-----------------------------------------------------------------------------
(* The page. *)

\* The connection breaks, or the page is closed: the browser will reconnect.
Break(s) ==
  /\ page = s
  /\ page' = None
  /\ broken' = [broken EXCEPT ![s] = TRUE]
  /\ wire' = [wire EXCEPT ![s] = <<>>]
  /\ UNCHANGED <<hub, at, queue, missed, view>>

\* handleEvent and applySnapshot.
Handle(m) ==
  CASE m.kind = "snapshot" -> m.cards
    [] m.kind = "set" -> [view EXCEPT ![m.dev] = m.card]
    [] OTHER -> [view EXCEPT ![m.dev] = None]

Receive(s) ==
  /\ page = s /\ wire[s] # <<>>
  /\ view' = Handle(Head(wire[s]))
  /\ wire' = [wire EXCEPT ![s] = Tail(@)]
  /\ UNCHANGED <<hub, at, broken, queue, missed, page>>

Next ==
  \/ \E d \in Dev : \/ \E o \in Obj : Identify(d, o)
                    \/ \E v \in Value : Decode(d, v)
                    \/ Remove(d)
  \/ \E s \in Stream : \/ Open(s) \/ Subscribe(s) \/ Send(s) \/ Notice(s)
                       \/ Break(s) \/ Receive(s)

Spec == Init /\ [][Next]_vars

\* The event loop resumes a handler whose queue holds an event, whose ping is
\* due or whose connection is found dead, and TCP and the page take what was
\* written.  Nothing is asked of the devices or of the network staying up.
Fairness ==
  \A s \in Stream : /\ WF_vars(Subscribe(s)) /\ WF_vars(Send(s))
                    /\ WF_vars(Notice(s)) /\ WF_vars(Receive(s))

FairSpec == Spec /\ Fairness

-----------------------------------------------------------------------------

\* A page that has caught up shows what the hub knows (webserver.py:117-144,
\* index.html:213-233), unless its queue overflowed since it subscribed: nothing
\* is lost between the snapshot and the first event, a late event does not undo
\* a later one, and a reconnect leaves no card of a device that went meanwhile.
PageIsCurrent ==
  \A s \in Stream :
    page = s /\ at[s] = "streaming" /\ queue[s] = <<>> /\ wire[s] = <<>> /\ ~missed[s]
      => view = Shown

\* A device that is gone leaves the page (hub.py:223-226, webserver.py:130-136)
\* unless it comes back, the stream breaks or the queue has overflowed.
GoneLeavesPage ==
  \A s \in Stream, d \in Dev :
    page = s /\ devices[d] = None
      ~> view[d] = None \/ devices[d] # None \/ page # s \/ missed[s]

\* The queue of a stream whose page went away is given up (webserver.py:134-140),
\* also when no event is published that would be written to it.
DeadStreamsEnd == \A s \in Stream : broken[s] ~> ~Subscribed(s) \/ ~broken[s]

\* How a stream's state hangs together: the page listens to the stream that a
\* handler works on and that did not break, a handler has a queue once it has
\* written the snapshot, and what is written and not read is on the page's
\* stream.
StreamsMatch ==
  \A s \in Stream :
    /\ page = s <=> at[s] # "idle" /\ ~broken[s]
    /\ Subscribed(s) <=> at[s] = "streaming"
    /\ wire[s] # <<>> => page = s /\ Subscribed(s)

\* No handler object belongs to two devices.
ObjectsOwned ==
  \A d, e \in Dev : devices[d] # None /\ devices[d] = devices[e] => d = e

\* An event tells that the handler of its device is o.
Told(e, o) == IF e.kind = "gone" THEN o = None ELSE o # None /\ e.obj = o

\* A message is about device d, and what the page shows of d once it is handled.
About(m, d) == m.kind = "snapshot" \/ m.dev = d

Shows(m, d) ==
  IF m.kind = "snapshot" THEN m.cards[d] ELSE IF m.kind = "set" THEN m.card ELSE None

\* The last event about d in queue q tells that its handler is o ...
QueueSettles(q, d, o) ==
  \E i \in 1..Len(q) : /\ q[i].dev = d /\ Told(q[i], o)
                       /\ \A j \in 1..Len(q) : j > i => q[j].dev # d

QueueSilent(q, d) == \A i \in 1..Len(q) : q[i].dev # d

\* ... or there is none, and the last message about d on wire w shows card x ...
WireSettles(w, d, x) ==
  \E i \in 1..Len(w) : /\ About(w[i], d) /\ Shows(w[i], d) = x
                       /\ \A j \in 1..Len(w) : j > i => ~About(w[j], d)

WireSilent(w, d) == \A i \in 1..Len(w) : ~About(w[i], d)

\* ... or there is none of those either, and the page shows it already.
Follows(s, d) ==
  \/ QueueSettles(queue[s], d, devices[d])
  \/ /\ QueueSilent(queue[s], d)
     /\ \/ WireSettles(wire[s], d, Shown[d])
        \/ WireSilent(wire[s], d) /\ view[d] = Shown[d]

PageFollows ==
  \A s \in Stream, d \in Dev :
    page = s /\ at[s] = "streaming" /\ ~missed[s] => Follows(s, d)

\* The inductive invariant behind PageIsCurrent (hub.py:228-261,
\* webserver.py:117-144): queue, wire and page together are up to date.
IInv == TypeOK /\ StreamsMatch /\ ObjectsOwned /\ PageFollows

=============================================================================
