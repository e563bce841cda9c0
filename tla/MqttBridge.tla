----------------------------- MODULE MqttBridge -----------------------------
(***************************************************************************)
(* The Home Assistant bridge.  Two threads write to the broker: the event  *)
(* loop, which follows the hub's events through a bounded queue and runs   *)
(* the commands, and paho's network thread, which advertises every known   *)
(* device again whenever it connects.  Both run _advertise and             *)
(* _publish_state, one step at a time here.  The hub is what its event bus *)
(* shows of it; the broker keeps the last retained message of each topic,  *)
(* also when the process is restarted and begins with nothing.             *)
(***************************************************************************)
EXTENDS Integers, Sequences, FiniteSets, Entities

CONSTANTS
  Dev,        \* devices
  Type,       \* the device types a first frame may be claimed as
  Value,      \* what a handler may have decoded
  None,
  QueueMax,   \* capacity of a subscriber's queue
  MaxFaults,  \* bound: how often the link to the broker is lost or refused
  MaxRestarts, \* bound: how often the process is restarted
  MostCalls,  \* bound: commands that wait for the loop
  MostPortions, \* the most a feed dispenses: 12 in the code
  StartsUp    \* whether the bridge is connected before the first device comes

ASSUME BoundsAssumption ==
  /\ {QueueMax, MostPortions} \subseteq Nat \ {0} /\ {MaxFaults, MaxRestarts, MostCalls} \subseteq Nat
  /\ StartsUp \in BOOLEAN
ASSUME TypeAssumption == Type \subseteq {"feeder", "litterbox", "unidentified"}

Number == 1..MostPortions         \* the portions of a feed; 0: no entry yet
Junk == -1                        \* a payload that is not a number
Payload == 0..(MostPortions + 1) \cup {Junk}
DeviceType == Type \cup {"unidentified"}
Thread == {"loop", "paho"}

Event == [kind : {"connected", "changed", "gone"}, dev : Dev]
Call == [kind : {"portions", "feed"}, dev : Dev, number : Payload]
StateMessage == [type : DeviceType, value : Value \cup {None}]
ASSUME NoneIsNothing ==
  None \notin DeviceType \cup Value \cup Dev \cup StateMessage \cup {"online"}

VARIABLES
  known, rtype, value,            \* Hub.devices, device_type, handler.state
  queue, missed,                  \* the bridge's subscription to the hub; devices
                                  \* whose last news did not fit into it (history)
  calls,                          \* portions commands handed to the loop
  advertised, portions,           \* MqttBridge._advertised, ._portions
  link, faults, restarts,         \* is the MQTT connection up, faults so far
  pc, todo,                       \* where the threads are, paho's list of records
  config, avail, state, number,   \* retained at the broker
  orphans, misfed                 \* devices whose "offline" never reached the
                                  \* broker, has a feed surprised (history)

hub == <<known, rtype, value>>
bridge == <<advertised, portions>>
bus == <<queue, missed>>
broker == <<config, avail, state, number>>
history == <<orphans, misfed>>
conn == <<link, faults, restarts>>
vars == <<hub, bus, calls, bridge, conn, pc, todo, broker, history>>

\* A thread's step, the device it works on, and what it has read: the type in the
\* key of _advertised, the number of portions, the payload of the state.
Local ==
  [at : {"idle", "identify", "list", "next", "check", "discover", "number", "mark",
         "online", "mirror"},
   dev : Dev \cup {None},
   key : DeviceType \cup {None}, seed : Number \cup {0}, payload : StateMessage \cup {None}]

Idle == [at |-> "idle", dev |-> None, key |-> None, seed |-> 0, payload |-> None]

At(step, d) == [Idle EXCEPT !.at = step, !.dev = d]

TypeOK ==
  /\ known \in [Dev -> BOOLEAN]
  /\ rtype \in [Dev -> DeviceType \cup {None}]
  /\ value \in [Dev -> Value \cup {None}]
  /\ queue \in Seq(Event) /\ Len(queue) <= QueueMax /\ missed \in SUBSET Dev
  /\ calls \in Seq(Call)
  /\ advertised \in SUBSET (Dev \X DeviceType)
  /\ portions \in [Dev -> Number \cup {0}]
  /\ link \in BOOLEAN /\ faults \in 0..MaxFaults /\ restarts \in 0..MaxRestarts
  /\ pc \in [Thread -> Local] /\ todo \in SUBSET Dev
  /\ config \in [Dev -> SUBSET Entity]
  /\ avail \in [Dev -> {None, "online", "offline"}]
  /\ state \in [Dev -> StateMessage \cup {None}]
  /\ number \in [Dev -> Number \cup {None}]
  /\ orphans \in SUBSET Dev /\ misfed \in BOOLEAN

Init ==
  /\ known = [d \in Dev |-> FALSE]
  /\ rtype = [d \in Dev |-> None]
  /\ value = [d \in Dev |-> None]
  /\ queue = <<>> /\ missed = {} /\ calls = <<>>
  /\ advertised = {} /\ portions = [d \in Dev |-> 0]
  /\ link = StartsUp /\ faults = 0 /\ restarts = 0
  /\ pc = [t \in Thread |-> Idle] /\ todo = {}
  /\ config = [d \in Dev |-> {}]
  /\ avail = [d \in Dev |-> None]
  /\ state = [d \in Dev |-> None]
  /\ number = [d \in Dev |-> None]
  /\ orphans = {} /\ misfed = FALSE

-----------------------------------------------------------------------------
(* The hub: whatever its connections do, in terms of Hub.publish. *)

LoopIdle == pc["loop"].at = "idle"

\* Hub.publish to the bridge's queue: a full queue drops the event.  Of a device
\* that connects the bridge takes no news.
Publish(k, d) ==
  IF Len(queue) < QueueMax
  THEN /\ queue' = Append(queue, [kind |-> k, dev |-> d])
       /\ missed' = IF k = "connected" THEN missed ELSE missed \ {d}
  ELSE /\ UNCHANGED queue
       /\ missed' = IF k = "connected" THEN missed ELSE missed \cup {d}

\* The first frame of a device that is not known: for a moment, which paho's
\* thread may see, its record is in the table and not identified yet.
Attach(d) ==
  /\ LoopIdle /\ ~known[d]
  /\ known' = [known EXCEPT ![d] = TRUE]
  /\ rtype' = [rtype EXCEPT ![d] = "unidentified"]
  /\ value' = [value EXCEPT ![d] = None]
  /\ Publish("connected", d)
  /\ pc' = [pc EXCEPT !["loop"] = At("identify", d)]
  /\ UNCHANGED <<calls, bridge, conn, todo, broker, history>>

Identify(d) ==
  /\ pc["loop"].at = "identify" /\ pc["loop"].dev = d
  /\ \E t \in Type : rtype' = [rtype EXCEPT ![d] = t]
  /\ Publish("changed", d)
  /\ pc' = [pc EXCEPT !["loop"] = Idle]
  /\ UNCHANGED <<known, value, calls, bridge, conn, todo, broker, history>>

\* Another connection's first frame: claimed as another type, it gets a handler
\* that has decoded nothing.
Reidentify(d) ==
  /\ LoopIdle /\ known[d]
  /\ \E t \in Type : /\ rtype' = [rtype EXCEPT ![d] = t]
                     /\ value' = [value EXCEPT ![d] = IF t = rtype[d] THEN @ ELSE None]
  /\ Publish("changed", d)
  /\ UNCHANGED <<known, calls, bridge, conn, pc, todo, broker, history>>

\* A frame is decoded.
Decode(d) ==
  /\ LoopIdle /\ known[d]
  /\ \E v \in Value : value' = [value EXCEPT ![d] = v]
  /\ Publish("changed", d)
  /\ UNCHANGED <<known, rtype, calls, bridge, conn, pc, todo, broker, history>>

\* The grace period is over: Hub.remove.
Remove(d) ==
  /\ LoopIdle /\ known[d]
  /\ known' = [known EXCEPT ![d] = FALSE]
  /\ Publish("gone", d)
  /\ UNCHANGED <<rtype, value, calls, bridge, conn, pc, todo, broker, history>>

-----------------------------------------------------------------------------
(* _advertise and _publish_state, in either thread. *)

Goto(t, step) == pc' = [pc EXCEPT ![t].at = step]

\* A thread is done with a record: paho's goes on with its list.
Done(t) ==
  pc' = [pc EXCEPT ![t] = IF t = "paho" THEN [Idle EXCEPT !.at = "next"] ELSE Idle]

\* What paho publishes while there is no connection is gone (quality of
\* service 0, external).
Retain(topic, d, m) == IF link THEN [topic EXCEPT ![d] = m] ELSE topic

Key(d) == <<d, rtype[d]>>

\* Mutant: a device is advertised once, whatever it turns out to be.
CheckDevice(t, d) ==
  /\ IF \E k \in advertised : k[1] = d
     THEN Goto(t, "online")
     ELSE pc' = [pc EXCEPT ![t] = [@ EXCEPT !.at = "discover", !.key = rtype[d]]]
  /\ UNCHANGED <<bridge, broker>>

Check(t, d) ==
  /\ IF Key(d) \in advertised
     THEN Goto(t, "online")
     ELSE pc' = [pc EXCEPT ![t] = [@ EXCEPT !.at = "discover", !.key = rtype[d]]]
  /\ UNCHANGED <<bridge, broker>>

\* The discovery messages are those of the record's type by then; the key read
\* before is kept for the end.
Discover(t, d) ==
  /\ config' = Retain(config, d, config[d] \cup Announced(rtype[d]))
  /\ avail' = Retain(avail, d, "online")
  /\ Goto(t, "number")
  /\ UNCHANGED <<bridge, state, number>>

\* Mutant: the number entity is always seeded with its default.
SeedNumberDefault(t, d) ==
  /\ portions' = [portions EXCEPT ![d] = IF @ = 0 THEN 1 ELSE @]
  /\ pc' = [pc EXCEPT ![t] = [@ EXCEPT !.at = "mark", !.seed = 1]]
  /\ UNCHANGED <<advertised, broker>>

\* setdefault, and the value that is about to be published.
SeedNumber(t, d) ==
  /\ portions' = [portions EXCEPT ![d] = IF @ = 0 THEN 1 ELSE @]
  /\ pc' = [pc EXCEPT ![t] = [@ EXCEPT !.at = "mark", !.seed = portions'[d]]]
  /\ UNCHANGED <<advertised, broker>>

Mark(t, d) ==
  /\ number' = Retain(number, d, pc[t].seed)
  /\ advertised' = advertised \cup {<<d, pc[t].key>>}
  /\ pc' = [pc EXCEPT ![t] = At("online", d)]
  /\ UNCHANGED <<portions, config, avail, state>>

\* state_payload: what the record and its handler hold by then.
StatePayload(d) == [type |-> rtype[d], value |-> value[d]]

\* Mutant: the state is published without the availability.
OnlineSkipped(t, d) ==
  /\ pc' = [pc EXCEPT ![t] = [@ EXCEPT !.at = "mirror", !.payload = StatePayload(d)]]
  /\ UNCHANGED <<bridge, broker>>

\* _publish_state: the availability, and the payload that is about to follow.
Online(t, d) ==
  /\ avail' = Retain(avail, d, "online")
  /\ pc' = [pc EXCEPT ![t] = [@ EXCEPT !.at = "mirror", !.payload = StatePayload(d)]]
  /\ UNCHANGED <<bridge, config, state, number>>

\* Mutant: the payload is published only while there is none.
MirrorOnce(t, d) ==
  /\ state' = IF state[d] = None THEN Retain(state, d, pc[t].payload) ELSE state
  /\ Done(t)
  /\ UNCHANGED <<bridge, config, avail, number>>

Mirror(t, d) ==
  /\ state' = Retain(state, d, pc[t].payload)
  /\ Done(t)
  /\ UNCHANGED <<bridge, config, avail, number>>

Work(t) ==
  LET d == pc[t].dev
  IN  /\ \/ pc[t].at = "check" /\ Check(t, d)
         \/ pc[t].at = "discover" /\ Discover(t, d)
         \/ pc[t].at = "number" /\ SeedNumber(t, d)
         \/ pc[t].at = "mark" /\ Mark(t, d)
         \/ pc[t].at = "online" /\ Online(t, d)
         \/ pc[t].at = "mirror" /\ Mirror(t, d)
      /\ UNCHANGED <<hub, bus, calls, conn, todo, history>>

-----------------------------------------------------------------------------
(* The event loop's side. *)

\* _consume_events on device_identified and device_state: the record is looked
\* up when the event is read, not when it was published.
ConsumeChanged ==
  /\ LoopIdle /\ queue # <<>> /\ Head(queue).kind = "changed"
  /\ queue' = Tail(queue) /\ UNCHANGED missed
  /\ IF known[Head(queue).dev]
     THEN pc' = [pc EXCEPT !["loop"] = At("check", Head(queue).dev)]
     ELSE UNCHANGED pc
  /\ UNCHANGED <<hub, calls, bridge, conn, todo, broker, history>>

\* Mutant: a device the hub does not know is left alone, as above.
ConsumeGoneKnown ==
  /\ LoopIdle /\ queue # <<>> /\ Head(queue).kind = "gone"
  /\ queue' = Tail(queue) /\ UNCHANGED missed
  /\ LET d == Head(queue).dev
     IN  /\ avail' = IF known[d] THEN Retain(avail, d, "offline") ELSE avail
         /\ orphans' = IF link THEN orphans \ {d} ELSE orphans \cup {d}
  /\ UNCHANGED <<hub, calls, bridge, conn, pc, todo, config, state, number, misfed>>

\* device_disconnected: no look at the hub, the event itself is the news.
ConsumeGone ==
  /\ LoopIdle /\ queue # <<>> /\ Head(queue).kind = "gone"
  /\ queue' = Tail(queue) /\ UNCHANGED missed
  /\ LET d == Head(queue).dev
     IN  /\ avail' = Retain(avail, d, "offline")
         /\ orphans' = IF link THEN orphans \ {d} ELSE orphans \cup {d}
  /\ UNCHANGED <<hub, calls, bridge, conn, pc, todo, config, state, number, misfed>>

\* device_connected is not the bridge's concern.
ConsumeOther ==
  /\ LoopIdle /\ queue # <<>> /\ Head(queue).kind = "connected"
  /\ queue' = Tail(queue) /\ UNCHANGED missed
  /\ UNCHANGED <<hub, calls, bridge, conn, pc, todo, broker, history>>

\* What becomes of a number outside the range the feeder takes.
Clamp(n) == IF n < 1 THEN 1 ELSE IF n > MostPortions THEN MostPortions ELSE n

\* Mutant: the number is taken as it comes.
SetPortionsUnclamped(d, n) ==
  /\ portions' = [portions EXCEPT ![d] = n]
  /\ number' = Retain(number, d, n)

\* The number is kept for the next feed, and shown.
SetPortions(d, n) ==
  /\ portions' = [portions EXCEPT ![d] = Clamp(n)]
  /\ number' = Retain(number, d, Clamp(n))

\* Mutant: a feed dispenses one portion, whatever was set.
NextFeedOne(d) == 1

\* The portions of the next feed: one while none were set or seeded.
NextFeed(d) == IF portions[d] = 0 THEN 1 ELSE portions[d]

Feeds(d) == known[d] /\ rtype[d] = "feeder"

\* _run_command on a number the user set (what is no number raises and is
\* logged), or on the feed button (only a feeder's handler has the command).
RunCommand ==
  /\ LoopIdle /\ calls # <<>>
  /\ calls' = Tail(calls)
  /\ LET d == Head(calls).dev
         n == Head(calls).number
     IN  \/ /\ Head(calls).kind = "portions" /\ known[d] /\ n # Junk
            /\ SetPortions(d, n)
            /\ UNCHANGED misfed
         \/ /\ Head(calls).kind = "portions" /\ (~known[d] \/ n = Junk)
            /\ UNCHANGED <<portions, number, misfed>>
         \/ /\ Head(calls).kind = "feed"
            /\ misfed' = (misfed \/ (Feeds(d) /\ portions[d] # 0 /\ NextFeed(d) # number[d]))
            /\ UNCHANGED <<portions, number>>
  /\ UNCHANGED <<hub, bus, advertised, conn, pc, todo, config, avail, state, orphans>>

-----------------------------------------------------------------------------
(* Paho's thread and the connection. *)

PahoIdle == pc["paho"].at = "idle"

\* on_message: the command hops onto the event loop.
Receive(d) ==
  /\ link /\ PahoIdle /\ Len(calls) < MostCalls
  /\ \E c \in [kind : {"portions"}, dev : {d}, number : Payload]
            \cup [kind : {"feed"}, dev : {d}, number : {Junk}] : calls' = Append(calls, c)
  /\ UNCHANGED <<hub, bus, bridge, conn, pc, todo, broker, history>>

\* The broker accepts the connection, or refuses it with a reason code:
\* on_connect does the same in either case.
Connect ==
  /\ ~link /\ PahoIdle
  /\ \/ link' = TRUE /\ UNCHANGED faults
     \/ faults < MaxFaults /\ faults' = faults + 1 /\ UNCHANGED link
  /\ Goto("paho", "list")
  /\ UNCHANGED <<hub, bus, calls, bridge, restarts, todo, broker, history>>

LinkLost ==
  /\ link /\ faults < MaxFaults
  /\ link' = FALSE
  /\ faults' = faults + 1
  /\ UNCHANGED <<hub, bus, calls, bridge, restarts, pc, todo, broker, history>>

\* Mutant: on_connect only looks after devices that were not advertised.
ListNew ==
  /\ pc["paho"].at = "list"
  /\ todo' = {d \in Dev : known[d] /\ Key(d) \notin advertised}
  /\ Goto("paho", "next")
  /\ UNCHANGED <<hub, bus, calls, bridge, conn, broker, history>>

\* list(self.hub.devices.values())
List ==
  /\ pc["paho"].at = "list"
  /\ todo' = {d \in Dev : known[d]}
  /\ Goto("paho", "next")
  /\ UNCHANGED <<hub, bus, calls, bridge, conn, broker, history>>

NextListed ==
  /\ pc["paho"].at = "next"
  /\ \/ /\ todo = {}
        /\ pc' = [pc EXCEPT !["paho"] = Idle]
        /\ UNCHANGED todo
     \/ \E d \in todo :
          /\ todo' = todo \ {d}
          /\ pc' = [pc EXCEPT !["paho"] = At("check", d)]
  /\ UNCHANGED <<hub, bus, calls, bridge, conn, broker, history>>

\* The process ends and another one starts: what it held is gone, the broker
\* keeps what it retained, and no last will told it that anything ended.
Restart ==
  /\ restarts < MaxRestarts
  /\ restarts' = restarts + 1
  /\ known' = [d \in Dev |-> FALSE]
  /\ rtype' = [d \in Dev |-> None] /\ value' = [d \in Dev |-> None]
  /\ queue' = <<>> /\ missed' = {} /\ calls' = <<>>
  /\ advertised' = {} /\ portions' = [d \in Dev |-> 0]
  /\ link' = StartsUp
  /\ pc' = [t \in Thread |-> Idle] /\ todo' = {}
  /\ orphans' = orphans \cup {d \in Dev : avail[d] = "online"}
  /\ UNCHANGED <<faults, broker, misfed>>

Consume == ConsumeChanged \/ ConsumeGone \/ ConsumeOther

Next ==
  \/ \E d \in Dev : \/ Attach(d) \/ Identify(d) \/ Reidentify(d) \/ Decode(d) \/ Remove(d)
                    \/ Receive(d)
  \/ \E t \in Thread : Work(t)
  \/ Consume \/ RunCommand \/ Restart
  \/ Connect \/ LinkLost \/ List \/ NextListed

Spec == Init /\ [][Next]_vars

\* The event loop goes on with a task that was called and comes back to the task
\* that waits for an event, whatever else it runs; paho's thread works through
\* its list.  Nothing is asked of the hub, the broker or the user.
Fairness ==
  /\ \A d \in Dev : WF_vars(Identify(d))
  /\ \A t \in Thread : WF_vars(Work(t))
  /\ WF_vars(List) /\ WF_vars(NextListed)
  /\ SF_vars(Consume)

FairSpec == Spec /\ Fairness

-----------------------------------------------------------------------------

\* Nothing is under way: every event and command is dealt with, both threads
\* are idle, and the link is up.  A device whose last news did not fit into the
\* queue is not spoken of: until its next event the bridge cannot know better.
Quiet == queue = <<>> /\ calls = <<>> /\ LoopIdle /\ PahoIdle /\ link

\* A device the hub knows is online for Home Assistant (ha_mqtt.py:398-405,
\* 437-453): an outage of the broker, or a device_disconnected that was read
\* after the device had come back, does not leave it unavailable.
OnlineWhenQuiet == Quiet => \A d \in Dev \ missed : known[d] => avail[d] = "online"

\* A device that was shown and is gone is offline for Home Assistant
\* (ha_mqtt.py:444-451): an event that was read late does not put it back.  All
\* that can leave it online is a restart or an outage that took the news with it
\* (hub.py:223-226, ha_mqtt.py:475-477), and only until it goes again.
OfflineWhenQuiet ==
  Quiet => \A d \in Dev \ missed : ~known[d] /\ d \notin orphans => avail[d] \in {None, "offline"}

\* The entities of what a known device turned out to be have been announced
\* (ha_mqtt.py:3-5, 315-323, 402-405, 456-468), also when its type changed and
\* after a restart, and the mirrored payload has what each of them displays.
DiscoveredWhenQuiet ==
  Quiet => \A d \in Dev \ missed : known[d] =>
             /\ Announced(rtype[d]) \subseteq config[d]
             /\ \A e \in DOMAIN Sensors(rtype[d]) :
                  state[d] # None => Sensors(rtype[d])[e] \in StateKeys(state[d].type)

\* The state topic mirrors the decoded state of a known device
\* (ha_mqtt.py:326-352, 444-448, 470-473), whatever was coalesced or read late;
\* nothing that another type of handler had decoded is left in it.
MirroredWhenQuiet == Quiet => \A d \in Dev \ missed : known[d] => state[d] = StatePayload(d)

\* The number Home Assistant shows is the number of portions the next feed
\* dispenses (ha_mqtt.py:428-433, 464-466).
NumberWhenQuiet ==
  Quiet => \A d \in Dev \ missed : known[d] => portions[d] = number[d]

\* The feed button of a device whose number was set or advertised since the process
\* started dispenses what the number entity shows (ha_mqtt.py:428-433), also while
\* events wait.  The feeds between a restart and the next advertisement are left
\* out: they dispense one portion, whatever the broker still shows (:432).
FeedsAsShown == ~misfed

\* A device that stays is shown as online in the end and for good
\* (ha_mqtt.py:398-405, 437-453): through reconnects, a broker that refuses and
\* a disconnect that is read late, its last word is "online".
BackOnline ==
  \A d \in Dev : <>[](known[d] /\ link /\ d \notin missed) => <>[](avail[d] = "online")

-----------------------------------------------------------------------------
(* The invariants the proofs use.  Quiet is only the end of a story: what the *)
(* broker shows of a device is right, or what will correct it is on its way.  *)

\* What a thread has in hand is there and of a type.
InHand(t, l) ==
  /\ l.at \notin IF t = "loop" THEN {"list", "next"} ELSE {"identify"}
  /\ l.at \notin {"idle", "list", "next"} => l.dev \in Dev
  /\ l.at \in {"discover", "number", "mark"} => l.key # None
  /\ l.at = "mark" => l.seed # 0
  /\ l.at = "mirror" => l.payload # None

Handled(d) == known[d] \/ d \in todo \/ \E t \in Thread : pc[t].dev = d

ThreadsFit ==
  /\ \A t \in Thread : InHand(t, pc[t])
  /\ PahoIdle => todo = {}
  /\ \A d \in Dev : Handled(d) => rtype[d] # None

Says(e, k, d) == e.kind = k /\ e.dev = d

\* An event of this kind about d waits in q; one that d changed waits there and
\* none behind it that d is gone.
Waits(q, k, d) == \E i \in 1..Len(q) : Says(q[i], k, d)

Renewed(q, d) ==
  \E i \in 1..Len(q) : /\ Says(q[i], "changed", d)
                       /\ \A j \in 1..Len(q) : j > i => ~Says(q[j], "gone", d)

Doing(t, steps, d) == pc[t].at \in steps /\ pc[t].dev = d

Advertising == {"check", "discover", "number", "mark"}

\* The news that d is there is the last the loop will read of it.
Expected(d) == Doing("loop", {"identify"}, d) \/ Renewed(queue, d)

GoneIsNotLast ==
  \A d \in Dev \ missed : known[d] /\ Waits(queue, "gone", d) => Expected(d)

OnlineIsAhead ==
  \A d \in Dev \ missed : known[d] /\ link =>
    \/ avail[d] = "online" \/ Expected(d)
    \/ \E t \in Thread : Doing(t, Advertising \cup {"online"}, d)
    \/ pc["paho"].at = "list" \/ d \in todo

\* The inductive invariant behind OnlineWhenQuiet (ha_mqtt.py:398-405, 437-473).
IInv == TypeOK /\ ThreadsFit /\ GoneIsNotLast /\ OnlineIsAhead

\* While the broker stays connected the event loop is alone, and nothing it has
\* read is stale before it is used.
LoopIsAlone ==
  /\ link /\ PahoIdle
  /\ ~LoopIdle =>
       LET l == pc["loop"]
           d == l.dev
       IN  /\ known[d]
           /\ l.at \in {"discover", "number", "mark"} => l.key = rtype[d]
           /\ l.at \in {"number", "mark"} => Announced(l.key) \subseteq config[d]
           /\ l.at = "mark" => l.seed = portions[d]
           /\ l.at = "mirror" => l.payload = StatePayload(d)

\* The loop will look at d.
Heard(d) == Doing("loop", {"identify"}, d) \/ Waits(queue, "changed", d)

GoneIsAhead ==
  \A d \in Dev \ (missed \cup orphans) :
    ~known[d] /\ avail[d] = "online" => Waits(queue, "gone", d)

AdvertisedIsAhead ==
  /\ \A d \in Dev, t \in DeviceType : <<d, t>> \in advertised =>
       Announced(t) \subseteq config[d] /\ portions[d] # 0
  /\ \A d \in Dev \ missed : known[d] =>
       Heard(d) \/ Doing("loop", Advertising, d) \/ Key(d) \in advertised

StateIsAhead ==
  \A d \in Dev \ missed : known[d] =>
    \/ Heard(d) \/ Doing("loop", Advertising \cup {"online", "mirror"}, d)
    \/ state[d] = StatePayload(d)

NumberIsAhead ==
  \A d \in Dev : portions[d] # 0 => portions[d] = number[d] \/ Doing("loop", {"mark"}, d)

\* The inductive invariant of the loop alone (ha_mqtt.py:423-473), in behaviours in
\* which the broker stays connected.
LoopInv ==
  LoopIsAlone /\ GoneIsAhead /\ AdvertisedIsAhead /\ StateIsAhead /\ NumberIsAhead /\ ~misfed

=============================================================================
