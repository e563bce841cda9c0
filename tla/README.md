# catlink-local in TLA+

catlink-local is an asyncio server that takes the place of the CATLINK cloud for
pet feeders and litter boxes, or sits between them and the cloud.  This directory
holds TLA+ modules that model it, the TLC configurations that check them, and
theorems about them with proofs for TLAPS.  Paths below are relative to the
repository; `catlink_local/` is `src/catlink_local/`.

Contents: 1 the system, 2 the modules, 3 what each run shows, 4 bounds,
5 fairness, 6 proofs, 7 disagreements between code and promise,
8 abstractions, 9 what is not modelled, 10 plan.

## 1. The system

Everything but two threads runs on one asyncio event loop: a coroutine runs
undisturbed from one `await` to the next, so those are the steps of the models.
The threads are paho's network thread (`ha_mqtt.py`) and the executor threads of
name lookups (`resolve.py`).

| component | source | state | operations | talks to |
|---|---|---|---|---|
| Device table | `hub.py` | `devices`, per record `sessions`, `disconnected_at`, `handler` | `attach`, `detach`, `_expire`, `remove`, delayed calls | sessions call it; it publishes |
| Event bus | `hub.py` | one bounded queue per subscriber | `subscribe`, `unsubscribe`, `publish` | dashboard, MQTT bridge |
| Sessions | `server.py`, `proxy.py` | record, handler, first address | `_identify`, `dispatch`, `observe` | table, registry, handlers |
| Local server | `server.py` | one task per connection | `handle_connection` | sessions |
| Proxy | `proxy.py` | per connection: dialling, two pumps, two transports | `handle_proxy_connection`, `_pump` | sessions, resolver, cloud |
| Handlers, registry | `devices/*.py`, `registry.py` | decoded state, session that commands go to | `claim`, `find_handler`, `on_frame`, `observe`, commands | hub, sessions |
| Litter box handler | `devices/litterbox.py` | the last occupancy flag, whether the clock was pushed | cat-entry edge, clock push | local server |
| Wire protocol | `protocol.py` | a byte buffer per direction | `encode`, `Frame.parse`, `iter_frames` | reading loops |
| MQTT bridge | `ha_mqtt.py` | `_advertised`, `_portions`; the broker keeps retained topics | `_on_connect`, `_on_message`, `_consume_events`, `_advertise`, `_publish_state`, `_run_command` | hub, broker |
| Dashboard | `dashboard/*` | a stream per page, the page's cards | `_sse`, the page's event handler | hub |
| Clean resolver | `resolve.py` | a cache with a lifetime | `resolve`, `_resolve_blocking` | proxy, resolvers |
| Captures | `hub.py` | the dump, a file per device, lists of unknown and unhandled frames | `write_capture`, `capture_device`, `capture_unknown`, `capture_unhandled` | sessions |
| Entities | `ha_mqtt.py` | none | `discovery_for`, `state_payload` | bridge |
| Command line, tools | `__main__.py`, `simulator.py` | none | wiring, replay | |

What makes it hard, and what correctness means for each part:

* **Table and sessions.** A device opens overlapping connections and drops them
  in any order; every close may leave a delayed `_expire` behind, and nothing
  ever cancels one.  The counter must be the number of connections, no session
  may work on a record the hub has dropped, a device may not be reported gone
  while connected and must be reported gone in the end, and a reconnect must
  keep what was decoded and where commands go.
* **Proxy.** Two pumps per connection interleave at each `await`, with those of
  other connections and the timers.  A side that hangs up must take the other
  down and be detached; an exception in one pump must not break the count.
* **Litter box.** The edge that logs a cat compares two heartbeats through the
  handler object, which overlapping connections share, reconnects take over and the
  end of the grace period throws away.  One visit is one entry; a box that is known
  has been sent the clock; commands stay with their device.
* **Wire protocol and relay.** TCP cuts frames anywhere.  Every frame comes out
  once, whole and in order, also behind bytes that are none.  In the proxy the
  dashboard's commands go into the same stream as the cloud's raw chunks, and what
  passes has to be captured once and in order.
* **MQTT bridge.** Events are read long after they were published; the broker
  goes away, the process is restarted, and what is retained stays; two threads
  publish to the same topics.  What Home Assistant is left with when all is quiet
  must be what the hub knows, and a device that stays must come back online.
* **Dashboard.** A snapshot and a queue of events must add up to what the hub
  knows; dead streams must be given up.
* **Resolver.** Overlapping lookups fill one cache; an answer that is dialled
  must be recent, and a failure must be forgotten after a while.

`PROJECT.json` ("hazards") lists these one by one, at the line where each bites,
with the properties that would catch it.

## 2. The modules

| module | models | state and actions |
|---|---|---|
| `Availability` | abstract | per device `absent`, `online`, `grace`: what the hub promises of a device |
| `Devices` | `devices/*.py` | no state: `FindHandler` (which class claims a first frame, in import order) and `Decodes` (which groups of keys a frame fills) |
| `Hub` | `hub.py:31-63, 171-226` | `AttachKnown`/`AttachNew` (attach, get_or_create), `Detach` (with its three outcomes), `Expire` (_expire and remove), `Tick` |
| `Sessions` | what `server.py` and `proxy.py` do alike | `Identify` (attach, reuse or make a handler, decode), `Observe`, `CloseSession`; extends `Hub` and `Devices` |
| `LocalServer` | `server.py` | `Accept`, `FirstFrame`, `LaterFrame`, `CloseIdentified`, `CloseUnidentified`, timers; extends `Sessions` |
| `ProxyServer` | `proxy.py` | dialling, `PumpReads`, `PumpObserves`, `PumpEnds` (finally), `PumpFails`, `Finish` (gather returned), `FinishFailed`, a peer that stops taking bytes (`PeerStalls`, `PeerTakes`); extends `Sessions` |
| `LitterBox` | `devices/litterbox.py` on the local server | `CatComes`/`CatLeaves`, `Beat` (a heartbeat is sent), `HeartbeatRead` and `OtherRead` (dispatch with the edge and the clock), `Connect`, `Disconnect`, `DelayOver` |
| `Framing` | `protocol.py` | no state: `Encode`, `Decode`, `Resync`, `IterFrames` (the parser and the checksum are recursive functions, so that they can be proved about) |
| `Relay` | `_pump`, `ProxySession.send`/`observe` byte by byte, the captures of `hub.py` | `CloudSends`, `CloudStrays`, `Forward` (read, write on, drain), `ObserveChunk` (parse a copy), `ObserveReport` (the other pump), `Inject` (a command) |
| `Entities` | `discovery_for`, `state_payload` and the entity tables of `ha_mqtt.py` | no state: `Announced`, `Sensors`, `StateKeys` |
| `MqttBridge` | `ha_mqtt.py` | both threads step by step through `_advertise` and `_publish_state`, the event queue, the portions and feed commands, the link, `Restart` of the process; the hub is what its events show of it |
| `Dashboard` | `hub.py:228-261`, `webserver.py:100-144`, `index.html` | `Subscribe` (subscription and snapshot), `Send`, `Notice` (the failing write or ping), the page's `Handle` |
| `Resolver` | `resolve.py:73-113` | `Start`, the thread's `CleanAnswers`/`CleanFails`/`SystemAnswers`, `Store`, `Dial`; the cloud moves |

How they compose: `Hub` and `Devices` are the parts, `Sessions` joins them, and
the two servers extend `Sessions` with their own tasks; both are shown to
implement `Availability` through the mapping `shown` in `Hub`.  `LitterBox` extends
`LocalServer`: each of its steps that touches a connection is a step of the server
together with what the handler does.  `Relay` extends `Framing` and is one direction
of a `ProxyServer` connection, seen by its bytes.  `MqttBridge` extends `Entities`;
it and `Dashboard` read the hub through its event bus only, so each has a small hub
of its own that does what the events can tell.  `Resolver` stands alone.

`MC*.tla` give TLC the frames, messages and symmetry sets (`MqttBridge` and
`Dashboard` need none and are run as they are); `*_proofs.tla` hold
the theorems.  Definitions marked "Mutant" in a module change one mapped
definition the way a bug would; each property is violated under one of them.

Objects and identity.  `DeviceRecord` and handler objects are values of `Rec` and
`Hnd`, since `_expire` and the sessions compare or share them by identity.  A
value is taken for a new object once nothing refers to it any more
(`FreshRecord`, `FreshHandler`).  In TLC's instances there may be none left, and
the first frame then waits; two records for one device let a second incarnation
meet the pending calls of the first, and the proofs hold for any set of records.

Time.  Delays are relative ticks.  `timers[r]` holds what is left of each pending
`_expire` of a record, and `Tick` waits for calls that are due, as the event loop
runs them before it goes on.

## 3. Runs

| run | asks | result |
|---|---|---|
| `LocalServer` | one feeder, overlapping connections: do counter, table, timers, handlers and decoded state agree, and does the server implement `Availability`, liveness included? | holds, 68,452 states |
| `ProxyServer` | two proxied connections whose pumps may raise anything: the inductive invariant; is every connection counted too much one whose pump failed; does the decoded state stay; does a hang-up propagate unless a peer takes no bytes; is `Availability` implemented? | holds, 164,772 states |
| `LitterBox` | two boxes, one of which may change its handler class: is a visit logged once, is the clock pushed, do commands stay with their device, and is the invariant of the proofs one? | holds, 412,100 states |
| `Relay` | two frames of the cloud and noise, cut in every way, while the device reports and a command is injected: frames and captures, and the invariant of the proofs | holds, 891,547 states |
| `MqttLoop` | a broker that stays up and a process that is restarted: availability, entities, state, number and feeds, also when its queue overflows; the loop's invariant | holds, 1,999,371 states |
| `MqttLink` | a connection fault and a restart, both threads, a queue that overflows: is a known device online when all is quiet, and in the end? | holds, 856,227 states |
| `Resolver` | three overlapping lookups of a cloud that moves | holds, 39,112 states |
| `Dashboard` | a page, an old stream, a hub that outruns them: is a page that caught up current, do gone devices leave it, are dead streams given up? | holds, 128,680 states |
| `LocalGrace` | is the grace period honoured? | violated, see 7 |
| `ProxyLeak` | is the counter exact whatever a pump raises? | violated, see 7 |
| `RelaySplice` | does the device read all that the cloud and the dashboard write to it? | violated, see 7 |
| `MqttDiscovery` | are known devices announced after a connect? | violated, see 7 |

The properties worth knowing:

* `SessionsCounted`, `ConnectedIsKnown`, `ExpiryArmed`: `detach` finds records by
  address and ignores the record the session holds; that this is the same record
  is a consequence of the count being exact, and the count being exact is a
  consequence of it being the same record.
* `PromiseKept`: the refinement of `Availability`, liveness included.  Its safety part is
  `PromiseSafety`, which the theorems state.
* `StateSurvives`: an action property across reconnects.  It holds for devices
  whose first frames one class claims (the captured dialect), and for the proxy
  whatever the cloud sends; section 7 says what happens otherwise.
* `LossesAccounted`: `lost` counts, for each record, connections that ended without a
  detach; the counter is the number of live connections plus exactly these.  So an
  exception in a pump is the only thing that can leave a device online for ever, and
  each costs one count, however its connection overlaps with others.
* `HangUpPropagates`: a side that hangs up, or a pump that fails, takes the whole
  connection down, with no fairness asked of the device or the cloud.  One thing can
  hold it up, and for ever: a peer that keeps its connection and takes no bytes
  (`stalled`).  The pump that is left then waits in a drain (`proxy.py:162`), or for the
  end of a transport whose close waits for its buffer (`proxy.py:170`), and neither has a
  time-out; the session, its count and the task stay with it.
* `CommandsStayHome`: a command never reaches the connection of another device,
  whichever handlers were taken over or replaced.
* `EntriesAreArrivals`: no visit of a cat is logged twice, through reconnects and
  overlapping connections.  Its two exceptions are in 7.
* `ClockIsPushed`: "once per handler" is enough that every box the hub knows was
  sent the clock since its record was made.
* `ChunkingInvisible`, `FramesInOrder`: feeding the buffer chunk by chunk is one pass
  over all bytes, and gives the frames that were sent.
* `SharedStreamReadable`: the stream to the device, which two writers share, has
  every frame of both, unless a command fell inside a frame; that it can is
  `RelaySplice`.
* `CaptureIsComplete`: the dump has all frames, also those before the device was
  identified; the file of a device has what follows, the focused list every frame of
  it that the handler does not know, and no other.  It leaves open how often, as code and
  README differ there (7).  What the code does, append each time, is `CapturesAgree`, a
  part of the inductive invariant.
* `OnlineWhenQuiet`, `OfflineWhenQuiet`, `DiscoveredWhenQuiet`,
  `MirroredWhenQuiet`, `NumberWhenQuiet`: the broker's retained messages agree
  with the hub once queue, commands and both threads are idle and the link is up.
  Only the first survives outages with both threads.  `OfflineWhenQuiet` leaves out
  `orphans`, devices whose "offline" a restart or an outage took with it; all leave
  out `missed`, devices whose last news a full queue dropped.
* `FeedsAsShown`: a feed of a device whose number was set or advertised since the
  process started dispenses what the number entity shows at that moment, events still
  waiting or not.  A feed between a restart and the next advertisement is left out: it
  dispenses one portion, whatever is shown (7).
* `BackOnline`: if a device stays known and the link stays up, it is online in the
  end and does not drop out again.
* `PageIsCurrent`: what the page shows is what the hub knows once it has caught
  up, for a stream whose queue did not overflow.
* `AnswersAreRecent`, `FailuresExpire`: how long the proxy may dial an address the
  cloud has left, or go astray after a failure of the clean resolver.

## 4. Bounds

| bound | where | why it is enough |
|---|---|---|
| 1 device, 2 boxes in `LitterBox` | servers | devices share nothing but handlers and the table; two show commands and records crossing |
| 2 connections | servers | they overlap in every order, and a slot that closed is the next connection; the proofs cover any number |
| 1 or 2 records, 1 to 3 handlers | servers | two: a device that was removed and came back while calls of its old record are pending (`LocalServer`, `LitterBox`); with one dialect class per device one handler per record is in use |
| `Grace` 1 or 2 (90 s in the code) | `Hub` | with 2 ticks (`LocalServer`) an old call is due in the middle of a later outage |
| `MaxCount` 1 | `ProxyServer` | no pump fails while a counter is above it, since leaked counters would grow without end; one leaked count and two connections lie on top of it |
| `MaxStalled` 1 | `ProxyServer` | peers hold up one connection at a time, while the other goes on in every way; connections wait for their own peers only |
| `InFlight` 1, two visits | `LitterBox` | a heartbeat waits on each of two connections, so that they overtake each other; a visit waits to be read when the next begins.  The proofs hold for any number of both |
| view `Live` | `LitterBox` | states that differ only in what a handler nobody refers to still holds are one: whoever takes its value for a new handler sets all of it, and nothing writes to it before (`HandlersOwned`, proved) |
| `MostPortions` 2 (12 in the code), payloads 0 to 3 and junk | `MqttBridge` | both ends of the range and beyond |
| `QueueMax` 2 (1000 in the code) | `MqttBridge` | events wait behind one another, and the queue overflows |
| `MostCalls` 2 (loop) or 0 (link), `MaxRestarts` 1, `MaxFaults` 0 (loop) or 1 (link) | `MqttBridge` | a feed waits behind a number; the link is lost, or the connection that ends an outage before the first device is refused; a restart at any moment |
| one decoded value (loop) or none (link) | `MqttBridge` | decoded or not yet; a fault does not touch the values |
| `QueueMax` 2, `WireMax` 1 | `Dashboard` | the queue overflows, and a page may stop reading |
| two streams | `Dashboard` | the new stream of a page beside its old one |
| `MostFrames` 2, `MostNoise` 1, `MostReports` 2, `MostCommands` 1 | `Relay` | every cut inside, between and across frames, a command and an identification at every moment of it; one message holds the magic byte in its body and sequence number |
| `Ttl` 2, `Wait` 1, three tasks, two addresses | `Resolver` | a slow lookup overwrites the entry of a quick one while a third is served from the cache |

The theorems (6) need none of these bounds: they hold for any number of devices,
connections, records, handlers, visits, heartbeats, streams, tasks and addresses, any
capacity of the queues and any number of faults, restarts and waiting calls, unless
they say otherwise.  The runs check the same invariants on the instances above.

## 5. Fairness

* `LocalServer`, `ProxyServer`: time goes on (`WF` on `TimePasses`) and the event
  loop runs calls that are due (`WF` on `ExpireTimer`).  In the proxy it also resumes
  a task: `WF` on `Finish \/ FinishFailed` (both pumps stopped) and, once one pump
  has stopped, on the other's `PumpObserves`, which is only enabled while the peer takes
  bytes.  `SF` on a pump's reading the end of a transport the proxy itself has closed,
  again only while its peer takes bytes, strong because buffered bytes may come
  first, again and again, but only finitely many of them.  A drain of a connection that
  is not coming down may last as long as it likes.  Nothing is asked of devices or of the
  cloud: `PeerStalls` may happen at any time and `PeerTakes` never.
* `MqttBridge` (`FairSpec`): `WF` on the steps of a thread that has begun something
  (`Identify`, `Work`, `List`, `NextListed`): neither the loop nor paho's thread stops
  in the middle of a function.  `SF` on `Consume`: the task that waits in `queue.get()`
  is made ready when an event is there and the loop runs ready tasks in turn, however
  often connections run in between.  Nothing is asked of the hub, the broker or the user.
* `Dashboard`: the loop resumes a stream that has an event, a ping that is due or
  a dead connection, and the page takes what TCP hands it.
* The other modules state no liveness; "when quiet" invariants say what the state
  is whenever nothing is left to do, and need no fairness.

## 6. Proofs

Checked by TLAPS for all values of the constants that meet the named `ASSUME`s
(`None` is no object, the grace period is a positive number of ticks, dialects
consist of frames, `Conn` is finite, queues hold at least one event, a litter box
speaks to one handler class, frames of the relay fit their length field and a command
can be told from a frame of the cloud).  Every invariant was first checked by TLC, on the run
of its module.  None of the properties is inductive by itself; the paragraphs say
what has to be added and why.

**Sessions** (`Sessions_proofs`, `LocalServer_proofs`, `ProxyServer_proofs`).  That
the counter is never too small (`NeverUndercounted`) needs `detach`, which looks the
record up by address, to find the closing session's own record (`ConnectedIsKnown`).
This holds only if `_expire` never removes a record that is in use, for which the
counter must not be too small, a record be known under its own address
(`RecordsAreOwned`), and a new record be one that no session refers to; the last
follows, as every session's record is in the table.  `ExpiryArmed` needs
`GoneMatches` (`disconnected_at` is set exactly while the counter is 0) so that a
removal and a close do not miss each other, and `TimersOwned` so that an expiring
call belongs to an address.  Their conjunction is `Consistent`.

That commands stay at home needs who owns which handler (`HandlersOwned`): a
session has one exactly while it has a record, a handler writes to a session that
has it, a known device's handler is no other's and serves no session of another
device.  This holds whatever classes claim the frames.  For a device whose frames
one class claims (`OneClassFor`) the handler of its record is of that class and
its connections share it (`HandlersFit`); then a reconnect always finds it fit, and
nothing that was decoded is lost.  Types, `Consistent`, `HandlersConsistent` and
the exact counter make up `IInv`.

`Sessions_proofs` shows once that the steps all sessions share preserve these and
map to a step or a stutter of `Availability`; the two servers show that each of
their steps is one of those.

* `LocalServer_proofs`: `Invariance`, `TypeCorrect`, `CountIsExact`,
  `SessionsStayKnown`, `NeverForgotten`, `CommandsAreOwned`,
  `ImplementsAvailability` (safety); with `OneClass` also `HandlerIsShared` and the
  action property `DecodedSurvives`.
* `ProxyServer_proofs`: `ProxyInvariance`, `ProxyNeverUndercounts`,
  `LossesAreAccounted`, `ProxyCommandsAreOwned` and `ProxyImplementsAvailability`
  hold whatever the pumps raise, `ProxyDecodedSurvives` with `OneClass`, whatever the
  cloud sends.

A session that is dropped without a detach (`LossyNext`), which only a failed pump
brings about, is the one step that breaks the exact count.  `LossesAreAccounted` adds
what is lost to the count: the counter is the connections that live and the `lost`, for
any number of either; `ProxyLeak` shows that there are some.

**Litter boxes** (`LitterBox_proofs`).  `BoxImplementsServer` is a refinement: every
step of the boxes is one of the local server, so that its theorems hold of them
(`BoxImplementsAvailability`).  That no visit is logged twice
(`VisitIsLoggedOnce`) speaks of the past, of the handler and of heartbeats that are
still on the wire, and these have to be tied together: while one connection has all
heartbeats of a box they report each visit without a break, the next one included,
and nothing else comes before a visit that was logged (`InOrder`, `Unbroken`); a
logged visit that can still be reported is one the record's handler remembers
(`Remembered`).  `Unbroken` is preserved by sending, reading, losing and by the next
cat, each a lemma about sequences of any length.  Which handler a frame reaches, and
that no other device's handler is touched, is `DispatchHandles`: it follows from
`HandlersConsistent`, the box being of one class.  `EveryBoxGetsTheClock` needs that
only litter boxes' handlers have pushed (`PushedAreBoxes`).

**Home Assistant bridge** (`MqttBridge_proofs`).  "When quiet" says what holds at the
end of a story; the invariants say of every moment that what the broker shows of a
device is right or that what will correct it is on its way.

* With both threads, any faults and restarts (`BridgeInv`, `BridgeTypes`): a device
  that is not shown online has a "changed" in the queue with no "gone" behind it, or
  a thread about to publish, or is on paho's list (`OnlineIsAhead`); and a "gone" that
  waits for a device that is known again has such a "changed" behind it
  (`GoneIsNotLast`).  So `KnownIsOnline` (`OnlineWhenQuiet`).
* In the behaviours in which the broker stays connected (`Spec /\ []link`, the hypothesis
  of `BridgeLoopInv` and of the five theorems below), the loop is alone and what it has
  read is not stale when it is used (`LoopIsAlone`).  Then each topic has an invariant
  of the same form (`GoneIsAhead`, `AdvertisedIsAhead`, `StateIsAhead`,
  `NumberIsAhead`): `GoneIsOffline`, `StateIsMirrored`, `EntitiesAreDiscovered`,
  `NumberIsShown`, `FeedIsAsShown`.  Restarts and full queues are covered.  The
  hypothesis cannot be dropped: what is announced while the broker is away is lost for
  good (`MqttDiscovery` is the counterexample), and after an outage paho's thread can
  overwrite a newer state or number with an older one.  `GoneIsOffline` and
  `FeedIsAsShown` have the exceptions of their properties: devices whose going a restart
  took with it, and feeds between a restart and the next advertisement.

**Dashboard** (`Dashboard_proofs`: `DashboardInv`, `DashboardTypes`,
`PageCatchesUp`).  For every device the last event about it in the stream's queue
tells what the hub has; if there is none, the last message about it on the wire shows
it; if there is none either, the page does (`PageFollows`).  An event carries the
handler and not a copy of its state, so the argument has to know that a queued
handler is still the device's (`ObjectsOwned`), and which stream the page listens to
(`StreamsMatch`).

**Resolver** (`Resolver_proofs`: `Accounts`, `ResolverTypes`, `RecentAnswers`,
`FailuresAreOver`).  What is dialled was found before, so the claim has to be made of
the cache and of lookups on their way: an answer of age *n* was the cloud's, or the
clean resolver failed, at most *n* ticks ago (`Accounted`).  An entry keeps the age of
its lookup when it is stored, which is what makes a slow lookup harmless.

**Wire protocol and relay** (`Relay_proofs`).  Two facts about `protocol.py` carry the
rest.  `ParserIsIncremental`: a buffer that is parsed in two parts, the second behind
what the first left, gives the frames and the rest of one pass, for any bytes.
`DecodeOfEncode`: a frame whose length fits its field is decoded to what was encoded,
whatever bytes it holds, the magic included.

Both speak of every buffer, so they need induction, and the library's induction
theorems cannot be used here.  `Induction` derives it from `WFMin`: a set with 0 and
every successor has all naturals, the set standing in the place of a predicate;
`SeqInduction` and `BufferInduction` follow.  That `Drained`, a recursive function,
obeys its equation at all is a theorem too (`DrainedIsTurn`): for each length there is
a parser of the shorter buffers (`ParserBelow`), any two agree (`ParsesAgree`), and
the next parse works on a shorter buffer (`RestShorter`).  `Only`, the filter the
captures are read with, is treated likewise (`OnlyAppend`, `OnlyConcat`, `OnlyRange`).

* `CapturesSafe` needs no assumption on what the cloud sends.  Its invariant `CInv`
  adds to the captures that a device is `known` exactly when the dump has a frame of
  it (`KnownOnceSeen`): the report that identifies it is the first entry of its file.
  `ChunkingIsInvisible` and `CapturesComplete` follow.
* `RelaySafe` is about the two streams and assumes `NoiseHasNoMagic`: bytes between
  two frames do not look like the start of one; without that the claims are false
  (8).  "In order" is not inductive, as it says nothing of the bytes that are under
  way.  `StreamHoldsSent` says it of all of them: parsed, read and unread together they
  hold what was sent, and no frame has begun behind it.  For the device
  `StreamIsShared` splits the sent frames into those it can read by now and those that
  will come out when the unread bytes follow its partial frame; a command keeps this
  unless a frame has begun, which is what `spliced` records.  `FramesAreInOrder` and
  `SharedStreamIsReadable` follow for any frames, noise and number of commands.

**Only model-checked.**  Liveness (`PromiseKept`, `HangUpPropagates`, `BackOnline`,
`GoneLeavesPage`, `DeadStreamsEnd`) is out of the prover's reach.  Every other property
of a passing run is stated by a theorem.

## 7. Where the code does not do what is said of it

Four are counterexamples of runs of their own; `PROJECT.json` ("findings") quotes
the sentence that is not kept.

* `LocalGrace`: `detach` schedules `_expire` and nothing cancels it.  A device that
  closes, reconnects and closes again is removed by the first call, before its
  grace period is over (`hub.py:210`).
* `ProxyLeak`: an exception no pump catches ends `gather` and skips the detach; the
  device stays online for ever (`proxy.py:166`).
* `MqttDiscovery`: a device that comes while there is no broker connection is
  marked as advertised although nothing was sent (`ha_mqtt.py:467`).
* `RelaySplice`: a command is written into the stream to the device at once, also
  between two chunks of one frame of the cloud; the device can read neither
  (`proxy.py:76`, `proxy.py:160`).

Others can be read off the models and have no run:

* `README.md:90` calls the list of unhandled frames deduplicated; a frame is appended
  to it each time it is seen (`hub.py:114`, `proxy.py:141-142`; `CapturesAgree` in
  `Relay`, which a second frame of the same bytes is enough to show).
* When the newest of two connections closes, the handler goes on writing commands
  to it although the older one lives (`server.py:69`; `DropSession` leaves `target`
  at `None`).
* A reconnect whose first frame only another class claims gets a new, empty
  handler (`server.py:70`; the second disjunct of `IdentifyKnown`), although
  `server.py:65-66` says that decoded state survives a reconnect.
* The bytes a resync skips stay in the buffer until a frame follows
  (`protocol.py:151`; `IterFrames`), although `protocol.py:74-75` has them dropped.
* `litterbox.py:126-137` takes the rising edge of the occupancy flag for an entry,
  with its "arrival time (reliable)".  The first heartbeat of a fresh handler finds
  no flag before it: a box that comes back after the grace period, or after a
  restart, with the cat inside logs it again.  Heartbeats of two overlapping
  connections can be read in the wrong order and make an edge of their own.
* A proxied connection whose peer stays and takes nothing is never torn down, though
  the other side has hung up: no drain and no close has a time-out (`proxy.py:162`,
  `proxy.py:170`; `stalled` in `ProxyServer`).
* A device that goes while the broker is away, or with the process, stays online at the
  broker until it comes and goes again (`ha_mqtt.py:451`; `orphans` in `MqttBridge`), and
  news that a full queue dropped waits for the device's next event (`hub.py:251`;
  `missed`).
* `README.md:159-160` has every report acknowledged; the litter box's grid report
  gets no answer (`litterbox.py:149-187`).
* After a restart a feed gives one portion while Home Assistant still shows the
  retained number, until the device is advertised again (`ha_mqtt.py:432`;
  the exception in `FeedsAsShown`).
* When a device turns out to be of another type, the entities announced for the
  earlier one stay at the broker (`Discover` adds to `config`).
* When the clean query fails, the system's resolver may answer with this machine,
  and the proxy dials itself (`resolve.py:105`; `SystemAnswers`).

## 8. Abstractions

* A frame is its type, subsystem, command and whether its body is long enough;
  decoded state is the set of key groups it holds.  What `StateSurvives` says is
  that no group is lost, not which value it has.
* `server.py` dispatches all frames of a chunk in one step; the models dispatch
  one per step, which allows more interleavings.
* Two calls of one record with the same remaining delay are one: the second finds
  nothing to do.
* An address is whole.  A frame whose length field is below 8 has one that is cut
  short, and with none at all the code takes the connection for one that is not
  identified yet and attaches it again; no captured device sends such a frame.
* In `ProxyServer` a name that is not resolved, which raises out of the task and leaves
  the device's transport to asyncio, and a cloud that is not reached, where the task
  closes it, are one action: in both the task is over before the device has a session.
  Bytes that a peer does not take matter once a connection is coming down, and are
  noted from then on.
* A detach without a running event loop (only tests do that) removes the device
  at once and is left out.
* In `MqttBridge` a device has one record at a time: paho's thread holding the
  record of a device that was removed and has come back works on the new one.
  Publishing while there is no connection loses the message, as with the quality
  of service 0 the code uses.  The discovery messages of one advertisement and the
  availability behind them are published in one step, so a link that is lost between
  two of them is not represented.
* In `Dashboard` a card is what the handler decoded last; counters and the last
  command, which change without an event, appear with the next frame's event.  The
  `packet` events of unidentified devices, which share the subscriber's queue in the
  code (`hub.py:251`), are left out; the queue overflows without them as well.
* `Relay` is the direction from the cloud to the device byte by byte; the other one,
  which has the same pump and parser, appears as whole frames it observes.  The
  device is taken to read the stream as `iter_frames` does.  The noise has no magic
  byte: a magic in it starts a frame of arbitrary length, and the format gives the
  reader no way to tell.
* `LitterBox` lets a heartbeat wait unread and lose its connection, but not be
  changed or doubled, as TCP has it.  Visits have names that the code does not see:
  `logged` and `late` remember with them what the properties need (which visits have an
  entry; heartbeats of two connections were on the way at once).
* `Restart` in `MqttBridge` takes everything the process held and nothing at the
  broker: the code sets no last will.
* In `Resolver` every lookup ends within `Wait` ticks, as its time-outs make sure.

## 9. Not modelled

The live traffic log (`packet` events of unidentified devices), the bytes of replies
and clock frames, packet counters and decoded values other than those named above;
the names and headers of capture files, and `capture_unknown` (a failing write is one
of the exceptions of `ProxyServer`); the time between paho's `loop_start` and the
assignment of the client; the DNS message codec of `resolve.py`; the HTTP parser and command route of the dashboard; presentation in
discovery payloads; `__main__.py`, the simulator and the capture tool.  `PROJECT.json`
("components") says of each part what is left out.

## 10. Plan

Done, in this order, most important first: `Hub` with `Sessions` and both servers
against `Availability`, with their proofs; `MqttBridge`; `Framing`; `Resolver` with
its proofs; `Dashboard`; `Relay` with the captures, `LitterBox`, `Entities`; then the
proofs of handlers and commands in both servers, of the losses in the proxy, of
`Dashboard`, `MqttBridge` and `LitterBox`, and of the parser and the relay.

Next modules:

1. `Codec`: `_build_query` and `_parse_answer` against a reference reading of a DNS
   message, compression pointers included.
2. `Dashboard` with the live traffic log.

Next theorem: `MirroredWhenQuiet` after an outage, once paho's thread is done and
another event of the device has been read.
