------------------------------ MODULE Sessions ------------------------------
(***************************************************************************)
(* What a server session and a proxy session have in common: the first     *)
(* frame of a connection attaches it to a record of the hub and to a       *)
(* device handler, which a reconnect takes over from the record together   *)
(* with everything it has decoded.                                         *)
(*                                                                         *)
(* A handler writes its commands to one session, the last that took it     *)
(* over.  Sessions are named by the connection they serve; a handler whose *)
(* session ended has target None.                                          *)
(***************************************************************************)
EXTENDS Hub, Devices, FiniteSets

CONSTANTS
  Conn,     \* connections a device may hold at the same time
  Hnd,      \* DeviceHandler objects
  Dialect   \* the frames the firmware of each device sends

ASSUME DialectAssumption == Dialect \in [Mac -> SUBSET Frame]
ASSUME NoneIsNoHandler == None \notin Hnd \cup Conn \cup Class
ASSUME ConnFinite == IsFiniteSet(Conn)

VARIABLES
  sessRecord,   \* Session.record
  sessHandler,  \* Session.handler
  recHandler,   \* DeviceRecord.handler; its class is DeviceRecord.device_type
  kind,         \* the class of a handler
  target,       \* DeviceHandler.session, the connection commands are written to
  decoded       \* the groups of keys DeviceHandler.state holds

sessVars == <<sessRecord, sessHandler, recHandler, kind, target, decoded>>

SessTypeOK ==
  /\ sessRecord \in [Conn -> Rec \cup {None}]
  /\ sessHandler \in [Conn -> Hnd \cup {None}]
  /\ recHandler \in [Rec -> Hnd \cup {None}]
  /\ kind \in [Hnd -> Class \cup {None}]
  /\ target \in [Hnd -> Conn \cup {None}]
  /\ decoded \in [Hnd -> SUBSET Facet]

SessInit ==
  /\ sessRecord = [c \in Conn |-> None]
  /\ sessHandler = [c \in Conn |-> None]
  /\ recHandler = [r \in Rec |-> None]
  /\ kind = [h \in Hnd |-> None]
  /\ target = [h \in Hnd |-> None]
  /\ decoded = [h \in Hnd |-> {}]

Identified(c) == sessRecord[c] # None

\* The connections the hub counts for a record.
CarriedBy(r) == {c \in Conn : sessRecord[c] = r}

\* A new handler object: no session and no record in use refers to it.
FreshHandler(h) ==
  /\ \A c \in Conn : sessHandler[c] # h
  /\ \A m \in Mac : Known(m) => recHandler[devices[m]] # h

-----------------------------------------------------------------------------

\* Mutant: the handler is taken over, what it has decoded is reset.
ReuseHandlerCleared(c, r, f) ==
  /\ recHandler[r] # None
  /\ kind[recHandler[r]] = FindHandler(f)
  /\ sessHandler' = [sessHandler EXCEPT ![c] = recHandler[r]]
  /\ target' = [target EXCEPT ![recHandler[r]] = c]
  /\ decoded' = [decoded EXCEPT ![recHandler[r]] = Decodes(FindHandler(f), f)]
  /\ UNCHANGED <<recHandler, kind>>

\* The second half of _identify when the record's handler is of the class
\* that claimed the frame: the session takes it over, decoded state and all.
ReuseHandler(c, r, f) ==
  /\ recHandler[r] # None
  /\ kind[recHandler[r]] = FindHandler(f)
  /\ sessHandler' = [sessHandler EXCEPT ![c] = recHandler[r]]
  /\ target' = [target EXCEPT ![recHandler[r]] = c]
  /\ decoded' = [decoded EXCEPT ![recHandler[r]] = @ \cup Decodes(FindHandler(f), f)]
  /\ UNCHANGED <<recHandler, kind>>

\* Mutant: one handler per class serves every device.
NewHandlerPerClass(c, r, h, f) ==
  /\ \A g \in Hnd : kind[g] = FindHandler(f) => g = h
  /\ kind[h] \in {None, FindHandler(f)}
  /\ sessHandler' = [sessHandler EXCEPT ![c] = h]
  /\ recHandler' = [recHandler EXCEPT ![r] = h]
  /\ kind' = [kind EXCEPT ![h] = FindHandler(f)]
  /\ target' = [target EXCEPT ![h] = c]
  /\ decoded' = [decoded EXCEPT ![h] = Decodes(FindHandler(f), f)]

\* ... and otherwise: a new handler, which becomes the record's.
NewHandler(c, r, h, f) ==
  /\ FreshHandler(h)
  /\ sessHandler' = [sessHandler EXCEPT ![c] = h]
  /\ recHandler' = [recHandler EXCEPT ![r] = h]
  /\ kind' = [kind EXCEPT ![h] = FindHandler(f)]
  /\ target' = [target EXCEPT ![h] = c]
  /\ decoded' = [decoded EXCEPT ![h] = Decodes(FindHandler(f), f)]

\* Mutant: a reconnect always gets a handler of its own.
IdentifyKnownAfresh(c, m, f) ==
  /\ Known(m)
  /\ AttachKnown(m, devices[m])
  /\ sessRecord' = [sessRecord EXCEPT ![c] = devices[m]]
  /\ \E h \in Hnd : NewHandler(c, devices[m], h, f)

\* The first frame f of connection c, sent by device m, on a record the hub
\* knows: attach, choose the handler, and let it decode the frame.
IdentifyKnown(c, m, f) ==
  LET r == devices[m]
  IN  /\ Known(m)
      /\ AttachKnown(m, r)
      /\ sessRecord' = [sessRecord EXCEPT ![c] = r]
      /\ \/ ReuseHandler(c, r, f)
         \/ /\ recHandler[r] = None \/ kind[recHandler[r]] # FindHandler(f)
            /\ \E h \in Hnd : NewHandler(c, r, h, f)

\* The same on a device the hub does not know: its record has no handler yet.
IdentifyNew(c, m, f) ==
  \E r \in Rec, h \in Hnd :
    /\ AttachNew(m, r)
    /\ sessRecord' = [sessRecord EXCEPT ![c] = r]
    /\ NewHandler(c, r, h, f)

Identify(c, m, f) == IdentifyKnown(c, m, f) \/ IdentifyNew(c, m, f)

\* A later frame goes to the session's own handler, which need not be the
\* record's any more.
Observe(c, f) ==
  /\ decoded' = [decoded EXCEPT ![sessHandler[c]] = @ \cup Decodes(kind[sessHandler[c]], f)]
  /\ UNCHANGED hubVars
  /\ UNCHANGED <<sessRecord, sessHandler, recHandler, kind, target>>

\* The session object of connection c ends: what refers to it is left with a
\* closed writer.
DropSession(c) ==
  /\ sessRecord' = [sessRecord EXCEPT ![c] = None]
  /\ sessHandler' = [sessHandler EXCEPT ![c] = None]
  /\ target' = [h \in Hnd |-> IF target[h] = c THEN None ELSE target[h]]
  /\ UNCHANGED <<recHandler, kind, decoded>>

\* A session that was identified ends: Hub.detach with its address.
CloseSession(c) ==
  /\ Identified(c)
  /\ Detach(macOf[sessRecord[c]])
  /\ DropSession(c)

-----------------------------------------------------------------------------

\* The session counter never drifts (hub.py:39-41, Hub.attach and detach):
\* whatever the order in which overlapping connections are identified, close
\* and come back, the counter of a known device is the number of connections
\* that carry it.
SessionsCounted ==
  \A m \in Mac :
    Known(m) => sessions[devices[m]] = Cardinality(CarriedBy(devices[m]))

\* The counter of a known device is never too small, whatever becomes of its
\* connections and even when a proxied one ends without a detach (hub.py:179-203,
\* proxy.py:166, 198-203): a device is not reported gone over the head of a
\* connection that carries it.
NeverUndercounted ==
  \A m \in Mac :
    Known(m) => sessions[devices[m]] >= Cardinality(CarriedBy(devices[m]))

\* No session works on a record the hub has dropped or replaced: Hub.detach
\* (hub.py:198) and _expire (hub.py:214) find records by address, and what they
\* find for a session's address is the session's own record.
ConnectedIsKnown ==
  \A c \in Conn :
    Identified(c) => /\ macOf[sessRecord[c]] \in Mac
                     /\ devices[macOf[sessRecord[c]]] = sessRecord[c]

\* Overlapping connections of a device whose frames one handler class claims
\* share the record's handler (server.py:65-69), so that they add to one
\* decoded state, the one the hub shows.
OneHandlerPerDevice ==
  \A c \in Conn : Identified(c) => sessHandler[c] = recHandler[sessRecord[c]]

\* Commands stay with their device: the connection the handler of a device's
\* record writes to (server.py:69, base.py:104-110) never carries another
\* device, whichever handlers were taken over or replaced before.
CommandsStayHome ==
  \A m \in Mac :
    Known(m) /\ recHandler[devices[m]] # None
      => LET c == target[recHandler[devices[m]]]
         IN  c = None \/ sessRecord[c] = devices[m]

\* A step takes nothing from what the handler of a record has decoded, as long as
\* the hub keeps the record.
StateKept ==
  \A m \in Mac :
    LET r == devices[m]
    IN  Known(m) /\ devices'[m] = r /\ recHandler[r] # None
          => decoded[recHandler[r]] \subseteq decoded'[recHandler'[r]]

\* What a reconnect must not cost (server.py:65-72, proxy.py:97-104): as long as
\* the hub keeps a device's record, whatever the record's handler has decoded
\* stays there, also across connections that overlap, close and come back.
StateSurvives == [][StateKept]_<<hubVars, sessVars>>

\* What every handler leaves behind and needs of the others (hub.py:171-226,
\* server.py:57-82, proxy.py:90-113): the table, the counters, the sessions'
\* back references and the pending calls agree.  With the types it is inductive,
\* also where connections get lost without a detach.
Consistent ==
  /\ RecordsAreOwned
  /\ ConnectedIsKnown
  /\ NeverUndercounted
  /\ TimersOwned
  /\ GoneMatches
  /\ ExpiryArmed

\* And of the handlers (server.py:57-82, base.py:104-110): a session has a handler
\* exactly while it has a record; a handler writes to a session that has it; a
\* device's handler serves no session of another device, and is no other device's
\* handler.
HandlersOwned ==
  /\ \A c \in Conn : Identified(c) <=> sessHandler[c] # None
  /\ \A h \in Hnd : target[h] # None => sessHandler[target[h]] = h
  /\ \A m \in Mac : Known(m) => recHandler[devices[m]] # None
  /\ \A m, n \in Mac :
       Known(m) /\ Known(n) /\ recHandler[devices[m]] = recHandler[devices[n]] => m = n
  /\ \A m \in Mac, c \in Conn :
       Known(m) /\ Identified(c) /\ sessHandler[c] = recHandler[devices[m]]
         => sessRecord[c] = devices[m]

\* The firmware of a device speaks to one handler class: whichever of its frames
\* comes first, the same class claims it.
OneClassFor(m) == \A f, g \in Dialect[m] : FindHandler(f) = FindHandler(g)

OneClass == \A m \in Mac : OneClassFor(m)

\* ... and then the handler of the device's record is of the class that claims its
\* frames (registry.py:36-45, server.py:68), and a connection that comes in finds
\* it fit and shares it.
HandlersFit ==
  \A m \in Mac : Known(m) /\ OneClassFor(m) =>
    /\ \A f \in Dialect[m] : kind[recHandler[devices[m]]] = FindHandler(f)
    /\ \A c \in CarriedBy(devices[m]) : sessHandler[c] = recHandler[devices[m]]

\* With the types and Consistent this is inductive.
HandlersConsistent == HandlersOwned /\ HandlersFit

=============================================================================
