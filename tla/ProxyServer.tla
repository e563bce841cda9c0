----------------------------- MODULE ProxyServer -----------------------------
(***************************************************************************)
(* Proxy mode: the server sits between a device and the CATLINK cloud.     *)
(* Every connection is a handle_proxy_connection task that opens a second  *)
(* connection to the cloud and runs two pumps, one per direction; a pump   *)
(* forwards what it reads and then shows a copy to the session.  The pumps *)
(* of a connection, those of other connections and the hub's timers        *)
(* interleave at every await.                                              *)
(***************************************************************************)
EXTENDS Sessions

CONSTANTS
  CloudFrames,  \* the frames the cloud sends
  Raises,       \* what an await or an observation may raise in a pump
  MaxCount,     \* bound: no pump fails while a counter is above it
  MaxStalled    \* bound: connections that peers hold up at the same time

Dir == {"up", "down"}            \* device to cloud, cloud to device

\* The exceptions a pump catches, and any other: a time-out or an unreachable
\* host on a socket, a full disk under a capture file.
Exception == {"caught", "uncaught"}

ASSUME CloudFramesAssumption == CloudFrames \subseteq Frame
ASSUME RaisesAssumption == Raises \subseteq Exception
ASSUME MaxCountAssumption == MaxCount \in Nat
ASSUME MaxStalledAssumption == MaxStalled \in Nat

VARIABLES
  stage,   \* how far handle_proxy_connection has come
  pump,    \* what the two pumps of a connection do
  closed,  \* the transports of a connection that the proxy has closed
  stalled, \* connections whose end waits for a peer that takes no bytes
  lost     \* connections of a record that ended without a detach (history)

proxyVars == <<stage, pump, closed, stalled, lost>>

vars == <<hubVars, sessVars, proxyVars>>

ProxyTypeOK ==
  /\ stage \in [Conn -> {"idle", "connecting", "forwarding"}]
  /\ pump \in [Conn -> [Dir -> {"off", "reading", "draining", "ended", "failed"}]]
  /\ closed \in [Conn -> SUBSET {"device", "cloud"}]
  /\ stalled \subseteq Conn
  /\ lost \in [Rec -> Nat]

TypeOK == HubTypeOK /\ SessTypeOK /\ ProxyTypeOK

Init ==
  /\ HubInit
  /\ SessInit
  /\ stage = [c \in Conn |-> "idle"]
  /\ pump = [c \in Conn |-> [d \in Dir |-> "off"]]
  /\ closed = [c \in Conn |-> {}]
  /\ stalled = {}
  /\ lost = [r \in Rec |-> 0]

\* The transports a pump reads from and writes to.
Src(d) == IF d = "up" THEN "device" ELSE "cloud"
Dst(d) == IF d = "up" THEN "cloud" ELSE "device"

Running(c, d) == pump[c][d] \in {"reading", "draining"}

-----------------------------------------------------------------------------

\* A device connects: the task resolves the cloud's name and dials it, and
\* reads nothing of the device meanwhile.
Accept(c) ==
  /\ stage[c] = "idle"
  /\ stage' = [stage EXCEPT ![c] = "connecting"]
  /\ UNCHANGED <<hubVars, sessVars, pump, closed, stalled, lost>>

\* The name is not resolved, which raises, or the cloud is not reached: the task
\* is over before the device has a session.
CloudUnreachable(c) ==
  /\ stage[c] = "connecting"
  /\ stage' = [stage EXCEPT ![c] = "idle"]
  /\ UNCHANGED <<hubVars, sessVars, pump, closed, stalled, lost>>

CloudReached(c) ==
  /\ stage[c] = "connecting"
  /\ stage' = [stage EXCEPT ![c] = "forwarding"]
  /\ pump' = [pump EXCEPT ![c] = [d \in Dir |-> "reading"]]
  /\ UNCHANGED <<hubVars, sessVars, closed, stalled, lost>>

\* A chunk arrives and is written on: the pump waits for the other side.
PumpReads(c, d) ==
  /\ pump[c][d] = "reading"
  /\ pump' = [pump EXCEPT ![c][d] = "draining"]
  /\ stalled' = stalled \ {c}
  /\ UNCHANGED <<hubVars, sessVars, stage, closed, lost>>

\* ProxySession.observe on the frames of the chunk.  Only the device's own
\* frames identify a connection; the cloud's are dropped until then.
ObserveUp(c) ==
  \/ /\ ~Identified(c)
     /\ \E m \in Mac : \E f \in Dialect[m] : Identify(c, m, f)
  \/ /\ Identified(c)
     /\ \E f \in Dialect[macOf[sessRecord[c]]] : Observe(c, f)

\* Mutant: a frame of the cloud identifies the connection as well.
ObserveDownIdentifies(c) ==
  \/ /\ ~Identified(c)
     /\ \E m \in Mac, f \in CloudFrames : Identify(c, m, f)
  \/ /\ Identified(c)
     /\ \E f \in CloudFrames : Observe(c, f)

ObserveDown(c) ==
  \/ /\ ~Identified(c)
     /\ UNCHANGED <<hubVars, sessVars>>
  \/ /\ Identified(c)
     /\ \E f \in CloudFrames : Observe(c, f)

\* There was room for the chunk or the other side has made some; what the chunk
\* holds may be less than a frame.
PumpObserves(c, d) ==
  /\ pump[c][d] = "draining"
  /\ c \notin stalled
  /\ pump' = [pump EXCEPT ![c][d] = "reading"]
  /\ \/ d = "up" /\ ObserveUp(c)
     \/ d = "down" /\ ObserveDown(c)
     \/ UNCHANGED <<hubVars, sessVars>>
  /\ UNCHANGED <<stage, closed, stalled, lost>>

\* One pump has stopped, the other has not: the connection is coming down.
ComingDown(c) ==
  /\ \E d \in Dir : pump[c][d] \in {"ended", "failed"}
  /\ \E d \in Dir : Running(c, d)

\* The pump reads from a transport the proxy has closed.
AtClosedEnd(c, d) == pump[c][d] = "reading" /\ Src(d) \in closed[c]

\* A peer keeps its connection and takes no bytes.  With the buffer full the
\* drain of the pump that is left goes on, without a time-out; or the close of
\* the transport it reads waits for what is still in the buffer.
PeerStalls(c) ==
  /\ Cardinality(stalled) < MaxStalled
  /\ ComingDown(c)
  /\ \E d \in Dir : pump[c][d] = "draining" \/ AtClosedEnd(c, d)
  /\ stalled' = stalled \cup {c}
  /\ UNCHANGED <<hubVars, sessVars, stage, pump, closed, lost>>

PeerTakes(c) ==
  /\ c \in stalled
  /\ stalled' = stalled \ {c}
  /\ UNCHANGED <<hubVars, sessVars, stage, pump, closed, lost>>

\* Mutant: the pump that ends leaves the other side's transport open.
PumpEndsQuietly(c, d) ==
  /\ Running(c, d)
  /\ pump' = [pump EXCEPT ![c][d] = "ended"]
  /\ UNCHANGED <<hubVars, sessVars, stage, closed, stalled, lost>>

\* End of stream, or an exception the pump catches: the finally clause closes
\* the transport it writes to, which is what the other pump reads.
PumpEnds(c, d) ==
  /\ Running(c, d)
  /\ \/ pump[c][d] = "reading"          \* an empty chunk
     \/ "caught" \in Raises
  /\ pump' = [pump EXCEPT ![c][d] = "ended"]
  /\ closed' = [closed EXCEPT ![c] = @ \cup {Dst(d)}]
  /\ stalled' = stalled \ {c}
  /\ UNCHANGED <<hubVars, sessVars, stage, lost>>

\* Any other exception passes through the finally clause and out of gather,
\* which ends handle_proxy_connection; the other pump goes on by itself.
PumpFails(c, d) ==
  /\ Running(c, d)
  /\ "uncaught" \in Raises
  /\ \A r \in Rec : sessions[r] <= MaxCount
  /\ pump' = [pump EXCEPT ![c][d] = "failed"]
  /\ closed' = [closed EXCEPT ![c] = @ \cup {Dst(d)}]
  /\ stalled' = stalled \ {c}
  /\ UNCHANGED <<hubVars, sessVars, stage, lost>>

\* The connection is over: its slot is free for another.
Reset(c) ==
  /\ stage' = [stage EXCEPT ![c] = "idle"]
  /\ pump' = [pump EXCEPT ![c] = [d \in Dir |-> "off"]]
  /\ closed' = [closed EXCEPT ![c] = {}]
  /\ stalled' = stalled \ {c}

\* Mutant: the task returns without a word to the hub.
FinishSilently(c) ==
  /\ stage[c] = "forwarding"
  /\ \A d \in Dir : pump[c][d] = "ended"
  /\ Reset(c)
  /\ DropSession(c)
  /\ UNCHANGED <<hubVars, lost>>

\* Both pumps ended: gather returns and the session is detached.
Finish(c) ==
  /\ stage[c] = "forwarding"
  /\ \A d \in Dir : pump[c][d] = "ended"
  /\ Reset(c)
  /\ \/ CloseSession(c)
     \/ ~Identified(c) /\ UNCHANGED <<hubVars, sessVars>>
  /\ UNCHANGED lost

\* Both pumps stopped and one of them failed: nothing is left of the connection
\* and nobody detached it.
FinishFailed(c) ==
  /\ stage[c] = "forwarding"
  /\ \A d \in Dir : pump[c][d] \in {"ended", "failed"}
  /\ \E d \in Dir : pump[c][d] = "failed"
  /\ Reset(c)
  /\ DropSession(c)
  /\ lost' = IF Identified(c) THEN [lost EXCEPT ![sessRecord[c]] = @ + 1] ELSE lost
  /\ UNCHANGED hubVars

ExpireTimer(r) == Expire(r) /\ UNCHANGED <<sessVars, proxyVars>>

TimePasses == Tick /\ UNCHANGED <<sessVars, proxyVars>>

Next ==
  \/ \E c \in Conn : \/ Accept(c)
                     \/ CloudUnreachable(c)
                     \/ CloudReached(c)
                     \/ \E d \in Dir : \/ PumpReads(c, d)
                                       \/ PumpObserves(c, d)
                                       \/ PumpEnds(c, d)
                                       \/ PumpFails(c, d)
                     \/ PeerStalls(c)
                     \/ PeerTakes(c)
                     \/ Finish(c)
                     \/ FinishFailed(c)
  \/ \E r \in Rec : ExpireTimer(r)
  \/ TimePasses

Spec == Init /\ [][Next]_vars

\* The event loop runs the calls that are due and resumes a task whose await is
\* over.  Once a connection is coming down these are: a drain for which there is
\* room, and a read from a transport the proxy has closed, whose end comes when
\* the peer has taken what the close waits for and the bytes read before are used
\* up.  No fairness is asked of the device or the cloud: they may keep a
\* connection, and what holds it up is a peer that takes nothing for ever.
Fairness ==
  /\ WF_vars(TimePasses)
  /\ \A r \in Rec : WF_vars(ExpireTimer(r))
  /\ \A c \in Conn :
       /\ WF_vars(Finish(c) \/ FinishFailed(c))
       /\ \A d \in Dir :
            /\ WF_vars(ComingDown(c) /\ PumpObserves(c, d))
            /\ SF_vars(c \notin stalled /\ AtClosedEnd(c, d) /\ PumpEnds(c, d))

FairSpec == Spec /\ Fairness

-----------------------------------------------------------------------------

\* The inductive invariant of the proxy, whatever its pumps raise
\* (hub.py:171-226, proxy.py:90-210).
IInv == TypeOK /\ Consistent /\ HandlersConsistent

\* Every connection that the hub counts too much is one whose pump failed
\* (proxy.py:166, 198-203): whatever else becomes of a proxied connection, its
\* detach is made once, on its own record.
LossesAccounted ==
  \A m \in Mac :
    Known(m) => sessions[devices[m]] = Cardinality(CarriedBy(devices[m])) + lost[devices[m]]

\* Neither side is left talking to nobody (proxy.py:152-203): once one of them has
\* hung up or its pump has failed, the connection is torn down on the other side
\* too, and nothing works on its session any more.  Only a peer that keeps its
\* connection and takes nothing, for ever or again and again, can hold this up:
\* no drain and no close has a time-out.
HangUpPropagates ==
  \A c \in Conn :
    (\E d \in Dir : pump[c][d] \in {"ended", "failed"})
      ~> (stage[c] = "idle" /\ ~Identified(c)) \/ c \in stalled

=============================================================================
