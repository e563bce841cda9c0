---------------------------- MODULE LocalServer ----------------------------
(***************************************************************************)
(* Local mode: the asyncio server answers the devices itself.  Every       *)
(* connection is a handle_connection task; the tasks, the hub's timers and *)
(* the dashboard interleave on one event loop, each handler running to its *)
(* next await undisturbed.                                                 *)
(***************************************************************************)
EXTENDS Sessions

VARIABLE open   \* the connections whose handle_connection runs

vars == <<hubVars, sessVars, open>>

TypeOK == HubTypeOK /\ SessTypeOK /\ open \in SUBSET Conn

Init == HubInit /\ SessInit /\ open = {}

-----------------------------------------------------------------------------

\* A device connects; the hub hears nothing until its first frame.
Accept(c) ==
  /\ c \notin open
  /\ open' = open \cup {c}
  /\ UNCHANGED <<hubVars, sessVars>>

\* Session.dispatch on the first frame of a connection.
FirstFrame(c, m, f) ==
  /\ c \in open
  /\ ~Identified(c)
  /\ Identify(c, m, f)
  /\ UNCHANGED open

\* Session.dispatch on a later frame: the mac of the first one stays.
LaterFrame(c, f) ==
  /\ c \in open
  /\ Identified(c)
  /\ Observe(c, f)
  /\ UNCHANGED open

\* The connection ends (end of stream, a reset, an exception of dispatch):
\* the finally clause detaches a session that was identified.
CloseIdentified(c) ==
  /\ c \in open
  /\ open' = open \ {c}
  /\ CloseSession(c)

CloseUnidentified(c) ==
  /\ c \in open
  /\ ~Identified(c)
  /\ open' = open \ {c}
  /\ UNCHANGED <<hubVars, sessVars>>

ExpireTimer(r) == Expire(r) /\ UNCHANGED <<sessVars, open>>

TimePasses == Tick /\ UNCHANGED <<sessVars, open>>

Next ==
  \/ \E c \in Conn : \/ Accept(c)
                     \/ \E m \in Mac : \E f \in Dialect[m] : FirstFrame(c, m, f)
                     \/ /\ Identified(c)
                        /\ \E f \in Dialect[macOf[sessRecord[c]]] : LaterFrame(c, f)
                     \/ CloseIdentified(c)
                     \/ CloseUnidentified(c)
  \/ \E r \in Rec : ExpireTimer(r)
  \/ TimePasses

Spec == Init /\ [][Next]_vars

\* Time goes on and the event loop runs every call whose delay ran out.  No
\* fairness is asked of the devices: they connect and close as they like.
Fairness == WF_vars(TimePasses) /\ \A r \in Rec : WF_vars(ExpireTimer(r))

FairSpec == Spec /\ Fairness

-----------------------------------------------------------------------------

\* The inductive invariant of the server (hub.py:171-226, server.py:57-133).
IInv == TypeOK /\ Consistent /\ HandlersConsistent /\ SessionsCounted

=============================================================================
