------------------------- MODULE LocalServer_proofs -------------------------
(***************************************************************************)
(* The safety of LocalServer for every set of devices, connections and     *)
(* frames: the server only takes steps that SessNext allows, so that the   *)
(* invariant and the refinement of Sessions_proofs carry over to it.       *)
(***************************************************************************)
EXTENDS LocalServer, Sessions_proofs

\* A step of the server is a step of its sessions, its timers or neither.
LEMMA StepIsSessionStep == IInv /\ [Next]_vars => [SessNext]_ssVars /\ open' \in SUBSET Conn
<1> SUFFICES ASSUME IInv, [Next]_vars
             PROVE  [SessNext]_ssVars /\ open' \in SUBSET Conn
  OBVIOUS
<1> USE DEF IInv, TypeOK
<1>1. ASSUME NEW c \in Conn, Accept(c) PROVE [SessNext]_ssVars /\ open' \in SUBSET Conn
  BY <1>1 DEF Accept, ssVars
<1>2. ASSUME NEW c \in Conn, NEW m \in Mac, NEW f \in Dialect[m], FirstFrame(c, m, f)
      PROVE  [SessNext]_ssVars /\ open' \in SUBSET Conn
  BY <1>2, DialectAssumption DEF FirstFrame, SessNext
<1>3. ASSUME NEW c \in Conn, Identified(c),
             NEW f \in Dialect[macOf[sessRecord[c]]], LaterFrame(c, f)
      PROVE  [SessNext]_ssVars /\ open' \in SUBSET Conn
  <2>1. macOf[sessRecord[c]] \in Mac
    BY <1>3 DEF Consistent, ConnectedIsKnown
  <2>2. QED
    BY <1>3, <2>1, DialectAssumption DEF LaterFrame, SessNext
<1>4. ASSUME NEW c \in Conn, CloseIdentified(c)
      PROVE  [SessNext]_ssVars /\ open' \in SUBSET Conn
  BY <1>4 DEF CloseIdentified, SessNext
<1>5. ASSUME NEW c \in Conn, CloseUnidentified(c)
      PROVE  [SessNext]_ssVars /\ open' \in SUBSET Conn
  BY <1>5 DEF CloseUnidentified, ssVars
<1>6. ASSUME NEW r \in Rec, ExpireTimer(r) PROVE [SessNext]_ssVars /\ open' \in SUBSET Conn
  BY <1>6 DEF ExpireTimer, SessNext
<1>7. ASSUME TimePasses PROVE [SessNext]_ssVars /\ open' \in SUBSET Conn
  BY <1>7 DEF TimePasses, SessNext
<1>8. ASSUME UNCHANGED vars PROVE [SessNext]_ssVars /\ open' \in SUBSET Conn
  BY <1>8 DEF vars, ssVars
<1>9. QED
  BY <1>1, <1>2, <1>3, <1>4, <1>5, <1>6, <1>7, <1>8 DEF Next

LEMMA InvStep == IInv /\ [Next]_vars => IInv'
  BY StepIsSessionStep, SessInvStep, CountedStep, HandlersStep
     DEF IInv, TypeOK, SessInv, HandlerInv, LossyNext

LEMMA InvInit == Init => IInv
  BY SessInvInit, HandlersInit DEF Init, IInv, TypeOK, SessInv

\* The inductive invariant holds in every reachable state of the server
\* (hub.py:171-226 and server.py:57-133), for any devices, connections, frames
\* and grace period.
THEOREM Invariance == Spec => []IInv
  BY InvInit, InvStep, PTL DEF Spec

\* Type correctness of the hub's and the sessions' state (hub.py, server.py).
THEOREM TypeCorrect == Spec => []TypeOK
<1>1. IInv => TypeOK
  BY DEF IInv
<1>2. QED
  BY <1>1, Invariance, PTL

\* The counter of every known device is the number of connections that carry
\* it (hub.py:39-41), for any number of overlapping connections.
THEOREM CountIsExact == Spec => []SessionsCounted
<1>1. IInv => SessionsCounted
  BY DEF IInv
<1>2. QED
  BY <1>1, Invariance, PTL

\* A live session's record is the one the hub knows (hub.py:198, 214).
THEOREM SessionsStayKnown == Spec => []ConnectedIsKnown
<1>1. IInv => ConnectedIsKnown
  BY DEF IInv, Consistent
<1>2. QED
  BY <1>1, Invariance, PTL

\* A device without a connection always has a call pending that is due exactly
\* when its grace period ends (hub.py:204-218).
THEOREM NeverForgotten == Spec => []ExpiryArmed
<1>1. IInv => ExpiryArmed
  BY DEF IInv, Consistent
<1>2. QED
  BY <1>1, Invariance, PTL

\* Commands stay with their device (server.py:69, base.py:104-110), for any number
\* of devices and connections, whatever classes claim their first frames.
THEOREM CommandsAreOwned == Spec => []CommandsStayHome
<1>1. IInv => CommandsStayHome
  BY OwnersStayHome DEF IInv, TypeOK, SessInv, HandlerInv
<1>2. QED
  BY <1>1, Invariance, PTL

\* Where one class claims all frames of a device, its overlapping connections
\* share the record's handler (server.py:65-69).
THEOREM HandlerIsShared ==
  ASSUME OneClass
  PROVE  Spec => []OneHandlerPerDevice
<1>1. IInv => OneHandlerPerDevice
  BY FitIsShared DEF IInv, TypeOK, SessInv, HandlerInv
<1>2. QED
  BY <1>1, Invariance, PTL

\* ... and no step loses what was decoded while the hub keeps the record, a
\* reconnect included (server.py:65-72).
THEOREM DecodedSurvives ==
  ASSUME OneClass
  PROVE  Spec => StateSurvives
<1>1. IInv /\ [Next]_vars => [StateKept]_<<hubVars, sessVars>>
  BY StepIsSessionStep, HandlersStep DEF IInv, TypeOK, SessInv, HandlerInv, LossyNext
<1>2. QED
  BY <1>1, Invariance, PTL DEF Spec, StateSurvives

\* The server implements the safety part of Availability (hub.py:179-226 as
\* server.py drives it): a device never goes from online to gone, whatever its
\* connections do, and only one whose last connection closed is reported.
THEOREM ImplementsAvailability == Spec => PromiseSafety
<1>1. Init => Promise!Init
  BY ShownInit DEF Init
<1>2. IInv /\ [Next]_vars => [Promise!Next]_shown
  BY StepIsSessionStep, ShownStep DEF IInv, TypeOK, SessInv, LossyNext
<1>3. QED
  BY <1>1, <1>2, Invariance, PTL DEF Spec, PromiseSafety, Promise!Safety

=============================================================================
