------------------------- MODULE ProxyServer_proofs -------------------------
(***************************************************************************)
(* The safety of ProxyServer for every set of devices, connections and     *)
(* frames: the invariant and the refinement of Sessions_proofs carry over  *)
(* to it, whatever its pumps raise.  A counter is too high by the          *)
(* connections whose pump failed: LossesAreAccounted, and the run of       *)
(* ProxyLeak.cfg.                                                          *)
(***************************************************************************)
EXTENDS ProxyServer, Sessions_proofs

\* A step of the proxy is a step of its sessions, its timers or neither; only
\* the end of a connection whose pump failed loses one.
LEMMA StepIsSessionStep ==
  IInv /\ [Next]_vars =>
    /\ ProxyTypeOK'
    /\ [LossyNext]_ssVars
    /\ \/ [SessNext]_ssVars /\ UNCHANGED lost
       \/ \E c \in Conn : FinishFailed(c)
<1> SUFFICES ASSUME IInv, [Next]_vars
             PROVE  /\ ProxyTypeOK'
                    /\ [LossyNext]_ssVars
                    /\ \/ [SessNext]_ssVars /\ UNCHANGED lost
                       \/ \E c \in Conn : FinishFailed(c)
  OBVIOUS
<1> DEFINE PumpsOK == ProxyTypeOK' /\ UNCHANGED lost
<1> USE DEF IInv, TypeOK, ProxyTypeOK
<1>1. ASSUME NEW c \in Conn, Accept(c) PROVE [SessNext]_ssVars /\ PumpsOK
  BY <1>1 DEF Accept, ssVars
<1>2. ASSUME NEW c \in Conn, CloudUnreachable(c) PROVE [SessNext]_ssVars /\ PumpsOK
  BY <1>2 DEF CloudUnreachable, ssVars
<1>3. ASSUME NEW c \in Conn, CloudReached(c) PROVE [SessNext]_ssVars /\ PumpsOK
  BY <1>3 DEF CloudReached, ssVars
<1>4. ASSUME NEW c \in Conn, NEW d \in Dir, PumpReads(c, d) PROVE [SessNext]_ssVars /\ PumpsOK
  BY <1>4 DEF PumpReads, ssVars
<1>5. ASSUME NEW c \in Conn, NEW d \in Dir, PumpObserves(c, d)
      PROVE  [SessNext]_ssVars /\ PumpsOK
  <2>1. PumpsOK
    BY <1>5 DEF PumpObserves
  <2>2. CASE d = "up" /\ ObserveUp(c)
    <3>1. CASE ~Identified(c)
      BY <2>1, <2>2, <3>1, DialectAssumption DEF ObserveUp, SessNext
    <3>2. CASE Identified(c)
      <4>1. macOf[sessRecord[c]] \in Mac
        BY <3>2 DEF Consistent, ConnectedIsKnown
      <4>2. QED
        BY <2>1, <2>2, <3>2, <4>1, DialectAssumption DEF ObserveUp, SessNext
    <3>3. QED
      BY <2>1, <3>1, <3>2
  <2>3. CASE d = "down" /\ ObserveDown(c)
    BY <2>1, <2>3, CloudFramesAssumption DEF ObserveDown, SessNext, ssVars
  <2>4. CASE UNCHANGED <<hubVars, sessVars>>
    BY <2>1, <2>4 DEF ssVars
  <2>5. QED
    BY <1>5, <2>1, <2>2, <2>3, <2>4 DEF PumpObserves
<1>6. ASSUME NEW c \in Conn, NEW d \in Dir, PumpEnds(c, d) PROVE [SessNext]_ssVars /\ PumpsOK
  <2>1. Dst(d) \in {"device", "cloud"}
    BY DEF Dst
  <2>2. QED
    BY <1>6, <2>1 DEF PumpEnds, ssVars
<1>7. ASSUME NEW c \in Conn, NEW d \in Dir, PumpFails(c, d)
      PROVE  [SessNext]_ssVars /\ PumpsOK
  <2>1. Dst(d) \in {"device", "cloud"}
    BY DEF Dst
  <2>2. QED
    BY <1>7, <2>1 DEF PumpFails, ssVars
<1>8. ASSUME NEW c \in Conn, Finish(c) PROVE [SessNext]_ssVars /\ PumpsOK
  BY <1>8 DEF Finish, Reset, SessNext, ssVars
<1>9. ASSUME NEW c \in Conn, FinishFailed(c) PROVE LossyNext /\ ProxyTypeOK'
  <2>1. LossyNext
    BY <1>9 DEF FinishFailed, LossyNext
  <2>2. Identified(c) => sessRecord[c] \in Rec
    BY DEF Identified, SessTypeOK
  <2>3. ProxyTypeOK'
    BY <1>9, <2>2 DEF FinishFailed, Reset
  <2>4. QED
    BY <2>1, <2>3
<1>10. ASSUME NEW r \in Rec, ExpireTimer(r) PROVE [SessNext]_ssVars /\ PumpsOK
  BY <1>10 DEF ExpireTimer, SessNext, proxyVars
<1>11. ASSUME TimePasses PROVE [SessNext]_ssVars /\ PumpsOK
  BY <1>11 DEF TimePasses, SessNext, proxyVars
<1>12. ASSUME UNCHANGED vars PROVE [SessNext]_ssVars /\ PumpsOK
  BY <1>12 DEF vars, ssVars, proxyVars
<1>13. ASSUME NEW c \in Conn, PeerStalls(c) PROVE [SessNext]_ssVars /\ PumpsOK
  BY <1>13 DEF PeerStalls, ssVars
<1>14. ASSUME NEW c \in Conn, PeerTakes(c) PROVE [SessNext]_ssVars /\ PumpsOK
  BY <1>14 DEF PeerTakes, ssVars
<1>15. QED
  BY <1>1, <1>2, <1>3, <1>4, <1>5, <1>6, <1>7, <1>8, <1>9, <1>10, <1>11, <1>12, <1>13, <1>14
     DEF Next, LossyNext

\* The table, the counters, the sessions and the timers of the proxy agree, for
\* any devices, connections and frames and whatever its pumps raise
\* (proxy.py:90-203, hub.py:171-226).
THEOREM ProxyInvariance == Spec => []IInv
<1>1. Init => IInv
  <2> SUFFICES ASSUME Init PROVE IInv
    OBVIOUS
  <2>1. HubTypeOK /\ SessTypeOK /\ Consistent /\ HandlersConsistent
    BY SessInvInit, HandlersInit DEF Init, SessInv
  <2>2. QED
    BY <2>1 DEF Init, IInv, TypeOK, ProxyTypeOK, Dir
<1>2. IInv /\ [Next]_vars => IInv'
  BY StepIsSessionStep, SessInvStep, HandlersStep DEF IInv, TypeOK, SessInv, HandlerInv
<1>3. QED
  BY <1>1, <1>2, PTL DEF Spec

\* No device is reported gone over the head of a proxied connection
\* (proxy.py:166, 198-203): a failed pump leaves a counter too high, never too low.
THEOREM ProxyNeverUndercounts == Spec => []NeverUndercounted
<1>1. IInv => NeverUndercounted
  BY DEF IInv, Consistent
<1>2. QED
  BY <1>1, ProxyInvariance, PTL

\* A record the hub does not have owes it nothing.
NothingOwed == \A r \in Rec : (\A m \in Mac : devices[m] # r) => lost[r] = 0

LostByExcess == \A m \in Mac : Known(m) => lost[devices[m]] = Excess(devices[m])

LEMMA ExcessIsLoss == HubTypeOK /\ ProxyTypeOK => (LossesAccounted <=> LostByExcess)
<1> SUFFICES ASSUME HubTypeOK, ProxyTypeOK, NEW m \in Mac, Known(m)
             PROVE  /\ sessions[devices[m]] \in Nat
                    /\ Cardinality(CarriedBy(devices[m])) \in Nat
                    /\ lost[devices[m]] \in Nat
  BY DEF LossesAccounted, LostByExcess, Excess
<1>1. QED
  BY CarriedByFinite DEF HubTypeOK, ProxyTypeOK, Known

\* A step without a loss: what a counter has too much stays, and a record that
\* leaves the table had nothing too much.
LEMMA LossesKept ==
  ASSUME IInv, IInv', LostByExcess, NothingOwed, [SessNext]_ssVars, UNCHANGED lost
  PROVE  LostByExcess' /\ NothingOwed'
<1> USE DEF IInv, TypeOK
<1>1. ExcessKept
  BY SessInvStep DEF SessInv
<1>2. LostByExcess'
  BY <1>1 DEF ExcessKept, CountKept, LostByExcess, NothingOwed, FreshRecord, HubTypeOK, Known
<1>3. NothingOwed'
  <2>1. SUFFICES ASSUME NEW r \in Rec, NEW m \in Mac, devices[m] = r,
                        \A n \in Mac : devices'[n] # r
                 PROVE  lost[r] = 0
    BY DEF NothingOwed
  <2>2. Known(m) /\ sessions[r] = 0
    BY <2>1, RemovedIsUncounted, NoneAssumption DEF Known, SessInv, LossyNext
  <2>3. /\ lost[r] \in Nat /\ Cardinality(CarriedBy(r)) \in Nat
        /\ lost[r] = sessions[r] - Cardinality(CarriedBy(r))
    BY <2>1, <2>2, CarriedByFinite DEF LostByExcess, Excess, ProxyTypeOK
  <2>4. QED
    BY <2>2, <2>3
<1>4. QED
  BY <1>2, <1>3

\* Every connection that is counted too much is one whose pump failed
\* (proxy.py:166, 198-203), for any number of overlapping connections.
THEOREM LossesAreAccounted == Spec => []LossesAccounted
<1> DEFINE J == LostByExcess /\ NothingOwed
<1>1. Init => J
  BY DEF Init, HubInit, LostByExcess, NothingOwed, Known
<1>2. IInv /\ IInv' /\ J /\ [Next]_vars => J'
  <2> SUFFICES ASSUME IInv, IInv', J, [Next]_vars PROVE J'
    OBVIOUS
  <2>1. CASE \E c \in Conn : FinishFailed(c)
    <3>1. PICK c \in Conn : FinishFailed(c)
      BY <2>1
    <3>2. /\ UNCHANGED hubVars
          /\ DropSession(c)
          /\ lost' = IF Identified(c) THEN [lost EXCEPT ![sessRecord[c]] = @ + 1] ELSE lost
      BY <3>1 DEF FinishFailed
    <3>3. \A m \in Mac : Known(m) =>
            Excess(devices[m])' = Excess(devices[m]) + (IF sessRecord[c] = devices[m] THEN 1 ELSE 0)
      BY <3>2, LossStep DEF IInv, TypeOK, SessInv
    <3>4. Identified(c) => \E m \in Mac : devices[m] = sessRecord[c]
      BY DEF IInv, Consistent, ConnectedIsKnown
    <3>5. LostByExcess'
      <4>1. SUFFICES ASSUME NEW m \in Mac, Known(m)
                     PROVE  lost'[devices[m]] = Excess(devices[m])'
        BY <3>2 DEF LostByExcess, Known, hubVars
      <4>2. devices[m] \in Rec /\ lost[devices[m]] = Excess(devices[m])
        BY <4>1 DEF LostByExcess, Known, IInv, TypeOK, HubTypeOK
      <4>3. lost'[devices[m]] = lost[devices[m]]
                                + (IF sessRecord[c] = devices[m] THEN 1 ELSE 0)
        BY <3>2, <4>2, NoneAssumption DEF Identified, IInv, TypeOK, ProxyTypeOK
      <4>4. QED
        BY <3>3, <4>1, <4>2, <4>3
    <3>6. NothingOwed'
      BY <3>2, <3>4 DEF NothingOwed, hubVars, IInv, TypeOK, ProxyTypeOK
    <3>7. QED
      BY <3>5, <3>6
  <2>2. CASE ~ \E c \in Conn : FinishFailed(c)
    <3>1. [SessNext]_ssVars /\ UNCHANGED lost
      BY <2>2, StepIsSessionStep
    <3>2. QED
      BY <3>1, LossesKept
  <2>3. QED
    BY <2>1, <2>2
<1>3. IInv /\ J => LossesAccounted
  BY ExcessIsLoss DEF IInv, TypeOK
<1> HIDE DEF J
<1>4. QED
  BY <1>1, <1>2, <1>3, ProxyInvariance, PTL DEF Spec

\* Commands stay with their device in the proxy as well (proxy.py:97-104,
\* base.py:104-110), whatever its pumps raise.
THEOREM ProxyCommandsAreOwned == Spec => []CommandsStayHome
<1>1. IInv => CommandsStayHome
  BY OwnersStayHome DEF IInv, TypeOK, SessInv, HandlerInv
<1>2. QED
  BY <1>1, ProxyInvariance, PTL

\* Where one class claims all frames of a device, what was decoded stays while the
\* hub keeps the record (proxy.py:90-113), whatever the cloud sends, and whenever:
\* its frames never choose a handler.
THEOREM ProxyDecodedSurvives ==
  ASSUME OneClass
  PROVE  Spec => StateSurvives
<1>1. IInv /\ [Next]_vars => [StateKept]_<<hubVars, sessVars>>
  BY StepIsSessionStep, HandlersStep DEF IInv, TypeOK, SessInv, HandlerInv, ssVars
<1>2. QED
  BY <1>1, ProxyInvariance, PTL DEF Spec, StateSurvives

\* The proxy implements the safety part of Availability, too, whatever its pumps
\* raise (proxy.py:90-203).
THEOREM ProxyImplementsAvailability == Spec => PromiseSafety
<1>1. Init => Promise!Init
  BY ShownInit DEF Init
<1>2. IInv /\ [Next]_vars => [Promise!Next]_shown
  BY StepIsSessionStep, ShownStep DEF IInv, TypeOK, SessInv
<1>3. QED
  BY <1>1, <1>2, ProxyInvariance, PTL DEF Spec, PromiseSafety, Promise!Safety

=============================================================================
