--------------------------- MODULE Sessions_proofs ---------------------------
(***************************************************************************)
(* What holds of sessions on the hub whoever drives them, the local server *)
(* or the proxy: SessNext lets any connection be identified, decode and    *)
(* close, and any delay run out, at any time.  Its steps keep SessInv and  *)
(* map to steps of Availability; the servers only have to be shown to take *)
(* no other steps.                                                         *)
(***************************************************************************)
EXTENDS Sessions, FiniteSetTheorems, TLAPS

ssVars == <<hubVars, sessVars>>

SessNext ==
  \/ \E c \in Conn : \/ /\ ~Identified(c)
                        /\ \E m \in Mac : \E f \in Dialect[m] : Identify(c, m, f)
                     \/ /\ Identified(c)
                        /\ \E f \in Frame : Observe(c, f)
                     \/ CloseSession(c)
  \/ \E r \in Rec : Expire(r) /\ UNCHANGED sessVars
  \/ Tick /\ UNCHANGED sessVars

\* Connections that are lost without a detach, as well.
LossyNext == SessNext \/ \E c \in Conn : DropSession(c) /\ UNCHANGED hubVars

SessInv == HubTypeOK /\ SessTypeOK /\ Consistent

-----------------------------------------------------------------------------

\* Every frame finds a handler: the generic one claims what is left.
LEMMA EveryFrameIsClaimed == \A f \in Frame : FindHandler(f) \in Class
  BY DEF FindHandler, Class

\* A handler decodes into the keys of its own state only.
LEMMA DecodesFacets == \A k, f : Decodes(k, f) \subseteq Facet
  BY DEF Decodes, FeederDecodes, LitterBoxDecodes, Facet

-----------------------------------------------------------------------------
(* Type correctness, one lemma per part of a handler. *)

LEMMA ReuseType ==
  ASSUME SessTypeOK, NEW c \in Conn, NEW r \in Rec, NEW f \in Frame,
         ReuseHandler(c, r, f)
  PROVE  /\ sessHandler' \in [Conn -> Hnd \cup {None}]
         /\ recHandler' \in [Rec -> Hnd \cup {None}]
         /\ kind' \in [Hnd -> Class \cup {None}]
         /\ target' \in [Hnd -> Conn \cup {None}]
         /\ decoded' \in [Hnd -> SUBSET Facet]
<1> DEFINE k == FindHandler(f)
<1>1. k \in Class
  BY EveryFrameIsClaimed
<1>2. Decodes(k, f) \subseteq Facet
  BY DecodesFacets
<1>3. recHandler[r] \in Hnd
  BY DEF SessTypeOK, ReuseHandler
<1> HIDE DEF k
<1>4. QED
  BY <1>1, <1>2, <1>3 DEF SessTypeOK, ReuseHandler, k

LEMMA NewHandlerType ==
  ASSUME SessTypeOK, NEW c \in Conn, NEW r \in Rec, NEW h \in Hnd, NEW f \in Frame,
         NewHandler(c, r, h, f)
  PROVE  /\ sessHandler' \in [Conn -> Hnd \cup {None}]
         /\ recHandler' \in [Rec -> Hnd \cup {None}]
         /\ kind' \in [Hnd -> Class \cup {None}]
         /\ target' \in [Hnd -> Conn \cup {None}]
         /\ decoded' \in [Hnd -> SUBSET Facet]
<1>1. FindHandler(f) \in Class
  BY EveryFrameIsClaimed
<1>2. Decodes(FindHandler(f), f) \subseteq Facet
  BY DecodesFacets
<1>3. QED
  BY <1>1, <1>2 DEF SessTypeOK, NewHandler

LEMMA AttachKnownType ==
  ASSUME HubTypeOK, NEW m \in Mac, NEW r \in Rec, AttachKnown(m, r)
  PROVE  HubTypeOK'
  BY DEF HubTypeOK, AttachKnown

LEMMA AttachNewType ==
  ASSUME HubTypeOK, NEW m \in Mac, NEW r \in Rec, AttachNew(m, r)
  PROVE  HubTypeOK'
  BY DEF HubTypeOK, AttachNew

LEMMA DetachType ==
  ASSUME HubTypeOK, NEW m \in Mac, Detach(m)
  PROVE  HubTypeOK'
<1>1. CASE DetachUnknown(m)
  BY <1>1 DEF HubTypeOK, DetachUnknown, hubVars
<1>2. CASE OtherClose(m)
  BY <1>2 DEF HubTypeOK, OtherClose, Known
<1>3. CASE LastClose(m, timers[devices[m]] \cup {Grace})
  BY <1>3, GraceAssumption DEF HubTypeOK, LastClose, Known
<1>4. QED
  BY <1>1, <1>2, <1>3 DEF Detach

LEMMA ExpireType ==
  ASSUME HubTypeOK, NEW r \in Rec, Expire(r)
  PROVE  HubTypeOK'
  BY DEF HubTypeOK, Expire

LEMMA TickType ==
  ASSUME HubTypeOK, Tick
  PROVE  HubTypeOK'
<1>1. timers' \in [Rec -> SUBSET (0..Grace)]
  <2>1. \A r \in Rec : {k - 1 : k \in timers[r]} \subseteq 0..Grace
    BY GraceAssumption DEF HubTypeOK, Tick
  <2>2. QED
    BY <2>1 DEF Tick
<1>2. goneFor' \in [Rec -> 0..Grace \cup {None}]
  BY GraceAssumption DEF HubTypeOK, Tick
<1>3. QED
  BY <1>1, <1>2 DEF HubTypeOK, Tick

LEMMA IdentifyType ==
  ASSUME HubTypeOK, SessTypeOK, NEW c \in Conn, NEW m \in Mac, NEW f \in Frame,
         Identify(c, m, f)
  PROVE  HubTypeOK' /\ SessTypeOK'
<1>1. CASE IdentifyKnown(c, m, f)
  <2> DEFINE r == devices[m]
  <2>1. r \in Rec
    BY <1>1 DEF IdentifyKnown, Known, HubTypeOK
  <2>2. HubTypeOK'
    BY <1>1, <2>1, AttachKnownType DEF IdentifyKnown
  <2>3. sessRecord' \in [Conn -> Rec \cup {None}]
    BY <1>1, <2>1 DEF IdentifyKnown, SessTypeOK
  <2>4. CASE ReuseHandler(c, r, f)
    BY <2>1, <2>2, <2>3, <2>4, ReuseType DEF SessTypeOK
  <2>5. CASE \E h \in Hnd : NewHandler(c, r, h, f)
    BY <2>1, <2>2, <2>3, <2>5, NewHandlerType DEF SessTypeOK
  <2>6. QED
    BY <1>1, <2>4, <2>5 DEF IdentifyKnown
<1>2. CASE IdentifyNew(c, m, f)
  <2>1. PICK r \in Rec, h \in Hnd :
          /\ AttachNew(m, r)
          /\ sessRecord' = [sessRecord EXCEPT ![c] = r]
          /\ NewHandler(c, r, h, f)
    BY <1>2 DEF IdentifyNew
  <2>2. HubTypeOK'
    BY <2>1, AttachNewType
  <2>3. sessRecord' \in [Conn -> Rec \cup {None}]
    BY <2>1 DEF SessTypeOK
  <2>4. QED
    BY <2>1, <2>2, <2>3, NewHandlerType DEF SessTypeOK
<1>3. QED
  BY <1>1, <1>2 DEF Identify

-----------------------------------------------------------------------------
(* The inductive invariant, one lemma per handler that disturbs it. *)

\* The connections of a record can be counted.
LEMMA CarriedByFinite ==
  \A r : /\ IsFiniteSet(CarriedBy(r))
         /\ Cardinality(CarriedBy(r)) \in Nat
         /\ Cardinality(CarriedBy(r)) = 0 <=> CarriedBy(r) = {}
<1>1. \A r : IsFiniteSet(CarriedBy(r))
  BY ConnFinite, FS_Subset DEF CarriedBy
<1>2. QED
  BY <1>1, FS_CardinalityType, FS_EmptySet

\* What a counter has beyond the connections that carry the record.  A step keeps
\* it for a record that stays in the table, and a new record starts with none.
Excess(r) == sessions[r] - Cardinality(CarriedBy(r))

CountKept(m) ==
  \/ /\ Known(m)
     /\ devices'[m] = devices[m]
     /\ Excess(devices[m])' = Excess(devices[m])
  \/ /\ FreshRecord(devices'[m])
     /\ Excess(devices[m])' = 0

ExcessKept == \A m \in Mac : Known(m)' => CountKept(m)

\* Counters that are never too small, or exact, are so because of their excess ...
LEMMA CountsByExcess ==
  ASSUME HubTypeOK
  PROVE  /\ NeverUndercounted <=> \A m \in Mac : Known(m) => Excess(devices[m]) >= 0
         /\ SessionsCounted <=> \A m \in Mac : Known(m) => Excess(devices[m]) = 0
<1>1. ASSUME NEW m \in Mac, Known(m)
      PROVE  sessions[devices[m]] \in Nat /\ Cardinality(CarriedBy(devices[m])) \in Nat
  BY <1>1, CarriedByFinite DEF HubTypeOK, Known
<1>2. QED
  BY <1>1 DEF NeverUndercounted, SessionsCounted, Excess

\* ... so that a step that keeps it keeps them ...
LEMMA CountsKept ==
  ASSUME HubTypeOK, HubTypeOK', ExcessKept
  PROVE  /\ NeverUndercounted => NeverUndercounted'
         /\ SessionsCounted => SessionsCounted'
<1>1. /\ NeverUndercounted' <=> (\A m \in Mac : Known(m) => Excess(devices[m]) >= 0)'
      /\ SessionsCounted' <=> (\A m \in Mac : Known(m) => Excess(devices[m]) = 0)'
  BY CarriedByFinite, CountsByExcess, PTL
<1>2. QED
  BY <1>1, CountsByExcess DEF ExcessKept, CountKept

\* ... as does one that has nothing to do with the device's record.
LEMMA OtherCountKept ==
  ASSUME NEW m \in Mac, Known(m),
         devices'[m] = devices[m], sessions'[devices[m]] = sessions[devices[m]],
         \A c \in Conn : sessRecord'[c] = devices[m] <=> sessRecord[c] = devices[m]
  PROVE  CountKept(m)
<1>1. CarriedBy(devices[m])' = CarriedBy(devices[m])
  BY DEF CarriedBy
<1>2. QED
  BY <1>1 DEF CountKept, Excess

\* The first frame of a connection on a record the hub knows.
LEMMA IdentifyKnownStep ==
  ASSUME SessInv, HubTypeOK', NEW c \in Conn, NEW m \in Mac, NEW f,
         ~Identified(c), IdentifyKnown(c, m, f)
  PROVE  Consistent' /\ ExcessKept
<1> DEFINE r == devices[m]
<1> USE DEF SessInv, Consistent, HubTypeOK, SessTypeOK
<1>1. /\ Known(m)
      /\ r \in Rec
      /\ macOf[r] = m
  BY DEF IdentifyKnown, Known, RecordsAreOwned
<1>2. /\ UNCHANGED <<devices, macOf, timers>>
      /\ sessions' = [sessions EXCEPT ![r] = @ + 1]
      /\ goneFor' = [goneFor EXCEPT ![r] = None]
      /\ sessRecord' = [sessRecord EXCEPT ![c] = r]
  BY DEF IdentifyKnown, AttachKnown
<1>3. \A n \in Mac \ {m} : Known(n) => devices[n] # r
  BY <1>1 DEF RecordsAreOwned
<1>4. RecordsAreOwned' /\ TimersOwned'
  BY <1>2 DEF RecordsAreOwned, TimersOwned, Known
<1>5. ConnectedIsKnown'
  BY <1>1, <1>2 DEF ConnectedIsKnown, Identified
<1>6. NeverUndercounted' /\ ExcessKept
  <2>1. CarriedBy(r)' = CarriedBy(r) \cup {c} /\ c \notin CarriedBy(r)
    BY <1>1, <1>2, NoneAssumption DEF CarriedBy, Identified
  <2>2. Cardinality(CarriedBy(r)') = Cardinality(CarriedBy(r)) + 1
    <3> DEFINE Q == CarriedBy(r)
    <3>1. IsFiniteSet(Q)
      BY CarriedByFinite, Zenon
    <3> HIDE DEF Q
    <3>2. c \notin Q => Cardinality(Q \cup {c}) = Cardinality(Q) + 1
      BY <3>1, FS_AddElement
    <3>3. QED
      BY <2>1, <3>2, Zenon DEF Q
  <2>3. /\ sessions'[r] = sessions[r] + 1
        /\ sessions[r] \in Nat
        /\ Cardinality(CarriedBy(r)) \in Nat
    BY <1>1, <1>2, CarriedByFinite
  <2>4. CountKept(m)
    BY <1>1, <1>2, <2>2, <2>3 DEF CountKept, Excess
  <2>5. ASSUME NEW n \in Mac \ {m}, Known(n)'
        PROVE  CountKept(n)
    <3>1. /\ Known(n)
          /\ devices'[n] = devices[n]
          /\ sessions'[devices[n]] = sessions[devices[n]]
          /\ \A d \in Conn : sessRecord'[d] = devices[n] <=> sessRecord[d] = devices[n]
      BY <1>2, <1>3, <2>5 DEF Known, Identified
    <3>2. QED
      BY <3>1, OtherCountKept
  <2>6. ExcessKept
    BY <2>4, <2>5 DEF ExcessKept
  <2>7. QED
    BY <2>6, CountsKept
<1>7. GoneMatches' /\ ExpiryArmed'
  <2>1. sessions'[r] > 0 /\ goneFor'[r] = None
    BY <1>1, <1>2
  <2>2. ASSUME NEW n \in Mac \ {m}, Known(n)
        PROVE  /\ sessions'[devices[n]] = sessions[devices[n]]
               /\ goneFor'[devices[n]] = goneFor[devices[n]]
    BY <1>2, <1>3, <2>2 DEF Known
  <2>3. QED
    BY <1>1, <1>2, <2>1, <2>2 DEF GoneMatches, ExpiryArmed, Known, Online
<1>8. QED
  BY <1>4, <1>5, <1>6, <1>7

\* The first frame of a connection on a device the hub does not know.
LEMMA IdentifyNewStep ==
  ASSUME SessInv, HubTypeOK', NEW c \in Conn, NEW m \in Mac, NEW f,
         ~Identified(c), IdentifyNew(c, m, f)
  PROVE  Consistent' /\ ExcessKept
<1> USE DEF SessInv, Consistent, HubTypeOK, SessTypeOK
<1>1. PICK r \in Rec : AttachNew(m, r) /\ sessRecord' = [sessRecord EXCEPT ![c] = r]
  BY DEF IdentifyNew
<1>2. /\ devices' = [devices EXCEPT ![m] = r]
      /\ macOf' = [macOf EXCEPT ![r] = m]
      /\ sessions' = [sessions EXCEPT ![r] = 1]
      /\ goneFor' = [goneFor EXCEPT ![r] = None]
      /\ UNCHANGED timers
      /\ timers[r] = {}
      /\ \A n \in Mac : devices[n] # r
  BY <1>1 DEF AttachNew, FreshRecord
<1>3. CarriedBy(r) = {}
  BY <1>2, NoneAssumption DEF CarriedBy, ConnectedIsKnown, Identified
<1>4. RecordsAreOwned' /\ TimersOwned'
  BY <1>2 DEF RecordsAreOwned, TimersOwned, Known
<1>5. ConnectedIsKnown'
  <2>1. ASSUME NEW d \in Conn \ {c}, Identified(d)
        PROVE  sessRecord[d] \in Rec \ {r} /\ macOf[sessRecord[d]] # m
    <3>1. sessRecord[d] \in Rec \ {r}
      BY <1>3, <2>1 DEF CarriedBy, Identified
    <3>2. macOf[sessRecord[d]] # m
      BY <1>1, <2>1, NoneAssumption DEF ConnectedIsKnown, AttachNew, Known, Identified
    <3>3. QED
      BY <3>1, <3>2
  <2>2. QED
    BY <1>1, <1>2, <2>1 DEF ConnectedIsKnown, Identified
<1>6. NeverUndercounted' /\ ExcessKept
  <2>1. CarriedBy(r)' = {c}
    BY <1>1, <1>3 DEF CarriedBy
  <2>2. Cardinality(CarriedBy(r)') = 1
    BY <2>1, FS_Singleton
  <2>3. CountKept(m)
    BY <1>1, <1>2, <2>2 DEF CountKept, Excess, AttachNew
  <2>4. ASSUME NEW n \in Mac \ {m}, Known(n)'
        PROVE  CountKept(n)
    <3>1. /\ Known(n)
          /\ devices'[n] = devices[n]
          /\ sessions'[devices[n]] = sessions[devices[n]]
          /\ \A d \in Conn : sessRecord'[d] = devices[n] <=> sessRecord[d] = devices[n]
      BY <1>1, <1>2, <2>4 DEF Known, Identified
    <3>2. QED
      BY <3>1, OtherCountKept
  <2>5. ExcessKept
    BY <2>3, <2>4 DEF ExcessKept
  <2>6. QED
    BY <2>5, CountsKept
<1>7. GoneMatches' /\ ExpiryArmed'
  <2>1. ASSUME NEW n \in Mac \ {m}, Known(n)
        PROVE  /\ sessions'[devices[n]] = sessions[devices[n]]
               /\ goneFor'[devices[n]] = goneFor[devices[n]]
    BY <1>2, <2>1 DEF Known
  <2>2. QED
    BY <1>2, <2>1 DEF GoneMatches, ExpiryArmed, Known, Online
<1>8. QED
  BY <1>4, <1>5, <1>6, <1>7

\* A connection that was identified ends.
LEMMA CloseStep ==
  ASSUME SessInv, HubTypeOK', NEW c \in Conn, CloseSession(c)
  PROVE  Consistent' /\ ExcessKept
<1> USE DEF SessInv, Consistent, HubTypeOK, SessTypeOK
<1>1. PICK r \in Rec, m \in Mac :
        /\ sessRecord[c] = r
        /\ macOf[r] = m
        /\ devices[m] = r
        /\ Known(m)
  BY NoneAssumption DEF CloseSession, ConnectedIsKnown, Identified, Known
<1>2. /\ UNCHANGED <<devices, macOf>>
      /\ sessRecord' = [sessRecord EXCEPT ![c] = None]
  BY <1>1 DEF CloseSession, Detach, DetachUnknown, OtherClose, LastClose, DropSession
<1>3. /\ CarriedBy(r)' = CarriedBy(r) \ {c}
      /\ c \in CarriedBy(r)
  BY <1>1, <1>2, NoneAssumption DEF CarriedBy
<1>4. Cardinality(CarriedBy(r)') = Cardinality(CarriedBy(r)) - 1
  <2> DEFINE Q == CarriedBy(r)
  <2>1. IsFiniteSet(Q)
    BY CarriedByFinite, Zenon
  <2> HIDE DEF Q
  <2>2. c \in Q => Cardinality(Q \ {c}) = Cardinality(Q) - 1
    BY <2>1, FS_RemoveElement
  <2>3. QED
    BY <1>3, <2>2, Zenon DEF Q
<1>5. /\ sessions[r] \in Nat /\ Cardinality(CarriedBy(r)) \in Nat
      /\ sessions[r] >= Cardinality(CarriedBy(r)) /\ Cardinality(CarriedBy(r)) > 0
      /\ sessions[r] > 0
  BY <1>1, <1>3, CarriedByFinite DEF NeverUndercounted
<1>6. ASSUME NEW n \in Mac \ {m}, Known(n)
      PROVE  devices[n] \in Rec /\ devices[n] # r
  BY <1>1, <1>6 DEF RecordsAreOwned, Known
<1>7. \A q \in Rec \ {r} : CarriedBy(q)' = CarriedBy(q)
  BY <1>1, <1>2, NoneAssumption DEF CarriedBy
<1>8. /\ sessions' = [sessions EXCEPT ![r] = @ - 1]
      /\ \A q \in Rec \ {r} : goneFor'[q] = goneFor[q] /\ timers'[q] = timers[q]
      /\ sessions[r] > 1 => goneFor'[r] = goneFor[r] /\ timers'[r] = timers[r]
      /\ sessions[r] = 1 => goneFor'[r] = 0 /\ Grace \in timers'[r]
  <2>1. CASE OtherClose(m)
    BY <1>1, <1>5, <2>1 DEF OtherClose
  <2>2. CASE LastClose(m, timers[devices[m]] \cup {Grace})
    <3>1. sessions[r] <= 1
      BY <1>1, <2>2, Zenon DEF LastClose
    <3>2. sessions[r] = 1
      BY <1>5, <3>1
    <3>3. /\ sessions' = [sessions EXCEPT ![r] = 0]
          /\ goneFor' = [goneFor EXCEPT ![r] = 0]
          /\ timers' = [timers EXCEPT ![r] = timers[r] \cup {Grace}]
      BY <1>1, <2>2 DEF LastClose
    <3>4. QED
      BY <3>2, <3>3
  <2>3. QED
    BY <1>1, <2>1, <2>2 DEF CloseSession, Detach, DetachUnknown
<1>9. RecordsAreOwned' /\ TimersOwned'
  BY <1>1, <1>2, <1>8 DEF RecordsAreOwned, TimersOwned, Known
<1>10. ConnectedIsKnown'
  BY <1>2 DEF ConnectedIsKnown, Identified
<1>11. NeverUndercounted' /\ ExcessKept
  <2>1. sessions'[r] = sessions[r] - 1
    BY <1>1, <1>8
  <2>2. CountKept(m)
    BY <1>1, <1>2, <1>4, <1>5, <2>1 DEF CountKept, Excess
  <2>3. ASSUME NEW n \in Mac \ {m}, Known(n)'
        PROVE  CountKept(n)
    <3>1. Known(n) /\ devices'[n] = devices[n] /\ devices[n] \in Rec \ {r}
      BY <1>2, <1>6, <2>3 DEF Known
    <3>2. sessions'[devices[n]] = sessions[devices[n]]
      BY <1>8, <3>1
    <3>3. \A d \in Conn : sessRecord'[d] = devices[n] <=> sessRecord[d] = devices[n]
      BY <1>1, <1>2, <3>1, NoneAssumption
    <3>4. QED
      BY <3>1, <3>2, <3>3, OtherCountKept
  <2>4. ExcessKept
    BY <2>2, <2>3 DEF ExcessKept
  <2>5. QED
    BY <2>4, CountsKept
<1>12. GoneMatches' /\ ExpiryArmed'
  <2>1. /\ goneFor'[r] = None <=> sessions'[r] > 0
        /\ sessions'[r] = 0 => goneFor'[r] = 0 /\ Grace - 0 \in timers'[r]
    BY <1>1, <1>5, <1>8, NoneAssumption, GraceAssumption DEF GoneMatches
  <2>2. ASSUME NEW n \in Mac \ {m}, Known(n)
        PROVE  /\ goneFor'[devices[n]] = goneFor[devices[n]]
               /\ timers'[devices[n]] = timers[devices[n]]
               /\ sessions'[devices[n]] = sessions[devices[n]]
    BY <1>6, <1>8, <2>2
  <2>3. sessions'[r] \in Nat
    BY <1>1, <1>5, <1>8
  <2>4. GoneMatches'
    BY <1>1, <1>2, <2>1, <2>2 DEF GoneMatches, Known
  <2>5. ASSUME NEW n \in Mac, Known(n)', ~Online(n)'
        PROVE  /\ goneFor'[devices[n]] # None
               /\ (Grace - goneFor'[devices[n]]) \in timers'[devices[n]]
    <3>1. CASE n = m
      BY <1>1, <1>2, <2>1, <2>3, <2>5, <3>1, NoneAssumption DEF Online, Known
    <3>2. CASE n # m
      BY <1>2, <2>2, <2>5, <3>2 DEF ExpiryArmed, Online, Known
    <3>3. QED
      BY <3>1, <3>2
  <2>6. QED
    BY <1>2, <2>4, <2>5 DEF ExpiryArmed
<1>13. QED
  BY <1>9, <1>10, <1>11, <1>12

\* A delay runs out: only a record no connection carries is dropped.
LEMMA ExpireStep ==
  ASSUME SessInv, HubTypeOK', NEW r \in Rec, Expire(r), UNCHANGED sessRecord
  PROVE  Consistent' /\ ExcessKept
<1> USE DEF SessInv, Consistent, HubTypeOK, SessTypeOK
<1>0. PICK m \in Mac : macOf[r] = m
  BY DEF Expire, TimersOwned
<1>1. /\ timers' = [timers EXCEPT ![r] = @ \ {0}]
      /\ UNCHANGED <<macOf, sessions, goneFor>>
      /\ \A q \in Rec : timers'[q] \subseteq timers[q]
      /\ \A q \in Rec \ {r} : timers'[q] = timers[q]
  BY DEF Expire
<1>2. CASE Expirable(r)
  <2>1. /\ devices' = [devices EXCEPT ![m] = None]
        /\ devices[m] = r
        /\ sessions[r] = 0
    BY <1>0, <1>2 DEF Expire, Expirable
  <2>2. CarriedBy(r) = {}
    BY <1>1, <2>1, CarriedByFinite, NoneAssumption DEF NeverUndercounted, Known
  <2>3. RecordsAreOwned' /\ TimersOwned'
    BY <1>1, <2>1 DEF RecordsAreOwned, TimersOwned, Known
  <2>4. ConnectedIsKnown'
    BY <1>1, <2>1, <2>2 DEF ConnectedIsKnown, Identified, CarriedBy
  <2>5. ASSUME NEW n \in Mac, Known(n)'
        PROVE  Known(n) /\ devices'[n] = devices[n] /\ devices[n] # r
    BY <1>1, <2>1, <2>5 DEF Known, RecordsAreOwned
  <2>6. ExcessKept
    BY <1>1, <2>5, OtherCountKept DEF ExcessKept
  <2>7. ExpiryArmed' /\ GoneMatches'
    BY <1>1, <2>5 DEF ExpiryArmed, GoneMatches, Online, Known
  <2>8. QED
    BY <2>3, <2>4, <2>6, <2>7, CountsKept
<1>3. CASE ~Expirable(r)
  <2>1. UNCHANGED devices
    BY <1>3 DEF Expire
  <2>2. RecordsAreOwned' /\ TimersOwned' /\ ConnectedIsKnown' /\ GoneMatches'
    BY <1>1, <2>1 DEF RecordsAreOwned, TimersOwned, ConnectedIsKnown, GoneMatches,
                      Known, Identified
  <2>3. ExcessKept
    BY <1>1, <2>1, OtherCountKept DEF ExcessKept, Known
  <2>4. ASSUME NEW n \in Mac, Known(n), ~Online(n)
        PROVE  devices[n] \in Rec \ {r}
    <3>1. devices[n] \in Rec /\ macOf[devices[n]] = n
      BY <2>4 DEF RecordsAreOwned, Known
    <3>2. sessions[devices[n]] = 0 /\ goneFor[devices[n]] # None
      BY <2>4, <3>1 DEF GoneMatches, Online
    <3>3. QED
      BY <1>3, <3>1, <3>2 DEF Expirable
  <2>5. ExpiryArmed'
    BY <1>1, <2>1, <2>4 DEF ExpiryArmed, Online, Known
  <2>6. QED
    BY <2>2, <2>3, <2>5, CountsKept
<1>4. QED
  BY <1>2, <1>3

\* Time passes: what is left of a delay and the age of disconnected_at meet.
LEMMA TickStep ==
  ASSUME SessInv, HubTypeOK', Tick, UNCHANGED sessRecord
  PROVE  Consistent' /\ ExcessKept
<1> USE DEF SessInv, Consistent, HubTypeOK, SessTypeOK
<1>1. UNCHANGED <<devices, macOf, sessions>>
  BY DEF Tick
<1>2. RecordsAreOwned' /\ ConnectedIsKnown'
  BY <1>1 DEF RecordsAreOwned, ConnectedIsKnown, Known, Identified
<1>3. NeverUndercounted' /\ ExcessKept
  <2>1. ExcessKept
    BY <1>1, OtherCountKept DEF ExcessKept, Known
  <2>2. QED
    BY <2>1, CountsKept
<1>4. TimersOwned'
  BY <1>1 DEF TimersOwned, Tick
<1>5. GoneMatches'
  <2>1. \A q \in Rec : goneFor'[q] = None <=> goneFor[q] = None
    BY NoneAssumption, GraceAssumption DEF Tick
  <2>2. QED
    BY <1>1, <2>1 DEF GoneMatches, Known
<1>6. ExpiryArmed'
  <2>1. SUFFICES ASSUME NEW n \in Mac, Known(n), ~Online(n)
                 PROVE  /\ goneFor'[devices[n]] # None
                        /\ (Grace - goneFor'[devices[n]]) \in timers'[devices[n]]
    BY <1>1 DEF ExpiryArmed, Known, Online
  <2>2. devices[n] \in Rec
    BY <2>1 DEF Known
  <2>3. PICK g \in 0..Grace : goneFor[devices[n]] = g /\ (Grace - g) \in timers[devices[n]]
    BY <2>1, <2>2 DEF ExpiryArmed
  <2>4. g \in 0..(Grace - 1)
    BY <2>2, <2>3, GraceAssumption DEF Tick
  <2>5. goneFor'[devices[n]] = g + 1
    BY <2>2, <2>3, <2>4 DEF Tick
  <2>6. (Grace - g) - 1 \in timers'[devices[n]]
    BY <2>2, <2>3 DEF Tick
  <2>7. QED
    BY <2>4, <2>5, <2>6, NoneAssumption, GraceAssumption
<1>7. QED
  BY <1>2, <1>3, <1>4, <1>5, <1>6

\* The invariant of the hub and its sessions holds at the start ...
LEMMA SessInvInit == HubInit /\ SessInit => SessInv /\ SessionsCounted
<1> SUFFICES ASSUME HubInit, SessInit PROVE SessInv /\ SessionsCounted
  OBVIOUS
<1> USE DEF HubInit, SessInit
<1>1. HubTypeOK /\ SessTypeOK
  BY DEF HubTypeOK, SessTypeOK
<1>2. \A m \in Mac : ~Known(m)
  BY DEF Known
<1>3. \A c \in Conn : ~Identified(c)
  BY DEF Identified
<1>4. QED
  BY <1>1, <1>2, <1>3 DEF SessInv, Consistent, RecordsAreOwned, ConnectedIsKnown,
                          NeverUndercounted, SessionsCounted, TimersOwned, GoneMatches,
                          ExpiryArmed

\* A connection is lost without a detach: the counter of its record is too high by
\* one more than before, and no other is.
LEMMA LossStep ==
  ASSUME SessInv, NEW c \in Conn, DropSession(c), UNCHANGED hubVars
  PROVE  /\ SessInv'
         /\ \A m \in Mac : Known(m) =>
              Excess(devices[m])' = Excess(devices[m]) + (IF sessRecord[c] = devices[m] THEN 1 ELSE 0)
<1> USE DEF SessInv, Consistent, SessTypeOK
<1>1. sessRecord' = [sessRecord EXCEPT ![c] = None] /\ UNCHANGED hubVars
  BY DEF DropSession
<1>2. HubTypeOK' /\ SessTypeOK'
  BY <1>1 DEF DropSession, HubTypeOK, hubVars
<1>3. ConnectedIsKnown'
  BY <1>1 DEF ConnectedIsKnown, Identified, hubVars
<1>4. ASSUME NEW m \in Mac, Known(m)
      PROVE  Excess(devices[m])' = Excess(devices[m]) + (IF sessRecord[c] = devices[m] THEN 1 ELSE 0)
  <2>1. PICK r \in Rec : r = devices[m]
    BY <1>4 DEF HubTypeOK, Known
  <2>2. sessions[r] \in Nat /\ devices'[m] = r /\ sessions'[r] = sessions[r]
    BY <1>1, <2>1 DEF HubTypeOK, hubVars
  <2>3. Cardinality(CarriedBy(r)) \in Nat
    BY CarriedByFinite
  <2>4. CASE sessRecord[c] = r
    <3>1. CarriedBy(r)' = CarriedBy(r) \ {c} /\ c \in CarriedBy(r)
      BY <1>1, <2>1, <2>4, NoneAssumption DEF CarriedBy
    <3>2. Cardinality(CarriedBy(r)') = Cardinality(CarriedBy(r)) - 1
      BY <3>1, CarriedByFinite, FS_RemoveElement
    <3>3. QED
      BY <2>1, <2>2, <2>3, <2>4, <3>2 DEF Excess
  <2>5. CASE sessRecord[c] # r
    <3>1. CarriedBy(r)' = CarriedBy(r)
      BY <1>1, <2>1, <2>5, NoneAssumption DEF CarriedBy
    <3>2. QED
      BY <2>1, <2>2, <2>3, <2>5, <3>1 DEF Excess
  <2>6. QED
    BY <2>4, <2>5
<1>5. NeverUndercounted'
  <2>1. ASSUME NEW m \in Mac, Known(m)
        PROVE  Excess(devices[m])' >= 0 /\ Excess(devices[m]) >= 0
    <3>1. Excess(devices[m]) \in Int
      BY <2>1, CarriedByFinite DEF Excess, HubTypeOK, Known
    <3>2. QED
      BY <1>4, <2>1, <3>1, CountsByExcess
  <2>2. NeverUndercounted' <=> (\A m \in Mac : Known(m) => Excess(devices[m]) >= 0)'
    BY <1>2, CountsByExcess, PTL
  <2>3. QED
    BY <1>1, <2>1, <2>2 DEF Known, hubVars
<1>6. QED
  BY <1>1, <1>2, <1>3, <1>4, <1>5 DEF RecordsAreOwned, TimersOwned, GoneMatches, ExpiryArmed,
                               Known, Online, hubVars

\* ... and is kept by every step; one that loses no connection keeps the excess of
\* every counter as well.
LEMMA SessInvStep ==
  /\ SessInv /\ [LossyNext]_ssVars => SessInv'
  /\ SessInv /\ [SessNext]_ssVars => ExcessKept
<1> SUFFICES ASSUME SessInv, [LossyNext]_ssVars
             PROVE  SessInv' /\ ([SessNext]_ssVars => ExcessKept)
  BY DEF LossyNext
<1> USE DEF SessInv
<1> DEFINE Kept == SessInv' /\ ExcessKept
<1>1. ASSUME NEW c \in Conn, ~Identified(c), NEW m \in Mac, NEW f \in Dialect[m],
             Identify(c, m, f)
      PROVE  Kept
  <2>1. f \in Frame
    BY DialectAssumption
  <2>2. HubTypeOK' /\ SessTypeOK'
    BY <1>1, <2>1, IdentifyType
  <2>3. QED
    BY <1>1, <2>2, IdentifyKnownStep, IdentifyNewStep DEF Identify
<1>2. ASSUME UNCHANGED <<hubVars, sessRecord>>
      PROVE  HubTypeOK' /\ Consistent' /\ ExcessKept
  <2>1. HubTypeOK' /\ Consistent'
    BY <1>2 DEF Consistent, HubTypeOK, RecordsAreOwned, ConnectedIsKnown, NeverUndercounted,
                TimersOwned, GoneMatches, ExpiryArmed, Known, Online, Identified, CarriedBy,
                hubVars
  <2>2. ExcessKept
    BY <1>2, OtherCountKept DEF ExcessKept, Known, hubVars
  <2>3. QED
    BY <2>1, <2>2
<1>3. ASSUME NEW c \in Conn, NEW f \in Frame, Observe(c, f) PROVE Kept
  <2>1. SessTypeOK'
    BY <1>3, DecodesFacets DEF Observe, SessTypeOK
  <2>2. QED
    BY <1>2, <1>3, <2>1 DEF Observe
<1>4. ASSUME NEW c \in Conn, CloseSession(c) PROVE Kept
  <2>1. HubTypeOK'
    BY <1>4, DetachType DEF CloseSession, Consistent, ConnectedIsKnown
  <2>2. SessTypeOK'
    BY <1>4 DEF CloseSession, DropSession, SessTypeOK
  <2>3. QED
    BY <1>4, <2>1, <2>2, CloseStep
<1>5. ASSUME NEW r \in Rec, Expire(r), UNCHANGED sessVars PROVE Kept
  BY <1>5, ExpireType, ExpireStep DEF sessVars, SessTypeOK
<1>6. ASSUME Tick, UNCHANGED sessVars PROVE Kept
  BY <1>6, TickType, TickStep DEF sessVars, SessTypeOK
<1>7. ASSUME UNCHANGED ssVars PROVE Kept
  BY <1>2, <1>7 DEF ssVars, sessVars, SessTypeOK
<1>8. [SessNext]_ssVars => Kept
  BY <1>1, <1>3, <1>4, <1>5, <1>6, <1>7 DEF SessNext
<1>9. SessInv'
  BY <1>8, LossStep DEF LossyNext
<1>10. QED
  BY <1>8, <1>9

\* An exact counter stays exact.
LEMMA CountedStep == SessInv /\ SessionsCounted /\ [SessNext]_ssVars => SessionsCounted'
  BY SessInvStep, CountsKept DEF SessInv, LossyNext

\* A record leaves the table only while its counter is 0.
LEMMA RemovedIsUncounted ==
  ASSUME SessInv, [LossyNext]_ssVars, NEW m \in Mac, Known(m), devices'[m] # devices[m]
  PROVE  sessions[devices[m]] = 0
<1> USE DEF SessInv, HubTypeOK
<1>1. ASSUME NEW c \in Conn, NEW n \in Mac, NEW f \in Dialect[n], Identify(c, n, f)
      PROVE  devices'[m] = devices[m]
  <2>1. CASE IdentifyKnown(c, n, f)
    BY <2>1 DEF IdentifyKnown, AttachKnown
  <2>2. CASE IdentifyNew(c, n, f)
    BY <2>2 DEF IdentifyNew, AttachNew
  <2>3. QED
    BY <1>1, <2>1, <2>2 DEF Identify
<1>2. ASSUME NEW c \in Conn, CloseSession(c) PROVE devices'[m] = devices[m]
  BY <1>2 DEF CloseSession, Detach, DetachUnknown, OtherClose, LastClose, hubVars
<1>3. ASSUME NEW r \in Rec, Expire(r) PROVE sessions[devices[m]] = 0
  BY <1>3 DEF Expire, Expirable, Consistent, TimersOwned
<1>4. ASSUME Tick PROVE devices'[m] = devices[m]
  BY <1>4 DEF Tick
<1>5. ASSUME UNCHANGED hubVars PROVE devices'[m] = devices[m]
  BY <1>5 DEF hubVars
<1>6. QED
  BY <1>1, <1>2, <1>3, <1>4, <1>5 DEF SessNext, LossyNext, Observe, ssVars

-----------------------------------------------------------------------------
(* The handlers: who has which, and what a step leaves of their state. *)

HandlerInv == SessInv /\ HandlersConsistent

\* Nobody writes through a fresh handler, and no handler writes to a connection
\* that is not identified.
LEMMA FreshIsUnused ==
  ASSUME HandlerInv
  PROVE  /\ \A h \in Hnd : FreshHandler(h) => target[h] = None
         /\ \A c \in Conn, h \in Hnd : ~Identified(c) => target[h] # c
<1> USE DEF HandlerInv, SessInv, SessTypeOK, HandlersConsistent, HandlersOwned
<1>1. ASSUME NEW h \in Hnd, FreshHandler(h) PROVE target[h] = None
  BY <1>1, NoneIsNoHandler DEF FreshHandler
<1>2. ASSUME NEW c \in Conn, ~Identified(c), NEW h \in Hnd PROVE target[h] # c
  BY <1>2, NoneIsNoHandler
<1>3. QED
  BY <1>1, <1>2

\* The handler is taken over by a connection of the same device.
LEMMA ReuseStep ==
  ASSUME HandlerInv, NEW c \in Conn, NEW m \in Mac, NEW f \in Frame,
         ~Identified(c), IdentifyKnown(c, m, f), ReuseHandler(c, devices[m], f)
  PROVE  HandlersConsistent' /\ StateKept
<1> DEFINE r == devices[m]
           g == recHandler[r]
<1> USE DEF HandlerInv, SessInv, HubTypeOK, SessTypeOK, HandlersConsistent
<1>1. /\ r \in Rec /\ Known(m)
      /\ UNCHANGED devices
      /\ sessRecord' = [sessRecord EXCEPT ![c] = r]
  BY DEF IdentifyKnown, AttachKnown, Known
<1>2. /\ g \in Hnd
      /\ sessHandler' = [sessHandler EXCEPT ![c] = g]
      /\ target' = [target EXCEPT ![g] = c]
      /\ UNCHANGED <<recHandler, kind>>
      /\ \A h \in Hnd : decoded[h] \subseteq decoded'[h]
  BY <1>1 DEF ReuseHandler
<1> HIDE DEF g
<1>3. \A h \in Hnd : target[h] # c
  BY FreshIsUnused
<1>4. HandlersOwned'
  <2>1. \A d \in Conn : Identified(d)' <=> sessHandler'[d] # None
    BY <1>1, <1>2, NoneAssumption, NoneIsNoHandler DEF HandlersOwned, Identified
  <2>2. \A h \in Hnd : target'[h] # None => sessHandler'[target'[h]] = h
    BY <1>2, <1>3 DEF HandlersOwned
  <2>3. ASSUME NEW n \in Mac, NEW d \in Conn, Known(n)', Identified(d)',
               sessHandler'[d] = recHandler'[devices'[n]]
        PROVE  sessRecord'[d] = devices'[n]
    <3>1. CASE d = c
      BY <1>1, <1>2, <2>3, <3>1 DEF HandlersOwned, Known, g
    <3>2. CASE d # c
      BY <1>1, <1>2, <2>3, <3>2 DEF HandlersOwned, Known, Identified
    <3>3. QED
      BY <3>1, <3>2
  <2>4. QED
    BY <1>1, <1>2, <2>1, <2>2, <2>3 DEF HandlersOwned, Known
<1>5. HandlersFit'
  <2>1. ASSUME NEW n \in Mac, Known(n)', OneClassFor(n)
        PROVE  /\ \A e \in Dialect[n] : kind'[recHandler'[devices'[n]]] = FindHandler(e)
               /\ \A d \in Conn : sessRecord'[d] = devices'[n] =>
                    sessHandler'[d] = recHandler'[devices'[n]]
    BY <1>1, <1>2, <2>1 DEF HandlersFit, CarriedBy, Known, g
  <2>2. QED
    BY <2>1 DEF HandlersFit, CarriedBy, OneClassFor
<1>6. StateKept
  BY <1>1, <1>2 DEF StateKept, Known
<1>7. QED
  BY <1>4, <1>5, <1>6

\* A new handler for record r, which is or becomes the record of device m.
LEMMA NewHandlerOwned ==
  ASSUME HandlerInv, NEW c \in Conn, NEW m \in Mac, NEW r \in Rec, NEW h \in Hnd,
         NEW f \in Frame, ~Identified(c), NewHandler(c, r, h, f),
         sessRecord' = [sessRecord EXCEPT ![c] = r],
         devices' = [devices EXCEPT ![m] = r],
         \A n \in Mac \ {m} : devices[n] # r
  PROVE  HandlersOwned'
<1> USE DEF HandlerInv, SessInv, HubTypeOK, SessTypeOK, HandlersConsistent
<1>1. /\ sessHandler' = [sessHandler EXCEPT ![c] = h]
      /\ recHandler' = [recHandler EXCEPT ![r] = h]
      /\ target' = [target EXCEPT ![h] = c]
      /\ \A d \in Conn : sessHandler[d] # h
      /\ \A n \in Mac : Known(n) => recHandler[devices[n]] # h
  BY DEF NewHandler, FreshHandler
<1>2. /\ devices'[m] = r /\ recHandler'[devices'[m]] = h
      /\ \A n \in Mac \ {m} :
           /\ devices'[n] = devices[n]
           /\ Known(n)' => /\ Known(n)
                           /\ recHandler'[devices'[n]] = recHandler[devices[n]]
                           /\ recHandler'[devices'[n]] # h
  BY <1>1 DEF Known
<1>3. \A g \in Hnd : target[g] # c
  BY FreshIsUnused
<1>4. \A d \in Conn : Identified(d)' <=> sessHandler'[d] # None
  BY <1>1, NoneAssumption, NoneIsNoHandler DEF HandlersOwned, Identified
<1>5. \A g \in Hnd : target'[g] # None => sessHandler'[target'[g]] = g
  BY <1>1, <1>3 DEF HandlersOwned
<1>6. \A n \in Mac : Known(n)' => recHandler'[devices'[n]] # None
  BY <1>1, <1>2, NoneIsNoHandler DEF HandlersOwned
<1>7. ASSUME NEW n \in Mac, NEW q \in Mac, Known(n)', Known(q)',
             recHandler'[devices'[n]] = recHandler'[devices'[q]]
      PROVE  n = q
  BY <1>2, <1>7 DEF HandlersOwned
<1>8. ASSUME NEW n \in Mac, NEW d \in Conn, Known(n)', Identified(d)',
             sessHandler'[d] = recHandler'[devices'[n]]
      PROVE  sessRecord'[d] = devices'[n]
  <2>1. CASE d = c
    BY <1>1, <1>2, <1>8, <2>1
  <2>2. CASE d # c
    <3>1. sessHandler'[d] = sessHandler[d] /\ sessRecord'[d] = sessRecord[d] /\ Identified(d)
      BY <1>1, <1>8, <2>2 DEF Identified
    <3>2. n # m
      BY <1>1, <1>2, <1>8, <3>1
    <3>3. Known(n) /\ devices'[n] = devices[n] /\ sessHandler[d] = recHandler[devices[n]]
      BY <1>2, <1>8, <3>1, <3>2
    <3>4. sessRecord[d] = devices[n]
      BY <3>1, <3>3 DEF HandlersOwned
    <3>5. QED
      BY <3>1, <3>3, <3>4
  <2>3. QED
    BY <2>1, <2>2
<1>9. QED
  BY <1>4, <1>5, <1>6, <1>7, <1>8 DEF HandlersOwned

\* The first frame of a connection.  If one class claims all of a device's frames,
\* the handler of a record the hub knows fits and is taken over.
LEMMA IdentifyHandlers ==
  ASSUME HandlerInv, NEW c \in Conn, NEW m \in Mac, NEW f \in Dialect[m],
         ~Identified(c), Identify(c, m, f)
  PROVE  HandlersConsistent' /\ (OneClass => StateKept)
<1> USE DEF HandlerInv, SessInv, HubTypeOK, SessTypeOK
<1>0. f \in Frame
  BY DialectAssumption
<1>1. CASE IdentifyKnown(c, m, f)
  <2> DEFINE r == devices[m]
  <2>1. r \in Rec /\ Known(m)
    BY <1>1 DEF IdentifyKnown, Known
  <2>2. CASE ReuseHandler(c, r, f)
    BY <1>0, <1>1, <2>2, ReuseStep
  <2>3. CASE /\ recHandler[r] = None \/ kind[recHandler[r]] # FindHandler(f)
             /\ \E h \in Hnd : NewHandler(c, r, h, f)
    <3>1. ~OneClassFor(m) /\ ~OneClass
      BY <2>1, <2>3 DEF HandlersConsistent, HandlersOwned, HandlersFit, OneClass
    <3>2. /\ sessRecord' = [sessRecord EXCEPT ![c] = r]
          /\ devices' = [devices EXCEPT ![m] = r]
          /\ \A n \in Mac \ {m} : devices[n] # r
      BY <1>1, <2>1, NoneAssumption
         DEF IdentifyKnown, AttachKnown, Consistent, RecordsAreOwned, Known
    <3>3. HandlersOwned'
      BY <1>0, <2>1, <2>3, <3>2, NewHandlerOwned
    <3>4. PICK h \in Hnd : NewHandler(c, r, h, f)
      BY <2>3
    <3>5. ASSUME NEW n \in Mac, n # m
          PROVE  /\ devices'[n] = devices[n] /\ devices[n] # r
                 /\ Known(n) => /\ recHandler'[devices[n]] = recHandler[devices[n]]
                                /\ kind'[recHandler[devices[n]]] = kind[recHandler[devices[n]]]
                 /\ \A d \in Conn : sessRecord'[d] = devices[n] /\ Known(n) =>
                      sessRecord[d] = devices[n] /\ sessHandler'[d] = sessHandler[d]
      BY <2>1, <3>2, <3>4, <3>5 DEF NewHandler, FreshHandler, Known
    <3>6. HandlersFit'
      <4>1. ASSUME NEW n \in Mac, Known(n)', OneClassFor(n)
            PROVE  /\ \A e \in Dialect[n] : kind'[recHandler'[devices'[n]]] = FindHandler(e)
                   /\ \A d \in Conn : sessRecord'[d] = devices'[n] =>
                        sessHandler'[d] = recHandler'[devices'[n]]
        <5>1. n # m
          BY <3>1, <4>1
        <5>2. Known(n) /\ devices'[n] = devices[n]
          BY <3>5, <4>1, <5>1 DEF Known
        <5>3. /\ \A e \in Dialect[n] : kind[recHandler[devices[n]]] = FindHandler(e)
              /\ \A d \in Conn : sessRecord[d] = devices[n] =>
                   sessHandler[d] = recHandler[devices[n]]
          BY <4>1, <5>2 DEF HandlersConsistent, HandlersFit, CarriedBy
        <5>4. QED
          BY <3>5, <5>1, <5>2, <5>3
      <4>2. QED
        BY <4>1 DEF HandlersFit, CarriedBy, OneClassFor
    <3>7. QED
      BY <3>1, <3>3, <3>6 DEF HandlersConsistent
  <2>4. QED
    BY <1>1, <2>2, <2>3 DEF IdentifyKnown
<1>2. CASE IdentifyNew(c, m, f)
  <2>1. PICK r \in Rec, h \in Hnd :
          /\ AttachNew(m, r)
          /\ sessRecord' = [sessRecord EXCEPT ![c] = r]
          /\ NewHandler(c, r, h, f)
    BY <1>2 DEF IdentifyNew
  <2>2. /\ devices' = [devices EXCEPT ![m] = r]
        /\ ~Known(m)
        /\ \A n \in Mac : devices[n] # r
    BY <2>1 DEF AttachNew, FreshRecord
  <2>3. /\ sessHandler' = [sessHandler EXCEPT ![c] = h]
        /\ recHandler' = [recHandler EXCEPT ![r] = h]
        /\ kind' = [kind EXCEPT ![h] = FindHandler(f)]
        /\ \A g \in Hnd \ {h} : decoded'[g] = decoded[g]
        /\ \A n \in Mac : Known(n) => recHandler[devices[n]] # h
    BY <2>1 DEF NewHandler, FreshHandler
  <2>4. HandlersOwned'
    BY <1>0, <2>1, <2>2, NewHandlerOwned
  <2>5. \A d \in Conn \ {c} : sessRecord[d] # r
    BY <2>2, NoneAssumption DEF Consistent, ConnectedIsKnown, Identified
  <2>6. HandlersFit'
    <3>1. ASSUME NEW n \in Mac, Known(n)', OneClassFor(n)
          PROVE  /\ \A e \in Dialect[n] : kind'[recHandler'[devices'[n]]] = FindHandler(e)
                 /\ \A d \in Conn : sessRecord'[d] = devices'[n] =>
                      sessHandler'[d] = recHandler'[devices'[n]]
      <4>1. CASE n = m
        <5>1. \A e \in Dialect[n] : FindHandler(e) = FindHandler(f)
          BY <3>1, <4>1 DEF OneClassFor
        <5>2. /\ devices'[n] = r /\ recHandler'[r] = h /\ kind'[h] = FindHandler(f)
              /\ sessHandler'[c] = h
          BY <2>2, <2>3, <4>1
        <5>3. \A d \in Conn : sessRecord'[d] = r => d = c
          BY <2>1, <2>5
        <5>4. QED
          BY <5>1, <5>2, <5>3
      <4>2. CASE n # m
        <5>1. /\ Known(n) /\ devices'[n] = devices[n] /\ devices[n] # r
              /\ recHandler'[devices[n]] = recHandler[devices[n]]
              /\ recHandler[devices[n]] \in Hnd \ {h}
          BY <2>2, <2>3, <3>1, <4>2 DEF Known, HandlersConsistent, HandlersOwned
        <5>2. /\ \A e \in Dialect[n] : kind[recHandler[devices[n]]] = FindHandler(e)
              /\ \A d \in Conn : sessRecord[d] = devices[n] =>
                   sessHandler[d] = recHandler[devices[n]]
          BY <3>1, <5>1 DEF HandlersConsistent, HandlersFit, CarriedBy
        <5>3. \A d \in Conn : sessRecord'[d] = devices[n] =>
                sessRecord[d] = devices[n] /\ sessHandler'[d] = sessHandler[d]
          BY <2>1, <2>3, <5>1
        <5>4. QED
          BY <2>3, <5>1, <5>2, <5>3
      <4>3. QED
        BY <4>1, <4>2
    <3>2. QED
      BY <3>1 DEF HandlersFit, CarriedBy, OneClassFor
  <2>7. StateKept
    BY <2>2, <2>3 DEF StateKept, Known
  <2>8. QED
    BY <2>4, <2>6, <2>7 DEF HandlersConsistent
<1>3. QED
  BY <1>1, <1>2 DEF Identify

\* The session of a connection ends, counted or not.
LEMMA DropHandlers ==
  ASSUME HandlerInv, NEW c \in Conn, DropSession(c), UNCHANGED devices
  PROVE  HandlersConsistent' /\ StateKept
<1> USE DEF HandlerInv, SessInv, HubTypeOK, SessTypeOK
<1>1. /\ sessRecord' = [sessRecord EXCEPT ![c] = None]
      /\ sessHandler' = [sessHandler EXCEPT ![c] = None]
      /\ \A h \in Hnd : target'[h] = IF target[h] = c THEN None ELSE target[h]
      /\ UNCHANGED <<recHandler, kind, decoded>>
  BY DEF DropSession
<1>2. HandlersOwned'
  BY <1>1 DEF HandlersConsistent, HandlersOwned, Identified, Known
<1>3. HandlersFit'
  BY <1>1 DEF HandlersConsistent, HandlersFit, CarriedBy, Known, OneClassFor
<1>4. StateKept
  BY <1>1 DEF StateKept
<1>5. QED
  BY <1>2, <1>3, <1>4 DEF HandlersConsistent

\* A record leaves the table, or nothing changes but times and counters.
LEMMA TableHandlers ==
  ASSUME HandlerInv, UNCHANGED <<sessRecord, sessHandler, recHandler, kind, target>>,
         \A m \in Mac : devices'[m] \in {devices[m], None},
         \A h \in Hnd : decoded[h] \subseteq decoded'[h]
  PROVE  HandlersConsistent' /\ StateKept
<1> USE DEF HandlerInv, SessInv, HubTypeOK, SessTypeOK
<1>1. \A m \in Mac : Known(m)' => Known(m) /\ devices'[m] = devices[m]
  BY DEF Known
<1>2. HandlersOwned'
  BY <1>1 DEF HandlersConsistent, HandlersOwned, Identified
<1>3. HandlersFit'
  BY <1>1 DEF HandlersConsistent, HandlersFit, CarriedBy, OneClassFor
<1>4. StateKept
  BY DEF StateKept, Known
<1>5. QED
  BY <1>2, <1>3, <1>4 DEF HandlersConsistent

\* The handlers start unowned ...
LEMMA HandlersInit == HubInit /\ SessInit => HandlersConsistent
  BY DEF HubInit, SessInit, HandlersConsistent, HandlersOwned, HandlersFit, Known, Identified

\* ... and no step confuses them or, for a dialect of one class, loses what they
\* have decoded.
LEMMA HandlersStep ==
  HandlerInv /\ [LossyNext]_ssVars => HandlersConsistent' /\ (OneClass => StateKept)
<1> SUFFICES ASSUME HandlerInv, [LossyNext]_ssVars
             PROVE  HandlersConsistent' /\ (OneClass => StateKept)
  OBVIOUS
<1> DEFINE Kept == HandlersConsistent' /\ StateKept
<1>1. ASSUME NEW c \in Conn, ~Identified(c), NEW m \in Mac, NEW f \in Dialect[m],
             Identify(c, m, f)
      PROVE  HandlersConsistent' /\ (OneClass => StateKept)
  BY <1>1, IdentifyHandlers
<1>2. ASSUME NEW c \in Conn, NEW f \in Frame, Observe(c, f) PROVE Kept
  BY <1>2, TableHandlers DEF Observe, hubVars, HandlerInv, SessInv, SessTypeOK
<1>3. ASSUME NEW c \in Conn, CloseSession(c) PROVE Kept
  <2>1. UNCHANGED devices
    BY <1>3 DEF CloseSession, Detach, DetachUnknown, OtherClose, LastClose, hubVars
  <2>2. QED
    BY <1>3, <2>1, DropHandlers DEF CloseSession
<1>4. ASSUME NEW r \in Rec, Expire(r), UNCHANGED sessVars PROVE Kept
  BY <1>4, TableHandlers DEF Expire, sessVars, HandlerInv, SessInv, HubTypeOK
<1>5. ASSUME Tick, UNCHANGED sessVars PROVE Kept
  BY <1>5, TableHandlers DEF Tick, sessVars
<1>6. ASSUME NEW c \in Conn, DropSession(c), UNCHANGED hubVars PROVE Kept
  BY <1>6, DropHandlers DEF hubVars
<1>7. ASSUME UNCHANGED ssVars PROVE Kept
  BY <1>7, TableHandlers DEF ssVars, sessVars, hubVars
<1>8. QED
  BY <1>1, <1>2, <1>3, <1>4, <1>5, <1>6, <1>7 DEF SessNext, LossyNext

\* Where one class claims all frames of a device, its connections share the
\* handler of its record.
LEMMA FitIsShared ==
  /\ HandlerInv =>
       \A m \in Mac, c \in Conn :
         OneClassFor(m) /\ Identified(c) /\ macOf[sessRecord[c]] = m
           => sessHandler[c] = recHandler[devices[m]] /\ sessRecord[c] = devices[m]
  /\ HandlerInv /\ OneClass => OneHandlerPerDevice
<1>1. ASSUME HandlerInv, NEW m \in Mac, NEW c \in Conn,
             OneClassFor(m), Identified(c), macOf[sessRecord[c]] = m
      PROVE  sessHandler[c] = recHandler[devices[m]] /\ sessRecord[c] = devices[m]
  <2>1. sessRecord[c] = devices[m] /\ Known(m)
    BY <1>1 DEF HandlerInv, SessInv, Consistent, ConnectedIsKnown, Identified, Known
  <2>2. QED
    BY <1>1, <2>1 DEF HandlerInv, HandlersConsistent, HandlersFit, CarriedBy
<1>2. ASSUME HandlerInv, OneClass, NEW c \in Conn, Identified(c)
      PROVE  sessHandler[c] = recHandler[sessRecord[c]]
  <2>1. PICK m \in Mac : m = macOf[sessRecord[c]]
    BY <1>2 DEF HandlerInv, SessInv, Consistent, ConnectedIsKnown
  <2>2. QED
    BY <1>1, <1>2, <2>1 DEF OneClass
<1>3. QED
  BY <1>1, <1>2 DEF OneHandlerPerDevice

\* A handler writes to a session that has it, and that session carries the
\* handler's own device.
LEMMA OwnersStayHome == HandlerInv => CommandsStayHome
<1> SUFFICES ASSUME HandlerInv, NEW m \in Mac, Known(m), recHandler[devices[m]] # None,
                    target[recHandler[devices[m]]] # None
             PROVE  sessRecord[target[recHandler[devices[m]]]] = devices[m]
  BY DEF CommandsStayHome
<1> DEFINE h == recHandler[devices[m]]
           c == target[h]
<1> USE DEF HandlerInv, SessInv, HubTypeOK, SessTypeOK
<1>1. h \in Hnd /\ c \in Conn
  BY DEF Known
<1>2. sessHandler[c] = h /\ Identified(c)
  BY <1>1, NoneIsNoHandler DEF HandlersConsistent, HandlersOwned
<1>3. QED
  BY <1>1, <1>2 DEF HandlersConsistent, HandlersOwned

-----------------------------------------------------------------------------
(* Every step of a session is a step of Availability or a stutter. *)

\* A step that Availability allows on m and that shows every other device as
\* before is a step of Availability.
LEMMA PromiseStep ==
  ASSUME NEW m \in Mac,
         \A n \in Mac \ {m} : shown'[n] = shown[n],
         \/ shown'[m] = shown[m]
         \/ shown[m] # "online" /\ shown'[m] = "online"
         \/ shown[m] = "online" /\ shown'[m] = "grace"
         \/ shown[m] = "grace" /\ shown'[m] = "absent"
  PROVE  [Promise!Next]_shown
<1>1. /\ shown = [n \in Mac |-> shown[n]]
      /\ shown' = [n \in Mac |-> shown'[n]]
  BY DEF shown
<1>2. CASE shown'[m] = shown[m]
  BY <1>1, <1>2
<1>3. CASE shown[m] # "online" /\ shown'[m] = "online"
  <2>1. Promise!Connected(m)
    BY <1>1, <1>3 DEF Promise!Connected
  <2>2. QED
    BY <2>1 DEF Promise!Next
<1>4. CASE shown[m] = "online" /\ shown'[m] = "grace"
  <2>1. Promise!LastConnectionClosed(m)
    BY <1>1, <1>4 DEF Promise!LastConnectionClosed
  <2>2. QED
    BY <2>1 DEF Promise!Next
<1>5. CASE shown[m] = "grace" /\ shown'[m] = "absent"
  <2>1. Promise!ReportedGone(m)
    BY <1>1, <1>5 DEF Promise!ReportedGone
  <2>2. QED
    BY <2>1 DEF Promise!Next
<1>6. QED
  BY <1>2, <1>3, <1>4, <1>5

LEMMA ShownIdentify ==
  ASSUME SessInv, NEW c \in Conn, NEW m \in Mac, NEW f, Identify(c, m, f)
  PROVE  [Promise!Next]_shown
<1> USE DEF SessInv, Consistent, HubTypeOK
<1>1. CASE IdentifyKnown(c, m, f)
  <2>1. PICK r \in Rec : /\ devices[m] = r
                         /\ UNCHANGED devices
                         /\ sessions' = [sessions EXCEPT ![r] = @ + 1]
    BY <1>1 DEF IdentifyKnown, AttachKnown, Known
  <2>2. shown'[m] = "online" /\ shown[m] \in {"online", "grace"}
    BY <1>1, <2>1 DEF shown, Known, Online, IdentifyKnown
  <2>3. \A n \in Mac \ {m} : shown'[n] = shown[n]
    BY <2>1, NoneAssumption DEF shown, Known, Online, RecordsAreOwned
  <2>4. QED
    BY <2>2, <2>3, PromiseStep
<1>2. CASE IdentifyNew(c, m, f)
  <2>1. PICK r \in Rec : AttachNew(m, r)
    BY <1>2 DEF IdentifyNew
  <2>2. shown[m] = "absent" /\ shown'[m] = "online"
    BY <2>1, NoneAssumption DEF AttachNew, shown, Known, Online
  <2>3. \A n \in Mac \ {m} : shown'[n] = shown[n]
    BY <2>1 DEF AttachNew, FreshRecord, shown, Known, Online
  <2>4. QED
    BY <2>2, <2>3, PromiseStep
<1>3. QED
  BY <1>1, <1>2 DEF Identify

LEMMA ShownDetach ==
  ASSUME SessInv, NEW c \in Conn, CloseSession(c)
  PROVE  [Promise!Next]_shown
<1> USE DEF SessInv, Consistent, HubTypeOK, SessTypeOK
<1>1. PICK m \in Mac, r \in Rec :
        /\ macOf[sessRecord[c]] = m
        /\ sessRecord[c] = r
        /\ devices[m] = r
  BY DEF CloseSession, ConnectedIsKnown, Identified
<1>2. Known(m)
  BY <1>1, NoneAssumption DEF Known
<1>3. sessions[r] > 0
  <2>1. CarriedBy(r) # {}
    BY <1>1 DEF CarriedBy
  <2>2. QED
    BY <1>1, <1>2, <2>1, CarriedByFinite DEF NeverUndercounted
<1>4. shown[m] = "online"
  BY <1>1, <1>2, <1>3 DEF shown, Online
<1>5. UNCHANGED devices /\ \A q \in Rec \ {r} : sessions'[q] = sessions[q]
  BY <1>1, <1>2 DEF CloseSession, Detach, DetachUnknown, OtherClose, LastClose
<1>6. shown'[m] \in {"online", "grace"}
  BY <1>2, <1>5 DEF shown, Known
<1>7. \A n \in Mac \ {m} : shown'[n] = shown[n]
  BY <1>1, <1>5 DEF shown, Known, Online, RecordsAreOwned
<1>8. QED
  BY <1>4, <1>6, <1>7, PromiseStep

LEMMA ShownExpire ==
  ASSUME SessInv, NEW r \in Rec, Expire(r)
  PROVE  [Promise!Next]_shown
<1> USE DEF SessInv, Consistent, HubTypeOK
<1>1. PICK m \in Mac : macOf[r] = m
  BY DEF Expire, TimersOwned
<1>2. CASE Expirable(r)
  <2>1. shown[m] = "grace" /\ shown'[m] = "absent"
    BY <1>1, <1>2, NoneAssumption DEF Expire, Expirable, shown, Known, Online
  <2>2. \A n \in Mac \ {m} : shown'[n] = shown[n]
    BY <1>1, <1>2 DEF Expire, shown, Known, Online
  <2>3. QED
    BY <2>1, <2>2, PromiseStep
<1>3. CASE ~Expirable(r)
  BY <1>3 DEF Expire, shown, Known, Online
<1>4. QED
  BY <1>2, <1>3

\* The table starts with no device shown ...
LEMMA ShownInit == HubInit => Promise!Init
  BY DEF HubInit, Promise!Init, shown, Known

\* ... and every step on it is one that Availability allows.
LEMMA ShownStep == SessInv /\ [LossyNext]_ssVars => [Promise!Next]_shown
<1> SUFFICES ASSUME SessInv, [LossyNext]_ssVars PROVE [Promise!Next]_shown
  OBVIOUS
<1>1. ASSUME UNCHANGED hubVars PROVE [Promise!Next]_shown
  BY <1>1 DEF hubVars, shown, Known, Online
<1>2. ASSUME NEW c \in Conn, NEW m \in Mac, NEW f \in Dialect[m], Identify(c, m, f)
      PROVE  [Promise!Next]_shown
  BY <1>2, ShownIdentify
<1>3. ASSUME NEW c \in Conn, NEW f \in Frame, Observe(c, f) PROVE [Promise!Next]_shown
  BY <1>1, <1>3 DEF Observe
<1>4. ASSUME NEW c \in Conn, CloseSession(c) PROVE [Promise!Next]_shown
  BY <1>4, ShownDetach
<1>5. ASSUME NEW r \in Rec, Expire(r) PROVE [Promise!Next]_shown
  BY <1>5, ShownExpire
<1>6. ASSUME Tick PROVE [Promise!Next]_shown
  BY <1>6 DEF Tick, shown, Known, Online
<1>7. ASSUME UNCHANGED ssVars PROVE [Promise!Next]_shown
  BY <1>1, <1>7 DEF ssVars
<1>8. QED
  BY <1>1, <1>2, <1>3, <1>4, <1>5, <1>6, <1>7 DEF SessNext, LossyNext

=============================================================================
