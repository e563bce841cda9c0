-------------------------- MODULE MqttBridge_proofs --------------------------
(***************************************************************************)
(* Theorems about the Home Assistant bridge, for any devices, values,      *)
(* faults, restarts and commands and a queue of any capacity: what both    *)
(* threads guarantee together, and what the event loop guarantees in the   *)
(* behaviours in which the broker stays connected: Spec /\ []link.         *)
(***************************************************************************)
EXTENDS MqttBridge, SequenceTheorems, TLAPS

-----------------------------------------------------------------------------
(* The queue of events. *)

\* An event joins the queue.
LEMMA QueueAppend ==
  ASSUME NEW q \in Seq(Event), NEW e \in Event, NEW d \in Dev
  PROVE  /\ \A k : Waits(Append(q, e), k, d) <=> Waits(q, k, d) \/ Says(e, k, d)
         /\ Says(e, "changed", d) => Renewed(Append(q, e), d)
         /\ Renewed(q, d) /\ ~Says(e, "gone", d) => Renewed(Append(q, e), d)
<1> DEFINE r == Append(q, e)
<1>1. /\ Len(q) \in Nat /\ Len(r) = Len(q) + 1 /\ r[Len(q) + 1] = e
      /\ \A i \in 1..Len(q) : r[i] = q[i]
  BY LenProperties, AppendProperties
<1> HIDE DEF r
<1>2. ASSUME NEW k PROVE Waits(r, k, d) <=> Waits(q, k, d) \/ Says(e, k, d)
  <2>1. Waits(r, k, d) => Waits(q, k, d) \/ Says(e, k, d)
    BY <1>1 DEF Waits
  <2>2. Waits(q, k, d) => Waits(r, k, d)
    BY <1>1 DEF Waits
  <2>3. Says(e, k, d) => Waits(r, k, d)
    BY <1>1 DEF Waits
  <2>4. QED
    BY <2>1, <2>2, <2>3
<1>3. ASSUME Says(e, "changed", d) PROVE Renewed(r, d)
  BY <1>1, <1>3 DEF Renewed
<1>4. ASSUME Renewed(q, d), ~Says(e, "gone", d) PROVE Renewed(r, d)
  BY <1>1, <1>4 DEF Renewed
<1>5. QED
  BY <1>2, <1>3, <1>4 DEF r

\* The loop takes the first event.
LEMMA QueueTail ==
  ASSUME NEW q \in Seq(Event), q # <<>>, NEW d \in Dev
  PROVE  /\ \A k : Waits(q, k, d) <=> Waits(Tail(q), k, d) \/ Says(Head(q), k, d)
         /\ Renewed(q, d) =>
              \/ Renewed(Tail(q), d)
              \/ Says(Head(q), "changed", d) /\ ~Waits(Tail(q), "gone", d)
<1>1. /\ Len(q) \in Nat \ {0}
      /\ Len(Tail(q)) = Len(q) - 1
      /\ \A i \in 1..Len(Tail(q)) : Tail(q)[i] = q[i + 1]
      /\ Head(q) = q[1]
  BY HeadTailProperties, EmptySeq
<1>2. \A i \in 2..Len(q) : i - 1 \in 1..Len(Tail(q)) /\ Tail(q)[i - 1] = q[i]
  BY <1>1
<1>3. ASSUME NEW k PROVE Waits(q, k, d) <=> Waits(Tail(q), k, d) \/ Says(Head(q), k, d)
  <2>1. ASSUME Waits(q, k, d), ~Says(Head(q), k, d) PROVE Waits(Tail(q), k, d)
    <3>1. PICK i \in 1..Len(q) : Says(q[i], k, d)
      BY <2>1 DEF Waits
    <3>2. i \in 2..Len(q)
      BY <1>1, <2>1, <3>1
    <3>3. QED
      BY <1>2, <3>1, <3>2 DEF Waits
  <2>2. Waits(Tail(q), k, d) => Waits(q, k, d)
    BY <1>1 DEF Waits
  <2>3. Says(Head(q), k, d) => Waits(q, k, d)
    BY <1>1 DEF Waits
  <2>4. QED
    BY <2>1, <2>2, <2>3
<1>4. ASSUME Renewed(q, d)
      PROVE  \/ Renewed(Tail(q), d)
             \/ Says(Head(q), "changed", d) /\ ~Waits(Tail(q), "gone", d)
  <2>1. PICK i \in 1..Len(q) : /\ Says(q[i], "changed", d)
                               /\ \A j \in 1..Len(q) : j > i => ~Says(q[j], "gone", d)
    BY <1>4 DEF Renewed
  <2>2. CASE i = 1
    BY <1>1, <2>1, <2>2 DEF Waits
  <2>3. CASE i # 1
    <3>1. /\ i - 1 \in 1..Len(Tail(q)) /\ Tail(q)[i - 1] = q[i]
          /\ \A j \in 1..Len(Tail(q)) : j > i - 1 => ~Says(Tail(q)[j], "gone", d)
      BY <1>1, <1>2, <2>1, <2>3
    <3>2. QED
      BY <2>1, <3>1 DEF Renewed
  <2>4. QED
    BY <2>2, <2>3
<1>5. QED
  BY <1>3, <1>4

\* Nothing waits in an empty queue.
LEMMA NothingWaits ==
  ASSUME NEW d PROVE ~Renewed(<<>>, d) /\ \A k : ~Waits(<<>>, k, d)
<1>1. Len(<<>>) = 0
  OBVIOUS
<1>2. QED
  BY <1>1 DEF Renewed, Waits

\* What the hub's publishing does to queue and missed.
LEMMA PublishEffect ==
  ASSUME TypeOK, NEW d \in Dev, NEW k \in {"connected", "changed", "gone"}, Publish(k, d)
  PROVE  /\ queue' \in Seq(Event) /\ Len(queue') <= QueueMax /\ missed' \in SUBSET Dev
         /\ \A e \in Dev \ {d} : e \in missed' <=> e \in missed
         /\ k = "connected" => missed' = missed
         /\ k # "connected" /\ d \notin missed' => Waits(queue', k, d)
         /\ k = "changed" /\ d \notin missed' => Renewed(queue', d)
         /\ \A e \in Dev :
              /\ \A j : Waits(queue, j, e) => Waits(queue', j, e)
              /\ Waits(queue', "gone", e) => Waits(queue, "gone", e) \/ (k = "gone" /\ e = d)
              /\ Renewed(queue, e) /\ (k # "gone" \/ e # d) => Renewed(queue', e)
<1>1. queue \in Seq(Event) /\ Len(queue) \in Nat /\ Len(queue) <= QueueMax /\ missed \in SUBSET Dev
  BY LenProperties DEF TypeOK
<1>2. CASE Len(queue) < QueueMax
  <2>1. PICK e \in Event : e = [kind |-> k, dev |-> d]
    BY DEF Event
  <2>2. queue' = Append(queue, e)
    BY <1>2, <2>1 DEF Publish
  <2>3. missed' = IF k = "connected" THEN missed ELSE missed \ {d}
    BY <1>2 DEF Publish
  <2>4. queue' \in Seq(Event) /\ Len(queue') = Len(queue) + 1
    BY <1>1, <2>2, AppendProperties
  <2>5. Len(queue') <= QueueMax
    BY <1>1, <1>2, <2>4, BoundsAssumption
  <2>6. \A c \in Dev :
          /\ \A j : Waits(queue', j, c) <=> Waits(queue, j, c) \/ Says(e, j, c)
          /\ Says(e, "changed", c) => Renewed(queue', c)
          /\ Renewed(queue, c) /\ ~Says(e, "gone", c) => Renewed(queue', c)
    BY <1>1, <2>2, QueueAppend
  <2>7. \A j, c : Says(e, j, c) <=> j = k /\ c = d
    BY <2>1 DEF Says
  <2>8. QED
    BY <1>1, <2>3, <2>4, <2>5, <2>6, <2>7
<1>3. CASE ~(Len(queue) < QueueMax)
  <2>1. queue' = queue /\ missed' = IF k = "connected" THEN missed ELSE missed \cup {d}
    BY <1>3 DEF Publish
  <2>2. QED
    BY <1>1, <2>1
<1>4. QED
  BY <1>2, <1>3

-----------------------------------------------------------------------------
(* Types, and what the threads have in hand. *)

\* A thread takes its next step.
LEMMA PcStep ==
  ASSUME pc \in [Thread -> Local], \A u \in Thread : InHand(u, pc[u]),
         NEW t \in Thread, NEW l \in Local, InHand(t, l), pc' = [pc EXCEPT ![t] = l]
  PROVE  /\ pc' \in [Thread -> Local] /\ \A u \in Thread : InHand(u, pc'[u])
         /\ pc'[t] = l /\ \A u \in Thread \ {t} : pc'[u] = pc[u]
<1>1. pc'[t] = l /\ \A u \in Thread \ {t} : pc'[u] = pc[u]
  OBVIOUS
<1>2. pc' \in [Thread -> Local]
  OBVIOUS
<1>3. \A u \in Thread : InHand(u, pc'[u])
  BY <1>1
<1>4. QED
  BY <1>1, <1>2, <1>3

LEMMA RetainType ==
  ASSUME NEW S, NEW topic \in [Dev -> S], NEW d \in Dev, NEW m \in S
  PROVE  Retain(topic, d, m) \in [Dev -> S]
BY DEF Retain

LEMMA AnnouncedAreEntities == \A t \in DeviceType : Announced(t) \subseteq Entity
BY TypeAssumption DEF DeviceType, Entity

LEMMA IdleInHand ==
  /\ Idle \in Local /\ \A t \in Thread : InHand(t, Idle)
  /\ Idle.at = "idle" /\ Idle.dev = None
BY DEF Idle, Local, InHand, Thread

LEMMA AtInHand ==
  ASSUME NEW step \in {"identify", "check", "online"}, NEW d \in Dev
  PROVE  /\ At(step, d) \in Local /\ At(step, d).at = step /\ At(step, d).dev = d
         /\ InHand("loop", At(step, d))
         /\ step # "identify" => InHand("paho", At(step, d))
BY DEF At, Idle, Local, InHand

\* A step of _advertise or _publish_state keeps to the device it works on, and
\* what it writes is of the topic's type.
LEMMA WorkStep ==
  ASSUME TypeOK, ThreadsFit, NEW t \in Thread, Work(t)
  PROVE  \E d \in Dev, l \in Local :
           /\ pc[t].dev = d /\ rtype[d] \in DeviceType
           /\ pc' = [pc EXCEPT ![t] = l] /\ InHand(t, l) /\ l.dev \in {d, None}
           /\ l.at \notin {"identify", "list"} /\ (t = "paho" => l.at # "idle")
           /\ UNCHANGED <<hub, bus, calls, conn, todo, history>>
           /\ advertised' \in SUBSET (Dev \X DeviceType)
           /\ portions' \in [Dev -> Number \cup {0}]
           /\ config' \in [Dev -> SUBSET Entity]
           /\ avail' \in [Dev -> {None, "online", "offline"}]
           /\ state' \in [Dev -> StateMessage \cup {None}]
           /\ number' \in [Dev -> Number \cup {None}]
<1>1. /\ pc[t] \in Local /\ InHand(t, pc[t])
      /\ pc[t].at \in {"check", "discover", "number", "mark", "online", "mirror"}
      /\ UNCHANGED <<hub, bus, calls, conn, todo, history>>
  BY DEF Work, TypeOK, ThreadsFit
<1>2. PICK d \in Dev : d = pc[t].dev
  BY <1>1 DEF InHand
<1>3. rtype[d] # None /\ rtype[d] \in DeviceType
  BY <1>2 DEF ThreadsFit, Handled, TypeOK
<1> DEFINE Fits(l) == /\ l \in Local /\ InHand(t, l) /\ l.dev \in {d, None}
                      /\ l.at \notin {"identify", "list"} /\ (t = "paho" => l.at # "idle")
           Written == /\ advertised' \in SUBSET (Dev \X DeviceType)
                      /\ portions' \in [Dev -> Number \cup {0}]
                      /\ config' \in [Dev -> SUBSET Entity]
                      /\ avail' \in [Dev -> {None, "online", "offline"}]
                      /\ state' \in [Dev -> StateMessage \cup {None}]
                      /\ number' \in [Dev -> Number \cup {None}]
<1>4. SUFFICES /\ \E l : Fits(l) /\ pc' = [pc EXCEPT ![t] = l]
               /\ Written
  BY <1>1, <1>2, <1>3
<1>5. CASE pc[t].at = "check" /\ Check(t, d)
  <2>1. Written
    BY <1>5 DEF Check, bridge, broker, TypeOK
  <2>2. Fits([pc[t] EXCEPT !.at = "online"])
    BY <1>1, <1>2 DEF Local, InHand
  <2>3. Fits([pc[t] EXCEPT !.at = "discover", !.key = rtype[d]])
    BY <1>1, <1>2, <1>3 DEF Local, InHand
  <2>4. \/ pc' = [pc EXCEPT ![t] = [pc[t] EXCEPT !.at = "online"]]
        \/ pc' = [pc EXCEPT ![t] = [pc[t] EXCEPT !.at = "discover", !.key = rtype[d]]]
    BY <1>5, Zenon DEF Check, Goto
  <2> HIDE DEF Fits
  <2>5. QED
    BY <2>1, <2>2, <2>3, <2>4
<1>6. CASE pc[t].at = "discover" /\ Discover(t, d)
  <2>1. Written
    <3>1. config[d] \cup Announced(rtype[d]) \in SUBSET Entity
      BY <1>3, AnnouncedAreEntities DEF TypeOK
    <3>2. config' \in [Dev -> SUBSET Entity]
      BY <1>6, <3>1, RetainType, Zenon DEF Discover, TypeOK
    <3>3. avail' \in [Dev -> {None, "online", "offline"}]
      BY <1>6, RetainType DEF Discover, TypeOK
    <3>4. QED
      BY <1>6, <3>2, <3>3 DEF Discover, bridge, TypeOK
  <2>2. Fits([pc[t] EXCEPT !.at = "number"])
    BY <1>1, <1>2, <1>6 DEF Local, InHand
  <2>3. pc' = [pc EXCEPT ![t] = [pc[t] EXCEPT !.at = "number"]]
    BY <1>6, Zenon DEF Discover, Goto
  <2> HIDE DEF Fits
  <2>4. QED
    BY <2>1, <2>2, <2>3
<1>7. CASE pc[t].at = "number" /\ SeedNumber(t, d)
  <2>1. /\ portions' \in [Dev -> Number \cup {0}]
        /\ portions'[d] \in Number /\ portions'[d] # 0
    BY <1>7, BoundsAssumption DEF SeedNumber, TypeOK, Number
  <2>2. Written
    BY <1>7, <2>1 DEF SeedNumber, broker, TypeOK
  <2> PICK n \in Number : n = portions'[d] /\ n # 0
    BY <2>1
  <2>3. Fits([pc[t] EXCEPT !.at = "mark", !.seed = n])
    BY <1>1, <1>2, <1>7 DEF Local, InHand
  <2>4. pc' = [pc EXCEPT ![t] = [pc[t] EXCEPT !.at = "mark", !.seed = n]]
    <3>1. pc' = [pc EXCEPT ![t] = [pc[t] EXCEPT !.at = "mark", !.seed = portions'[d]]]
      BY <1>7, Zenon DEF SeedNumber
    <3>2. QED
      BY <3>1, Zenon
  <2> HIDE DEF Fits
  <2>5. QED
    BY <2>2, <2>3, <2>4
<1>8. CASE pc[t].at = "mark" /\ Mark(t, d)
  <2>1. pc[t].seed \in Number /\ pc[t].key \in DeviceType
    BY <1>1, <1>8 DEF InHand, Local
  <2>2. number' \in [Dev -> Number \cup {None}]
    BY <1>8, <2>1, RetainType DEF Mark, TypeOK
  <2>3. advertised' \in SUBSET (Dev \X DeviceType)
    BY <1>8, <2>1 DEF Mark, TypeOK
  <2>4. Written
    BY <1>8, <2>2, <2>3 DEF Mark, TypeOK
  <2>5. Fits(At("online", d))
    BY AtInHand DEF Thread
  <2>6. pc' = [pc EXCEPT ![t] = At("online", d)]
    BY <1>8, Zenon DEF Mark
  <2> HIDE DEF Fits
  <2>7. QED
    BY <2>4, <2>5, <2>6
<1>9. CASE pc[t].at = "online" /\ Online(t, d)
  <2>1. StatePayload(d) \in StateMessage /\ StatePayload(d) # None
    BY <1>3, NoneIsNothing DEF StatePayload, StateMessage, TypeOK
  <2>2. Written
    BY <1>9, RetainType DEF Online, bridge, TypeOK
  <2>3. Fits([pc[t] EXCEPT !.at = "mirror", !.payload = StatePayload(d)])
    BY <1>1, <1>2, <2>1 DEF Local, InHand
  <2>4. pc' = [pc EXCEPT ![t] = [pc[t] EXCEPT !.at = "mirror", !.payload = StatePayload(d)]]
    BY <1>9, Zenon DEF Online
  <2> HIDE DEF Fits
  <2>5. QED
    BY <2>2, <2>3, <2>4
<1>10. CASE pc[t].at = "mirror" /\ Mirror(t, d)
  <2>1. pc[t].payload \in StateMessage
    BY <1>1, <1>10 DEF InHand, Local
  <2>2. state' \in [Dev -> StateMessage \cup {None}]
    BY <1>10, <2>1, RetainType DEF Mirror, TypeOK
  <2>3. Written
    BY <1>10, <2>2 DEF Mirror, bridge, TypeOK
  <2>4. t = "loop" => Fits(Idle)
    BY IdleInHand
  <2>5. t = "paho" => Fits([Idle EXCEPT !.at = "next"])
    BY DEF Idle, Local, InHand
  <2>6. pc' = [pc EXCEPT ![t] = IF t = "paho" THEN [Idle EXCEPT !.at = "next"] ELSE Idle]
    BY <1>10, Zenon DEF Mirror, Done
  <2> HIDE DEF Fits
  <2>7. QED
    BY <2>3, <2>4, <2>5, <2>6 DEF Thread
<1>11. QED
  BY <1>2, <1>5, <1>6, <1>7, <1>8, <1>9, <1>10 DEF Work

\* Every step keeps the types and what the threads have in hand.
LEMMA TypesStep == TypeOK /\ ThreadsFit /\ [Next]_vars => TypeOK' /\ ThreadsFit'
<1> SUFFICES ASSUME TypeOK, ThreadsFit, [Next]_vars PROVE TypeOK' /\ ThreadsFit'
  OBVIOUS
<1> DEFINE Dealt(d) == known[d] \/ d \in todo \/ pc["loop"].dev = d \/ pc["paho"].dev = d
<1>1. /\ pc \in [Thread -> Local] /\ \A t \in Thread : InHand(t, pc[t])
      /\ "loop" \in Thread /\ "paho" \in Thread
      /\ \A d \in Dev : Handled(d) <=> Dealt(d)
      /\ \A d \in Dev : Handled(d)' <=> Dealt(d)'
      /\ \A d \in Dev : d # None
  BY NoneIsNothing DEF TypeOK, ThreadsFit, Thread, Handled
<1>2. ASSUME NEW d \in Dev, Attach(d) PROVE TypeOK' /\ ThreadsFit'
  <2>1. /\ pc' \in [Thread -> Local] /\ \A t \in Thread : InHand(t, pc'[t])
        /\ pc'["loop"] = At("identify", d) /\ pc'["paho"] = pc["paho"]
    BY <1>1, <1>2, AtInHand, PcStep DEF Attach
  <2>2. queue' \in Seq(Event) /\ Len(queue') <= QueueMax /\ missed' \in SUBSET Dev
    BY <1>2, PublishEffect DEF Attach
  <2>3. /\ known' \in [Dev -> BOOLEAN] /\ value' \in [Dev -> Value \cup {None}]
        /\ rtype' = [rtype EXCEPT ![d] = "unidentified"]
        /\ rtype' \in [Dev -> DeviceType \cup {None}]
        /\ UNCHANGED <<calls, bridge, conn, todo, broker, history>>
        /\ \A e \in Dev \ {d} : known'[e] = known[e]
    BY <1>2 DEF Attach, TypeOK, DeviceType
  <2>4. TypeOK'
    BY <2>1, <2>2, <2>3 DEF TypeOK, bridge, conn, broker, history
  <2>5. ASSUME NEW e \in Dev, Dealt(e)' PROVE rtype'[e] # None
    <3>1. CASE e = d
      BY <2>3, <3>1, NoneIsNothing DEF TypeOK, DeviceType
    <3>2. CASE e # d
      <4>1. Dealt(e)
        BY <2>1, <2>3, <2>5, <3>2, AtInHand
      <4>2. QED
        BY <1>1, <2>3, <3>2, <4>1 DEF ThreadsFit, TypeOK
    <3>3. QED
      BY <3>1, <3>2
  <2>6. QED
    BY <1>1, <2>1, <2>3, <2>4, <2>5 DEF ThreadsFit, PahoIdle
<1>3. ASSUME NEW d \in Dev, Identify(d) PROVE TypeOK' /\ ThreadsFit'
  <2>1. /\ pc' \in [Thread -> Local] /\ \A t \in Thread : InHand(t, pc'[t])
        /\ pc'["loop"] = Idle /\ pc'["paho"] = pc["paho"]
    BY <1>1, <1>3, IdleInHand, PcStep DEF Identify
  <2>2. queue' \in Seq(Event) /\ Len(queue') <= QueueMax /\ missed' \in SUBSET Dev
    BY <1>3, PublishEffect DEF Identify
  <2>3. PICK t \in Type : rtype' = [rtype EXCEPT ![d] = t]
    BY <1>3 DEF Identify
  <2>4. /\ rtype' \in [Dev -> DeviceType \cup {None}]
        /\ UNCHANGED <<known, value, calls, bridge, conn, todo, broker, history>>
        /\ \A e \in Dev : rtype[e] # None => rtype'[e] # None
    BY <1>3, <2>3, NoneIsNothing DEF Identify, TypeOK, DeviceType
  <2>5. TypeOK'
    BY <2>1, <2>2, <2>4 DEF TypeOK, bridge, conn, broker, history
  <2>6. \A e \in Dev : Dealt(e)' => Dealt(e)
    BY <1>1, <2>1, <2>4, IdleInHand
  <2>7. QED
    BY <1>1, <2>1, <2>4, <2>5, <2>6 DEF ThreadsFit, PahoIdle
<1>4. ASSUME NEW d \in Dev, Reidentify(d) \/ Decode(d) \/ Remove(d)
      PROVE  TypeOK' /\ ThreadsFit'
  <2>1. queue' \in Seq(Event) /\ Len(queue') <= QueueMax /\ missed' \in SUBSET Dev
    BY <1>4, PublishEffect DEF Reidentify, Decode, Remove
  <2>2. /\ UNCHANGED <<calls, bridge, conn, pc, todo, broker, history>>
        /\ rtype' \in [Dev -> DeviceType \cup {None}]
        /\ \A e \in Dev : rtype[e] # None => rtype'[e] # None
        /\ known' \in [Dev -> BOOLEAN] /\ \A e \in Dev : known'[e] => known[e]
        /\ value' \in [Dev -> Value \cup {None}]
    <3>1. CASE Reidentify(d)
      <4>1. PICK t \in Type :
              /\ rtype' = [rtype EXCEPT ![d] = t]
              /\ value' = [value EXCEPT ![d] = IF t = rtype[d] THEN value[d] ELSE None]
        BY <3>1, Zenon DEF Reidentify
      <4>2. QED
        BY <3>1, <4>1, NoneIsNothing DEF Reidentify, TypeOK, DeviceType
    <3>2. CASE Decode(d)
      BY <3>2 DEF Decode, TypeOK
    <3>3. CASE Remove(d)
      BY <3>3 DEF Remove, TypeOK
    <3>4. QED
      BY <1>4, <3>1, <3>2, <3>3
  <2>3. TypeOK'
    BY <2>1, <2>2 DEF TypeOK, bridge, conn, broker, history
  <2>4. QED
    BY <1>1, <2>2, <2>3 DEF ThreadsFit, PahoIdle
<1>5. ASSUME NEW t \in Thread, Work(t) PROVE TypeOK' /\ ThreadsFit'
  <2>1. PICK d \in Dev, l \in Local :
          /\ pc[t].dev = d /\ rtype[d] \in DeviceType
          /\ pc' = [pc EXCEPT ![t] = l] /\ InHand(t, l) /\ l.dev \in {d, None}
          /\ l.at \notin {"identify", "list"} /\ (t = "paho" => l.at # "idle")
          /\ UNCHANGED <<hub, bus, calls, conn, todo, history>>
          /\ advertised' \in SUBSET (Dev \X DeviceType)
          /\ portions' \in [Dev -> Number \cup {0}]
          /\ config' \in [Dev -> SUBSET Entity]
          /\ avail' \in [Dev -> {None, "online", "offline"}]
          /\ state' \in [Dev -> StateMessage \cup {None}]
          /\ number' \in [Dev -> Number \cup {None}]
    BY <1>5, WorkStep, Zenon
  <2>2. /\ pc' \in [Thread -> Local] /\ \A u \in Thread : InHand(u, pc'[u])
        /\ pc'[t] = l /\ \A u \in Thread \ {t} : pc'[u] = pc[u]
    BY <1>1, <2>1, PcStep
  <2>3. TypeOK'
    BY <2>1, <2>2 DEF TypeOK, hub, bus, conn, history
  <2>4. \A e \in Dev : Dealt(e)' => Dealt(e)
    BY <1>1, <2>1, <2>2 DEF Thread, hub
  <2>5. PahoIdle' => todo' = {}
    BY <1>1, <2>1, <2>2 DEF ThreadsFit, PahoIdle
  <2>6. QED
    BY <1>1, <2>1, <2>2, <2>3, <2>4, <2>5 DEF ThreadsFit, hub
<1>6. ASSUME Consume PROVE TypeOK' /\ ThreadsFit'
  <2>1. /\ queue # <<>> /\ queue \in Seq(Event) /\ queue' = Tail(queue)
        /\ UNCHANGED <<missed, hub, calls, bridge, conn, todo, config, state, number, misfed>>
    BY <1>6 DEF Consume, ConsumeChanged, ConsumeGone, ConsumeOther, TypeOK, broker, history
  <2>2. PICK e \in Event : e = Head(queue)
    BY <2>1, HeadTailProperties
  <2>3. queue' \in Seq(Event) /\ Len(queue') <= QueueMax
    <3>1. /\ Tail(queue) \in Seq(Event) /\ Len(Tail(queue)) = Len(queue) - 1
          /\ Len(queue) \in Nat /\ Len(queue) <= QueueMax
      BY <2>1, HeadTailProperties, LenProperties DEF TypeOK
    <3>2. QED
      BY <2>1, <3>1, BoundsAssumption
  <2>4. e.dev \in Dev
    BY DEF Event
  <2>5. /\ avail' \in [Dev -> {None, "online", "offline"}] /\ orphans' \in SUBSET Dev
    <3>1. CASE UNCHANGED <<avail, orphans>>
      BY <3>1 DEF TypeOK
    <3>2. CASE /\ avail' = Retain(avail, e.dev, "offline")
               /\ orphans' = IF link THEN orphans \ {e.dev} ELSE orphans \cup {e.dev}
      <4>1. avail' \in [Dev -> {None, "online", "offline"}]
        BY <2>4, <3>2, RetainType DEF TypeOK
      <4>2. orphans' \in SUBSET Dev
        BY <2>4, <3>2 DEF TypeOK
      <4>3. QED
        BY <4>1, <4>2
    <3>3. QED
      BY <1>6, <2>2, <3>1, <3>2
      DEF Consume, ConsumeChanged, ConsumeGone, ConsumeOther, broker, history
  <2>6. \/ UNCHANGED pc
        \/ known[e.dev] /\ pc' = [pc EXCEPT !["loop"] = At("check", e.dev)]
    BY <1>6, <2>2 DEF Consume, ConsumeChanged, ConsumeGone, ConsumeOther
  <2>7. /\ pc' \in [Thread -> Local] /\ \A t \in Thread : InHand(t, pc'[t])
        /\ pc'["paho"] = pc["paho"]
        /\ \A d \in Dev : pc'["loop"].dev = d => pc["loop"].dev = d \/ known[d]
    <3>1. CASE UNCHANGED pc
      BY <1>1, <3>1
    <3>2. CASE known[e.dev] /\ pc' = [pc EXCEPT !["loop"] = At("check", e.dev)]
      <4>1. /\ At("check", e.dev) \in Local /\ InHand("loop", At("check", e.dev))
            /\ At("check", e.dev).dev = e.dev
        BY <2>4, AtInHand
      <4>2. QED
        BY <1>1, <3>2, <4>1, PcStep
    <3>3. QED
      BY <2>6, <3>1, <3>2
  <2>8. TypeOK'
    BY <2>1, <2>3, <2>5, <2>7 DEF TypeOK, hub, bridge, conn
  <2>9. \A d \in Dev : Dealt(d)' => Dealt(d)
    BY <2>1, <2>7 DEF hub
  <2>10. QED
    BY <1>1, <2>1, <2>7, <2>8, <2>9 DEF ThreadsFit, PahoIdle, hub
<1>7. ASSUME RunCommand PROVE TypeOK' /\ ThreadsFit'
  <2>1. /\ calls # <<>> /\ calls \in Seq(Call) /\ calls' = Tail(calls)
        /\ UNCHANGED <<hub, bus, advertised, conn, pc, todo, config, avail, state, orphans>>
    BY <1>7 DEF RunCommand, TypeOK
  <2>2. PICK c \in Call : c = Head(calls)
    BY <2>1, HeadTailProperties
  <2>3. c.dev \in Dev /\ c.number \in Payload
    BY DEF Call
  <2>4. Clamp(c.number) \in Number
    BY <2>3, BoundsAssumption DEF Clamp, Number, Payload, Junk
  <2>5. calls' \in Seq(Call)
    BY <2>1, HeadTailProperties
  <2>6. /\ portions' \in [Dev -> Number \cup {0}] /\ number' \in [Dev -> Number \cup {None}]
        /\ misfed' \in BOOLEAN
    <3>1. CASE SetPortions(c.dev, c.number) /\ UNCHANGED misfed
      BY <2>3, <2>4, <3>1, RetainType DEF SetPortions, TypeOK
    <3>2. CASE UNCHANGED <<portions, number, misfed>>
      BY <3>2 DEF TypeOK
    <3>3. CASE misfed' \in BOOLEAN /\ UNCHANGED <<portions, number>>
      BY <3>3 DEF TypeOK
    <3>4. misfed \in BOOLEAN
      BY DEF TypeOK
    <3>5. \/ SetPortions(c.dev, c.number) /\ UNCHANGED misfed
          \/ UNCHANGED <<portions, number, misfed>>
          \/ misfed' \in BOOLEAN /\ UNCHANGED <<portions, number>>
      BY <1>7, <2>2, <3>4 DEF RunCommand
    <3>6. QED
      BY <3>1, <3>2, <3>3, <3>5
  <2>7. TypeOK'
    BY <2>1, <2>5, <2>6 DEF TypeOK, hub, bus, conn
  <2>8. QED
    BY <1>1, <2>1, <2>7 DEF ThreadsFit, PahoIdle, hub
<1>8. ASSUME NEW d \in Dev, Receive(d) PROVE TypeOK' /\ ThreadsFit'
  <2>1. /\ calls' \in Seq(Call)
        /\ UNCHANGED <<hub, bus, bridge, conn, pc, todo, broker, history>>
    <3>1. PICK c \in Call : calls' = Append(calls, c)
      <4>1. [kind : {"portions"}, dev : {d}, number : Payload] \subseteq Call
        BY DEF Call
      <4>2. [kind : {"feed"}, dev : {d}, number : {Junk}] \subseteq Call
        BY DEF Call, Payload
      <4>3. QED
        BY <1>8, <4>1, <4>2 DEF Receive
    <3>2. QED
      BY <1>8, <3>1, AppendProperties DEF Receive, TypeOK
  <2>2. QED
    BY <1>1, <2>1 DEF TypeOK, ThreadsFit, PahoIdle, hub, bus, bridge, conn, broker, history
<1>9. ASSUME Connect \/ List \/ NextListed PROVE TypeOK' /\ ThreadsFit'
  <2>1. pc["paho"] \in Local /\ InHand("paho", pc["paho"])
    BY <1>1
  <2>2. /\ UNCHANGED <<hub, bus, calls, bridge, broker, history>>
        /\ link' \in BOOLEAN /\ faults' \in 0..MaxFaults /\ UNCHANGED restarts
    <3>1. link \in BOOLEAN /\ faults \in 0..MaxFaults
      BY DEF TypeOK
    <3>2. CASE Connect
      <4>1. /\ UNCHANGED <<hub, bus, calls, bridge, broker, history, restarts>>
            /\ \/ link' = TRUE /\ faults' = faults
               \/ link' = link /\ faults < MaxFaults /\ faults' = faults + 1
        BY <3>2 DEF Connect
      <4>2. link' \in BOOLEAN
        BY <3>1, <4>1
      <4>3. faults' \in 0..MaxFaults
        BY <3>1, <4>1, BoundsAssumption
      <4>4. QED
        BY <4>1, <4>2, <4>3
    <3>3. CASE List
      BY <3>1, <3>3 DEF List, conn
    <3>4. CASE NextListed
      BY <3>1, <3>4 DEF NextListed, conn
    <3>5. QED
      BY <1>9, <3>2, <3>3, <3>4
  <2>3. PICK l \in Local :
          /\ InHand("paho", l) /\ pc' = [pc EXCEPT !["paho"] = l]
          /\ \A d \in Dev : l.dev = d => Dealt(d)
          /\ todo' \in SUBSET Dev /\ \A d \in todo' : Dealt(d)
          /\ l.at = "idle" => todo' = {}
    <3>1. CASE Connect
      <4>1. pc' = [pc EXCEPT !["paho"] = [pc["paho"] EXCEPT !.at = "list"]] /\ todo' = todo
        BY <3>1, Zenon DEF Connect, Goto
      <4>2. /\ [pc["paho"] EXCEPT !.at = "list"] \in Local
            /\ InHand("paho", [pc["paho"] EXCEPT !.at = "list"])
            /\ [pc["paho"] EXCEPT !.at = "list"].dev = pc["paho"].dev
            /\ [pc["paho"] EXCEPT !.at = "list"].at # "idle"
        BY <2>1 DEF Local, InHand
      <4>3. todo \in SUBSET Dev
        BY DEF TypeOK
      <4>4. QED
        BY <4>1, <4>2, <4>3
    <3>2. CASE List
      <4>1. /\ pc' = [pc EXCEPT !["paho"] = [pc["paho"] EXCEPT !.at = "next"]]
            /\ todo' = {d \in Dev : known[d]}
        BY <3>2, Zenon DEF List, Goto
      <4>2. /\ [pc["paho"] EXCEPT !.at = "next"] \in Local
            /\ InHand("paho", [pc["paho"] EXCEPT !.at = "next"])
            /\ [pc["paho"] EXCEPT !.at = "next"].dev = pc["paho"].dev
            /\ [pc["paho"] EXCEPT !.at = "next"].at # "idle"
        BY <2>1 DEF Local, InHand
      <4>3. QED
        BY <4>1, <4>2
    <3>3. CASE NextListed
      <4>1. CASE todo = {} /\ pc' = [pc EXCEPT !["paho"] = Idle] /\ UNCHANGED todo
        BY <1>1, <4>1, IdleInHand
      <4>2. ASSUME NEW d \in todo, todo' = todo \ {d},
                   pc' = [pc EXCEPT !["paho"] = At("check", d)]
            PROVE  \E l \in Local :
                     /\ InHand("paho", l) /\ pc' = [pc EXCEPT !["paho"] = l]
                     /\ \A e \in Dev : l.dev = e => Dealt(e)
                     /\ todo' \in SUBSET Dev /\ \A e \in todo' : Dealt(e)
                     /\ l.at = "idle" => todo' = {}
        <5>1. todo \in SUBSET Dev
          BY DEF TypeOK
        <5>2. /\ At("check", d) \in Local /\ InHand("paho", At("check", d))
              /\ At("check", d).dev = d /\ At("check", d).at # "idle"
          BY <4>2, <5>1, AtInHand
        <5>3. QED
          BY <4>2, <5>1, <5>2
      <4>3. QED
        BY <3>3, <4>1, <4>2 DEF NextListed
    <3>4. QED
      BY <1>9, <3>1, <3>2, <3>3
  <2>4. /\ pc' \in [Thread -> Local] /\ \A t \in Thread : InHand(t, pc'[t])
        /\ pc'["paho"] = l /\ pc'["loop"] = pc["loop"]
    BY <1>1, <2>3, PcStep
  <2>5. TypeOK'
    BY <2>2, <2>3, <2>4 DEF TypeOK, hub, bus, bridge, broker, history
  <2>6. \A d \in Dev : Dealt(d)' => Dealt(d)
    BY <2>2, <2>3, <2>4 DEF hub
  <2>7. QED
    BY <1>1, <2>2, <2>3, <2>4, <2>5, <2>6 DEF ThreadsFit, PahoIdle, hub
<1>10. ASSUME LinkLost PROVE TypeOK' /\ ThreadsFit'
  <2>1. /\ UNCHANGED <<hub, bus, calls, bridge, restarts, pc, todo, broker, history>>
        /\ link' = FALSE /\ faults' \in 0..MaxFaults
    BY <1>10, BoundsAssumption DEF LinkLost, TypeOK
  <2>2. QED
    BY <1>1, <2>1 DEF TypeOK, ThreadsFit, PahoIdle, hub, bus, bridge, broker, history
<1>11. ASSUME Restart PROVE TypeOK' /\ ThreadsFit'
  <2>1. /\ \A d \in Dev : known'[d] = FALSE
        /\ todo' = {} /\ pc' = [t \in Thread |-> Idle]
    BY <1>11 DEF Restart
  <2>2. pc' \in [Thread -> Local] /\ \A t \in Thread : InHand(t, pc'[t]) /\ pc'[t].dev = None
    BY <2>1, IdleInHand
  <2>3. TypeOK'
    <3>1. /\ known' \in [Dev -> BOOLEAN] /\ rtype' \in [Dev -> DeviceType \cup {None}]
          /\ value' \in [Dev -> Value \cup {None}]
      BY <1>11 DEF Restart
    <3>2. /\ queue' \in Seq(Event) /\ Len(queue') <= QueueMax /\ missed' \in SUBSET Dev
          /\ calls' \in Seq(Call)
      BY <1>11, BoundsAssumption, EmptySeq DEF Restart
    <3>3. /\ advertised' \in SUBSET (Dev \X DeviceType)
          /\ portions' \in [Dev -> Number \cup {0}]
          /\ orphans' \in SUBSET Dev
      BY <1>11 DEF Restart, TypeOK
    <3>4. link' \in BOOLEAN /\ faults' \in 0..MaxFaults /\ restarts' \in 0..MaxRestarts
      BY <1>11, BoundsAssumption DEF Restart, TypeOK
    <3>5. UNCHANGED <<config, avail, state, number, misfed>>
      BY <1>11 DEF Restart, broker
    <3>6. QED
      BY <2>1, <2>2, <3>1, <3>2, <3>3, <3>4, <3>5 DEF TypeOK
  <2>4. QED
    BY <1>1, <2>1, <2>2, <2>3 DEF ThreadsFit
<1>12. ASSUME UNCHANGED vars PROVE TypeOK' /\ ThreadsFit'
  BY <1>1, <1>12 DEF vars, TypeOK, ThreadsFit, PahoIdle, hub, bus, bridge, conn, broker, history
<1>13. QED
  BY <1>2, <1>3, <1>4, <1>5, <1>6, <1>7, <1>8, <1>9, <1>10, <1>11, <1>12 DEF Next

LEMMA TypesInit == Init => TypeOK /\ ThreadsFit
<1> SUFFICES ASSUME Init PROVE TypeOK /\ ThreadsFit
  OBVIOUS
<1>1. /\ pc \in [Thread -> Local] /\ \A t \in Thread : InHand(t, pc[t]) /\ pc[t].dev = None
  BY IdleInHand DEF Init
<1>2. TypeOK
  <2>1. /\ known \in [Dev -> BOOLEAN] /\ rtype \in [Dev -> DeviceType \cup {None}]
        /\ value \in [Dev -> Value \cup {None}]
        /\ advertised \in SUBSET (Dev \X DeviceType) /\ portions \in [Dev -> Number \cup {0}]
        /\ missed \in SUBSET Dev /\ todo \in SUBSET Dev /\ orphans \in SUBSET Dev
        /\ misfed \in BOOLEAN
    BY DEF Init
  <2> queue \in Seq(Event) /\ calls \in Seq(Call)
    BY EmptySeq DEF Init
  <2>2. /\ Len(queue) <= QueueMax /\ link \in BOOLEAN
        /\ faults \in 0..MaxFaults /\ restarts \in 0..MaxRestarts
    <3>1. Len(queue) = 0 /\ link = StartsUp /\ faults = 0 /\ restarts = 0
      BY DEF Init
    <3>2. 0 <= QueueMax /\ 0 \in 0..MaxFaults /\ 0 \in 0..MaxRestarts
      BY BoundsAssumption
    <3>3. QED
      BY <3>1, <3>2, BoundsAssumption
  <2>3. /\ config \in [Dev -> SUBSET Entity] /\ avail \in [Dev -> {None, "online", "offline"}]
        /\ state \in [Dev -> StateMessage \cup {None}]
        /\ number \in [Dev -> Number \cup {None}]
    BY DEF Init
  <2>4. QED
    BY <1>1, <2>1, <2>2, <2>3 DEF TypeOK
<1>3. QED
  BY <1>1, <1>2, NoneIsNothing DEF Init, ThreadsFit, Handled

-----------------------------------------------------------------------------
(* Availability, with both threads and a broker that comes and goes. *)

\* While the link is up, a thread that works on a device gets it online.
LEMMA WorkGetsOnline ==
  ASSUME TypeOK, ThreadsFit, NEW t \in Thread, Work(t)
  PROVE  /\ UNCHANGED <<known, queue, missed, link, todo>>
         /\ \A u \in Thread \ {t} : pc'[u] = pc[u]
         /\ \A e \in Dev : link /\ avail[e] = "online" => avail'[e] = "online"
         /\ \A e \in Dev : link /\ Doing(t, Advertising \cup {"online"}, e) =>
              avail'[e] = "online" \/ Doing(t, Advertising \cup {"online"}, e)'
<1>1. /\ pc \in [Thread -> Local] /\ InHand(t, pc[t]) /\ avail \in [Dev -> {None, "online", "offline"}]
      /\ pc[t].at \in {"check", "discover", "number", "mark", "online", "mirror"}
      /\ UNCHANGED <<known, queue, missed, link, todo>>
  BY DEF Work, TypeOK, ThreadsFit, hub, bus, conn
<1>2. PICK d \in Dev : d = pc[t].dev
  BY <1>1 DEF InHand
<1>3. /\ \A u \in Thread \ {t} : pc'[u] = pc[u]
      /\ avail' = avail \/ avail' = Retain(avail, d, "online")
      /\ \/ pc[t].at = "mirror"
         \/ pc'[t].dev = d /\ pc'[t].at \in Advertising \cup {"online"}
         \/ avail' = Retain(avail, d, "online")
  <2>1. CASE pc[t].at = "check" /\ Check(t, d)
    <3>1. \/ pc' = [pc EXCEPT ![t] = [pc[t] EXCEPT !.at = "online"]]
          \/ pc' = [pc EXCEPT ![t] = [pc[t] EXCEPT !.at = "discover", !.key = rtype[d]]]
      BY <2>1, Zenon DEF Check, Goto
    <3>2. avail' = avail
      BY <2>1 DEF Check, broker
    <3>3. CASE pc' = [pc EXCEPT ![t] = [pc[t] EXCEPT !.at = "online"]]
      BY <1>1, <1>2, <3>2, <3>3 DEF Advertising, Local
    <3>4. CASE pc' = [pc EXCEPT ![t] = [pc[t] EXCEPT !.at = "discover", !.key = rtype[d]]]
      <4>1. /\ pc'[t] = [pc[t] EXCEPT !.at = "discover", !.key = rtype[d]]
            /\ \A u \in Thread \ {t} : pc'[u] = pc[u]
        BY <1>1, <3>4
      <4>2. pc'[t].dev = d /\ pc'[t].at = "discover"
        BY <1>1, <1>2, <4>1 DEF Local
      <4>3. QED
        BY <3>2, <4>1, <4>2 DEF Advertising
    <3>5. QED
      BY <3>1, <3>3, <3>4
  <2>2. CASE pc[t].at = "discover" /\ Discover(t, d)
    BY <1>1, <1>2, <2>2 DEF Discover, Goto, Advertising, Local
  <2>3. CASE pc[t].at = "number" /\ SeedNumber(t, d)
    BY <1>1, <1>2, <2>3 DEF SeedNumber, broker, Advertising, Local
  <2>4. CASE pc[t].at = "mark" /\ Mark(t, d)
    BY <1>1, <1>2, <2>4, AtInHand DEF Mark, Advertising
  <2>5. CASE pc[t].at = "online" /\ Online(t, d)
    BY <1>1, <1>2, <2>5 DEF Online
  <2>6. CASE pc[t].at = "mirror" /\ Mirror(t, d)
    BY <1>1, <1>2, <2>6 DEF Mirror, Done
  <2>7. QED
    BY <1>2, <2>1, <2>2, <2>3, <2>4, <2>5, <2>6 DEF Work
<1>4. link /\ avail' = Retain(avail, d, "online") =>
        avail'[d] = "online" /\ \A e \in Dev \ {d} : avail'[e] = avail[e]
  BY <1>1 DEF Retain
<1>5. \A e \in Dev : link /\ avail[e] = "online" => avail'[e] = "online"
  BY <1>3, <1>4
<1>6. ASSUME NEW e \in Dev, link, Doing(t, Advertising \cup {"online"}, e)
      PROVE  avail'[e] = "online" \/ Doing(t, Advertising \cup {"online"}, e)'
  <2>1. e = d /\ pc[t].at # "mirror"
    BY <1>2, <1>6 DEF Doing, Advertising
  <2>2. QED
    BY <1>3, <1>4, <1>6, <2>1 DEF Doing
<1>7. QED
  BY <1>1, <1>3, <1>5, <1>6

\* Other devices than d are as they were: the hub's news of d leaves them alone.
LEMMA NewsOfAnother ==
  ASSUME IInv, NEW d \in Dev, NEW k \in {"connected", "changed", "gone"}, Publish(k, d),
         ~Doing("loop", Advertising \cup {"online"}, d) \/ pc'["loop"] = pc["loop"],
         pc["loop"].at \in {"idle", "identify"},
         pc["loop"].at = "identify" => pc["loop"].dev = d,
         pc'["paho"] = pc["paho"], UNCHANGED <<link, avail, todo>>,
         NEW e \in Dev \ {d}, e \notin missed', known'[e] = known[e], known[e]
  PROVE  /\ Waits(queue', "gone", e) => Expected(e)'
         /\ link' => \/ avail'[e] = "online" \/ Expected(e)'
                     \/ \E t \in Thread : Doing(t, Advertising \cup {"online"}, e)'
                     \/ pc'["paho"].at = "list" \/ e \in todo'
<1>1. /\ e \notin missed
      /\ Waits(queue', "gone", e) => Waits(queue, "gone", e)
      /\ Renewed(queue, e) => Renewed(queue', e)
  BY PublishEffect DEF IInv
<1>2. Expected(e) => Expected(e)'
  BY <1>1 DEF Expected, Doing
<1>3. Waits(queue', "gone", e) => Expected(e)'
  BY <1>1, <1>2 DEF IInv, GoneIsNotLast
<1>4. \A t \in Thread : Doing(t, Advertising \cup {"online"}, e) =>
                          Doing(t, Advertising \cup {"online"}, e)'
  BY DEF Doing, Advertising, Thread
<1>5. QED
  BY <1>1, <1>2, <1>3, <1>4 DEF IInv, OnlineIsAhead

\* The news of a device and the state of the broker agree after every step.
LEMMA NewsStep == IInv /\ [Next]_vars => GoneIsNotLast' /\ OnlineIsAhead'
<1> SUFFICES ASSUME IInv, [Next]_vars,
                    NEW e \in Dev, e \notin missed', known'[e]
             PROVE  /\ Waits(queue', "gone", e) => Expected(e)'
                    /\ link' => \/ avail'[e] = "online" \/ Expected(e)'
                                \/ \E t \in Thread : Doing(t, Advertising \cup {"online"}, e)'
                                \/ pc'["paho"].at = "list" \/ e \in todo'
  BY DEF GoneIsNotLast, OnlineIsAhead
<1> DEFINE Fine == /\ Waits(queue', "gone", e) => Expected(e)'
                   /\ link' => \/ avail'[e] = "online" \/ Expected(e)'
                               \/ \E t \in Thread : Doing(t, Advertising \cup {"online"}, e)'
                               \/ pc'["paho"].at = "list" \/ e \in todo'
<1>1. TypeOK /\ ThreadsFit /\ "loop" \in Thread /\ "paho" \in Thread
      /\ pc \in [Thread -> Local]
  BY DEF IInv, TypeOK, Thread
<1>2. /\ e \notin missed /\ known[e] /\ Waits(queue, "gone", e) => Expected(e)
      /\ e \notin missed /\ known[e] /\ link =>
           \/ avail[e] = "online" \/ Expected(e)
           \/ \E t \in Thread : Doing(t, Advertising \cup {"online"}, e)
           \/ pc["paho"].at = "list" \/ e \in todo
  BY DEF IInv, GoneIsNotLast, OnlineIsAhead
<1>3. LoopIdle => ~Doing("loop", {"identify"}, e) /\ ~Doing("loop", Advertising \cup {"online"}, e)
  BY DEF LoopIdle, Doing, Advertising
<1>4. ASSUME NEW d \in Dev, Attach(d) PROVE Fine
  <2>1. /\ pc'["loop"] = At("identify", d) /\ pc'["paho"] = pc["paho"]
        /\ UNCHANGED <<link, avail, todo>> /\ Publish("connected", d) /\ LoopIdle
    BY <1>1, <1>4 DEF Attach, conn, broker
  <2>2. CASE e = d
    <3>1. Doing("loop", {"identify"}, e)'
      BY <2>1, <2>2, AtInHand DEF Doing
    <3>2. QED
      BY <3>1 DEF Expected
  <2>3. CASE e # d
    <3>1. known'[e] = known[e]
      BY <1>1, <1>4, <2>3 DEF Attach, TypeOK
    <3>2. ~Doing("loop", Advertising \cup {"online"}, d) /\ pc["loop"].at = "idle"
      BY <2>1 DEF LoopIdle, Doing, Advertising
    <3>3. QED
      BY <2>1, <2>3, <3>1, <3>2, NewsOfAnother
  <2>4. QED
    BY <2>2, <2>3
<1>5. ASSUME NEW d \in Dev, Identify(d) PROVE Fine
  <2>1. /\ pc'["loop"] = Idle /\ pc'["paho"] = pc["paho"]
        /\ pc["loop"].at = "identify" /\ pc["loop"].dev = d
        /\ UNCHANGED <<known, link, avail, todo>> /\ Publish("changed", d)
    BY <1>1, <1>5 DEF Identify, conn, broker
  <2>2. CASE e = d
    <3>1. Renewed(queue', e)
      BY <1>1, <2>1, <2>2, PublishEffect
    <3>2. QED
      BY <3>1 DEF Expected
  <2>3. CASE e # d
    <3>1. ~Doing("loop", Advertising \cup {"online"}, d)
      BY <2>1 DEF Doing, Advertising
    <3>2. QED
      BY <2>1, <2>3, <3>1, NewsOfAnother
  <2>4. QED
    BY <2>2, <2>3
<1>6. ASSUME NEW d \in Dev, Reidentify(d) \/ Decode(d) PROVE Fine
  <2>1. /\ UNCHANGED <<known, link, avail, todo, pc>> /\ Publish("changed", d) /\ LoopIdle
    BY <1>6 DEF Reidentify, Decode, conn, broker
  <2>2. CASE e = d
    <3>1. Renewed(queue', e)
      BY <1>1, <2>1, <2>2, PublishEffect
    <3>2. QED
      BY <3>1 DEF Expected
  <2>3. CASE e # d
    BY <2>1, <2>3, NewsOfAnother DEF LoopIdle
  <2>4. QED
    BY <2>2, <2>3
<1>7. ASSUME NEW d \in Dev, Remove(d) PROVE Fine
  <2>1. /\ UNCHANGED <<link, avail, todo, pc>> /\ Publish("gone", d) /\ LoopIdle
        /\ known' = [known EXCEPT ![d] = FALSE] /\ known \in [Dev -> BOOLEAN]
    BY <1>1, <1>7 DEF Remove, conn, broker, TypeOK
  <2>2. e # d /\ known'[e] = known[e]
    BY <2>1
  <2>3. QED
    BY <2>1, <2>2, NewsOfAnother DEF LoopIdle
<1>8. ASSUME NEW t \in Thread, Work(t) PROVE Fine
  <2>1. /\ UNCHANGED <<known, queue, missed, link, todo>>
        /\ \A u \in Thread \ {t} : pc'[u] = pc[u]
        /\ link /\ avail[e] = "online" => avail'[e] = "online"
        /\ link /\ Doing(t, Advertising \cup {"online"}, e) =>
             avail'[e] = "online" \/ Doing(t, Advertising \cup {"online"}, e)'
    BY <1>1, <1>8, WorkGetsOnline
  <2>2. pc[t].at \notin {"identify", "list"}
    BY <1>8 DEF Work
  <2>3. Expected(e) => Expected(e)'
    <3>1. Doing("loop", {"identify"}, e) => t # "loop"
      BY <2>2 DEF Doing
    <3>2. QED
      BY <1>1, <2>1, <3>1 DEF Expected, Doing
  <2>4. pc["paho"].at = "list" => pc'["paho"].at = "list"
    BY <1>1, <2>1, <2>2
  <2>5. \A u \in Thread \ {t} : Doing(u, Advertising \cup {"online"}, e) =>
                                  Doing(u, Advertising \cup {"online"}, e)'
    BY <2>1 DEF Doing
  <2>6. QED
    BY <1>2, <1>8, <2>1, <2>3, <2>4, <2>5
<1>9. ASSUME Consume PROVE Fine
  <2>1. /\ LoopIdle /\ queue # <<>> /\ queue \in Seq(Event) /\ queue' = Tail(queue)
        /\ UNCHANGED <<missed, known, link, todo>> /\ pc'["paho"] = pc["paho"]
    <3>1. CASE ConsumeChanged
      BY <1>1, <3>1 DEF ConsumeChanged, hub, conn, TypeOK
    <3>2. CASE ConsumeGone
      BY <1>1, <3>2 DEF ConsumeGone, hub, conn, TypeOK
    <3>3. CASE ConsumeOther
      BY <1>1, <3>3 DEF ConsumeOther, hub, conn, TypeOK
    <3>4. QED
      BY <1>9, <3>1, <3>2, <3>3 DEF Consume
  <2>2. PICK h \in Event : h = Head(queue)
    BY <2>1, HeadTailProperties
  <2>3. /\ \A k : Waits(queue, k, e) <=> Waits(queue', k, e) \/ Says(h, k, e)
        /\ Renewed(queue, e) =>
             Renewed(queue', e) \/ (Says(h, "changed", e) /\ ~Waits(queue', "gone", e))
    BY <2>1, <2>2, QueueTail
  <2>4. Expected(e) <=> Renewed(queue, e)
    BY <1>3, <2>1 DEF Expected
  <2>5. Renewed(queue', e) => Expected(e)'
    BY DEF Expected
  <2>6. Waits(queue', "gone", e) => Renewed(queue', e)
    BY <1>2, <2>1, <2>3, <2>4
  <2>7. \A t \in Thread : Doing(t, Advertising \cup {"online"}, e) =>
                            Doing(t, Advertising \cup {"online"}, e)'
    BY <1>3, <2>1 DEF Doing, Thread
  <2>8. Says(h, "changed", e) => Doing("loop", Advertising \cup {"online"}, e)'
    <3>1. SUFFICES ASSUME Says(h, "changed", e) PROVE Doing("loop", Advertising \cup {"online"}, e)'
      OBVIOUS
    <3>2. pc' = [pc EXCEPT !["loop"] = At("check", e)]
      BY <1>9, <2>1, <2>2, <3>1
      DEF Says, Consume, ConsumeChanged, ConsumeGone, ConsumeOther
    <3>3. QED
      BY <1>1, <3>2, AtInHand DEF Doing, Advertising
  <2>9. avail'[e] = avail[e] \/ Says(h, "gone", e)
    <3>1. CASE avail' = avail
      BY <3>1
    <3>2. CASE ConsumeGone
      BY <1>1, <2>2, <3>2 DEF ConsumeGone, Retain, Says, TypeOK, Event
    <3>3. QED
      BY <1>9, <3>1, <3>2 DEF Consume, ConsumeChanged, ConsumeOther, broker
  <2>10. Says(h, "gone", e) => Renewed(queue', e)
    BY <1>2, <2>1, <2>3, <2>4 DEF Says
  <2>11. ASSUME link'
         PROVE  \/ avail'[e] = "online" \/ Expected(e)'
                \/ \E t \in Thread : Doing(t, Advertising \cup {"online"}, e)'
                \/ pc'["paho"].at = "list" \/ e \in todo'
    <3>1. \/ avail[e] = "online" \/ Renewed(queue, e)
          \/ \E t \in Thread : Doing(t, Advertising \cup {"online"}, e)
          \/ pc["paho"].at = "list" \/ e \in todo
      BY <1>2, <2>1, <2>4, <2>11
    <3>2. CASE Says(h, "changed", e)
      BY <1>1, <2>8, <3>2
    <3>3. CASE Says(h, "gone", e)
      BY <2>5, <2>10, <3>3
    <3>4. CASE ~Says(h, "changed", e) /\ ~Says(h, "gone", e)
      BY <2>1, <2>3, <2>5, <2>7, <2>9, <3>1, <3>4
    <3>5. QED
      BY <3>2, <3>3, <3>4
  <2>12. QED
    BY <2>5, <2>6, <2>11
<1>10. ASSUME UNCHANGED <<known, queue, missed, link, avail, pc, todo>> PROVE Fine
  BY <1>2, <1>10 DEF Expected, Doing
<1>11. ASSUME Connect PROVE Fine
  <2>1. /\ UNCHANGED <<known, queue, missed>> /\ pc'["loop"] = pc["loop"]
        /\ pc'["paho"].at = "list"
    BY <1>1, <1>11 DEF Connect, Goto, hub, bus, Local
  <2>2. QED
    BY <1>2, <2>1 DEF Expected, Doing
<1>12. ASSUME LinkLost PROVE Fine
  BY <1>2, <1>12 DEF LinkLost, Expected, Doing, hub, bus
<1>13. ASSUME List PROVE Fine
  <2>1. /\ UNCHANGED <<known, queue, missed>> /\ pc'["loop"] = pc["loop"] /\ e \in todo'
    BY <1>1, <1>13 DEF List, Goto, hub, bus
  <2>2. QED
    BY <1>2, <2>1 DEF Expected, Doing
<1>14. ASSUME NextListed PROVE Fine
  <2>1. /\ UNCHANGED <<known, queue, missed, link, avail>> /\ pc'["loop"] = pc["loop"]
        /\ pc["paho"].at = "next"
    BY <1>1, <1>14 DEF NextListed, hub, bus, conn, broker
  <2>2. e \in todo => e \in todo' \/ Doing("paho", Advertising \cup {"online"}, e)'
    BY <1>1, <1>14, AtInHand DEF NextListed, Doing, Advertising, TypeOK
  <2>3. ~Doing("paho", Advertising \cup {"online"}, e)
    BY <2>1 DEF Doing, Advertising
  <2>4. Expected(e) <=> Expected(e)'
    BY <2>1 DEF Expected, Doing
  <2>5. Doing("loop", Advertising \cup {"online"}, e) =>
          Doing("loop", Advertising \cup {"online"}, e)'
    BY <2>1 DEF Doing
  <2>6. QED
    BY <1>1, <1>2, <2>1, <2>2, <2>3, <2>4, <2>5 DEF Thread
<1>15. ASSUME Restart PROVE Fine
  BY <1>15 DEF Restart
<1>16. ASSUME RunCommand \/ \E d \in Dev : Receive(d) PROVE Fine
  BY <1>10, <1>16 DEF RunCommand, Receive, hub, bus, conn, broker
<1>17. ASSUME UNCHANGED vars PROVE Fine
  BY <1>10, <1>17 DEF vars, hub, bus, conn, broker
<1>18. QED
  BY <1>4, <1>5, <1>6, <1>7, <1>8, <1>9, <1>11, <1>12, <1>13, <1>14, <1>15, <1>16, <1>17 DEF Next

LEMMA NewsInit == Init => GoneIsNotLast /\ OnlineIsAhead
BY DEF Init, GoneIsNotLast, OnlineIsAhead

\* Types, what is in hand, and the way to "online", whatever the broker, the hub
\* and both threads do (ha_mqtt.py:368-477).
THEOREM BridgeInv == Spec => []IInv
<1>1. Init => IInv
  BY TypesInit, NewsInit DEF IInv
<1>2. IInv /\ [Next]_vars => IInv'
  BY TypesStep, NewsStep DEF IInv
<1>3. QED
  BY <1>1, <1>2, PTL DEF Spec

\* The type of every variable: numbers that are shown and dispensed stay in the
\* feeder's range, the queue within its capacity (ha_mqtt.py:428-433, hub.py:251).
THEOREM BridgeTypes == Spec => []TypeOK
<1>1. IInv => TypeOK
  BY DEF IInv
<1>2. QED
  BY <1>1, BridgeInv, PTL

\* A device the hub knows is online once all is quiet, for any number of devices,
\* faults, refusals and restarts, both threads running (ha_mqtt.py:398-405, 437-453).
THEOREM KnownIsOnline == Spec => []OnlineWhenQuiet
<1>1. ASSUME IInv PROVE OnlineWhenQuiet
  <2> SUFFICES ASSUME Quiet, NEW d \in Dev, d \notin missed, known[d]
               PROVE  avail[d] = "online"
    BY DEF OnlineWhenQuiet
  <2>1. /\ queue = <<>> /\ LoopIdle /\ PahoIdle /\ link /\ todo = {}
    BY <1>1 DEF Quiet, IInv, ThreadsFit
  <2>2. ~Expected(d)
    BY <2>1, NothingWaits DEF Expected, Doing, LoopIdle
  <2>3. \A t \in Thread : ~Doing(t, Advertising \cup {"online"}, d)
    BY <2>1 DEF Doing, Advertising, LoopIdle, PahoIdle, Thread
  <2>4. QED
    BY <1>1, <2>1, <2>2, <2>3 DEF IInv, OnlineIsAhead, PahoIdle
<1>2. QED
  BY <1>1, BridgeInv, PTL

-----------------------------------------------------------------------------
(* The loop alone: the broker stays connected. *)

\* The hub publishes news of d; what is so of other devices stays.
LEMMA HubNews ==
  ASSUME TypeOK, LoopInv, NEW d \in Dev, NEW k \in {"connected", "changed", "gone"},
         Publish(k, d), UNCHANGED <<bridge, link, broker, history>>,
         pc["loop"].at \in {"idle", "identify"},
         pc["loop"].at = "identify" => pc["loop"].dev = d,
         pc'["loop"].at \in {"idle", "identify"},
         pc'["loop"].at # "idle" => known'[pc'["loop"].dev],
         pc'["paho"] = pc["paho"],
         \A e \in Dev \ {d} : known'[e] = known[e] /\ rtype'[e] = rtype[e] /\ value'[e] = value[e],
         d \notin missed' => IF known'[d] THEN Heard(d)' ELSE Waits(queue', "gone", d)
  PROVE  LoopInv'
<1> USE DEF LoopInv
<1>1. \A e \in Dev : \A j : Waits(queue, j, e) => Waits(queue', j, e)
  BY PublishEffect
<1>2. /\ UNCHANGED <<advertised, portions, link, config, avail, state, number, orphans, misfed>>
      /\ \A e \in Dev \ {d} : e \notin missed' => e \notin missed
  BY PublishEffect DEF bridge, broker, history
<1>3. \A e \in Dev \ {d} : Heard(e) => Heard(e)'
  BY <1>1 DEF Heard, Doing
<1>4. \A e \in Dev : ~Doing("loop", Advertising, e) /\ ~Doing("loop", {"mark"}, e)
                     /\ ~Doing("loop", Advertising \cup {"online", "mirror"}, e)
  BY DEF Doing, Advertising
<1>5. LoopIsAlone'
  BY <1>2 DEF LoopIsAlone, PahoIdle, LoopIdle
<1>6. GoneIsAhead'
  BY <1>1, <1>2 DEF GoneIsAhead
<1>7. AdvertisedIsAhead'
  <2>1. ASSUME NEW e \in Dev, e \notin missed', known'[e]
        PROVE  Heard(e)' \/ Doing("loop", Advertising, e)' \/ Key(e)' \in advertised'
    <3>1. CASE e = d
      BY <2>1, <3>1
    <3>2. CASE e # d
      <4>1. Heard(e) \/ Key(e) \in advertised
        BY <1>2, <1>4, <2>1, <3>2 DEF AdvertisedIsAhead
      <4>2. Key(e)' = Key(e)
        BY <3>2 DEF Key
      <4>3. QED
        BY <1>2, <1>3, <3>2, <4>1, <4>2
    <3>3. QED
      BY <3>1, <3>2
  <2>2. QED
    BY <1>2, <2>1 DEF AdvertisedIsAhead
<1>8. StateIsAhead'
  <2>1. ASSUME NEW e \in Dev, e \notin missed', known'[e]
        PROVE  \/ Heard(e)' \/ Doing("loop", Advertising \cup {"online", "mirror"}, e)'
               \/ state'[e] = StatePayload(e)'
    <3>1. CASE e = d
      BY <2>1, <3>1
    <3>2. CASE e # d
      <4>1. Heard(e) \/ state[e] = StatePayload(e)
        BY <1>2, <1>4, <2>1, <3>2 DEF StateIsAhead
      <4>2. StatePayload(e)' = StatePayload(e)
        BY <3>2 DEF StatePayload
      <4>3. QED
        BY <1>2, <1>3, <3>2, <4>1, <4>2
    <3>3. QED
      BY <3>1, <3>2
  <2>2. QED
    BY <2>1 DEF StateIsAhead
<1>9. NumberIsAhead'
  BY <1>2, <1>4 DEF NumberIsAhead
<1>10. QED
  BY <1>2, <1>5, <1>6, <1>7, <1>8, <1>9

\* The loop's step on d leaves what is so of other devices.
LEMMA LoopFrame ==
  ASSUME TypeOK, LoopInv, NEW d \in Dev, known[d],
         pc["loop"].dev = d, pc["loop"].at \notin {"idle", "identify"},
         UNCHANGED <<known, rtype, value, queue, missed, orphans, misfed>>,
         \A e \in Dev \ {d} :
           /\ config'[e] = config[e] /\ avail'[e] = avail[e]
           /\ state'[e] = state[e] /\ number'[e] = number[e] /\ portions'[e] = portions[e]
           /\ \A t \in DeviceType : <<e, t>> \in advertised' <=> <<e, t>> \in advertised,
         LoopIsAlone',
         \A t \in DeviceType : <<d, t>> \in advertised' =>
           Announced(t) \subseteq config'[d] /\ portions'[d] # 0,
         d \notin missed =>
           Heard(d) \/ Doing("loop", Advertising, d)' \/ Key(d) \in advertised',
         d \notin missed =>
           \/ Heard(d) \/ Doing("loop", Advertising \cup {"online", "mirror"}, d)'
           \/ state'[d] = StatePayload(d),
         portions'[d] # 0 => portions'[d] = number'[d] \/ Doing("loop", {"mark"}, d)'
  PROVE  LoopInv'
<1> USE DEF LoopInv
<1>1. \A e \in Dev : /\ Heard(e) => Heard(e)'
                     /\ StatePayload(e)' = StatePayload(e) /\ Key(e)' = Key(e)
                     /\ known[e] => rtype[e] \in DeviceType \cup {None}
  BY DEF Heard, Doing, StatePayload, Key, TypeOK
<1>2. \A e \in Dev \ {d} : /\ ~Doing("loop", Advertising, e) /\ ~Doing("loop", {"mark"}, e)
                           /\ ~Doing("loop", Advertising \cup {"online", "mirror"}, e)
  BY DEF Doing
<1>3. GoneIsAhead'
  <2>1. ASSUME NEW e \in Dev, e \notin missed', e \notin orphans', ~known'[e], avail'[e] = "online"
        PROVE  Waits(queue', "gone", e)
    <3>1. e # d
      BY <2>1
    <3>2. QED
      BY <2>1, <3>1 DEF GoneIsAhead
  <2>2. QED
    BY <2>1 DEF GoneIsAhead
<1>4. AdvertisedIsAhead'
  <2>1. ASSUME NEW e \in Dev, NEW t \in DeviceType, <<e, t>> \in advertised'
        PROVE  Announced(t) \subseteq config'[e] /\ portions'[e] # 0
    <3>1. CASE e = d
      BY <2>1, <3>1
    <3>2. CASE e # d
      BY <2>1, <3>2 DEF AdvertisedIsAhead
    <3>3. QED
      BY <3>1, <3>2
  <2>2. ASSUME NEW e \in Dev, e \notin missed', known'[e]
        PROVE  Heard(e)' \/ Doing("loop", Advertising, e)' \/ Key(e)' \in advertised'
    <3>1. CASE e = d
      BY <1>1, <2>2, <3>1
    <3>2. CASE e # d
      <4>1. Heard(e) \/ <<e, rtype[e]>> \in advertised
        BY <1>2, <2>2, <3>2 DEF AdvertisedIsAhead, Key
      <4>2. <<e, rtype[e]>> \in advertised => rtype[e] \in DeviceType
        BY DEF TypeOK
      <4>3. <<e, rtype[e]>> \in advertised => <<e, rtype[e]>> \in advertised'
        BY <3>2, <4>2
      <4>4. QED
        BY <1>1, <4>1, <4>3 DEF Key
    <3>3. QED
      BY <3>1, <3>2
  <2>3. QED
    BY <2>1, <2>2 DEF AdvertisedIsAhead
<1>5. StateIsAhead'
  <2>1. ASSUME NEW e \in Dev, e \notin missed', known'[e]
        PROVE  \/ Heard(e)' \/ Doing("loop", Advertising \cup {"online", "mirror"}, e)'
               \/ state'[e] = StatePayload(e)'
    <3>1. CASE e = d
      BY <1>1, <2>1, <3>1
    <3>2. CASE e # d
      <4>1. e \notin missed /\ known[e] /\ state'[e] = state[e]
        BY <2>1, <3>2
      <4>2. Heard(e) \/ state[e] = StatePayload(e)
        BY <1>2, <3>2, <4>1 DEF StateIsAhead
      <4>3. QED
        BY <1>1, <4>1, <4>2
    <3>3. QED
      BY <3>1, <3>2
  <2>2. QED
    BY <2>1 DEF StateIsAhead
<1>6. NumberIsAhead'
  <2>1. ASSUME NEW e \in Dev, portions'[e] # 0
        PROVE  portions'[e] = number'[e] \/ Doing("loop", {"mark"}, e)'
    <3>1. CASE e = d
      BY <2>1, <3>1
    <3>2. CASE e # d
      BY <1>2, <2>1, <3>2 DEF NumberIsAhead
    <3>3. QED
      BY <3>1, <3>2
  <2>2. QED
    BY <2>1 DEF NumberIsAhead
<1>7. QED
  BY <1>3, <1>4, <1>5, <1>6

\* A step of the loop through _advertise or _publish_state uses what it read
\* before anything has changed.
LEMMA LoopWorks ==
  ASSUME TypeOK, ThreadsFit, LoopInv, Work("loop")
  PROVE  LoopInv'
<1>1. /\ pc \in [Thread -> Local] /\ pc["loop"] \in Local /\ "loop" \in Thread /\ "paho" \in Thread
      /\ pc["loop"].at \in {"check", "discover", "number", "mark", "online", "mirror"}
      /\ InHand("loop", pc["loop"])
      /\ UNCHANGED <<known, rtype, value, queue, missed, link, orphans, misfed>>
  BY DEF Work, TypeOK, ThreadsFit, Thread, hub, bus, conn, history
<1>2. PICK d \in Dev : d = pc["loop"].dev
  BY <1>1 DEF InHand
<1>3. /\ link /\ known[d] /\ pc["paho"].at = "idle"
      /\ pc["loop"].at \in {"discover", "number", "mark"} => pc["loop"].key = rtype[d]
      /\ pc["loop"].at \in {"number", "mark"} => Announced(rtype[d]) \subseteq config[d]
      /\ pc["loop"].at = "mark" => pc["loop"].seed = portions[d] /\ pc["loop"].seed # 0
      /\ pc["loop"].at = "mirror" => pc["loop"].payload = StatePayload(d)
  BY <1>1, <1>2 DEF LoopInv, LoopIsAlone, LoopIdle, PahoIdle, InHand
<1>4. /\ config \in [Dev -> SUBSET Entity] /\ avail \in [Dev -> {None, "online", "offline"}]
      /\ state \in [Dev -> StateMessage \cup {None}] /\ number \in [Dev -> Number \cup {None}]
      /\ portions \in [Dev -> Number \cup {0}]
  BY DEF TypeOK
<1>5. rtype[d] \in DeviceType
  BY <1>1, <1>2, <1>3 DEF ThreadsFit, Handled, TypeOK
<1>6. StatePayload(d)' = StatePayload(d)
  BY <1>1 DEF StatePayload
<1>7. /\ \A t \in DeviceType : <<d, t>> \in advertised =>
           Announced(t) \subseteq config[d] /\ portions[d] # 0
      /\ d \notin missed =>
           Heard(d) \/ Doing("loop", Advertising, d) \/ Key(d) \in advertised
      /\ pc["loop"].at # "mark" /\ portions[d] # 0 => portions[d] = number[d]
  BY <1>2, <1>3 DEF LoopInv, AdvertisedIsAhead, NumberIsAhead, Doing
<1>8. CASE pc["loop"].at = "check" /\ Check("loop", d)
  <2>1. UNCHANGED <<advertised, portions, config, avail, state, number>>
    BY <1>8 DEF Check, bridge, broker
  <2>2. CASE Key(d) \in advertised
    <3>1. pc' = [pc EXCEPT !["loop"] = [pc["loop"] EXCEPT !.at = "online"]]
      BY <1>8, <2>2, Zenon DEF Check, Goto
    <3>2. pc'["loop"].at = "online" /\ pc'["loop"].dev = d /\ pc'["paho"] = pc["paho"]
      BY <1>1, <1>2, <3>1 DEF Local
    <3>3. LoopIsAlone'
      BY <1>1, <1>3, <3>2 DEF LoopIsAlone, LoopIdle, PahoIdle
    <3>4. Doing("loop", Advertising \cup {"online", "mirror"}, d)'
      BY <3>2 DEF Doing
    <3>5. QED
      BY <1>1, <1>2, <1>3, <1>7, <1>8, <2>1, <2>2, <3>3, <3>4, LoopFrame
  <2>3. CASE Key(d) \notin advertised
    <3>1. pc' = [pc EXCEPT !["loop"] = [pc["loop"] EXCEPT !.at = "discover", !.key = rtype[d]]]
      BY <1>8, <2>3, Zenon DEF Check
    <3>2. /\ pc'["loop"] = [pc["loop"] EXCEPT !.at = "discover", !.key = rtype[d]]
          /\ pc'["paho"] = pc["paho"]
      BY <1>1, <3>1
    <3>3. pc'["loop"].at = "discover" /\ pc'["loop"].dev = d /\ pc'["loop"].key = rtype[d]
      BY <1>1, <1>2, <3>2 DEF Local
    <3>4. LoopIsAlone'
      BY <1>1, <1>3, <3>2, <3>3 DEF LoopIsAlone, LoopIdle, PahoIdle
    <3>5. Doing("loop", Advertising, d)' /\ Doing("loop", Advertising \cup {"online", "mirror"}, d)'
      BY <3>3 DEF Doing, Advertising
    <3>6. QED
      BY <1>1, <1>2, <1>3, <1>7, <1>8, <2>1, <3>4, <3>5, LoopFrame
  <2>4. QED
    BY <2>2, <2>3
<1>9. CASE pc["loop"].at = "discover" /\ Discover("loop", d)
  <2>1. /\ UNCHANGED <<advertised, portions, state, number>>
        /\ config' = [config EXCEPT ![d] = config[d] \cup Announced(rtype[d])]
        /\ avail' = [avail EXCEPT ![d] = "online"]
    BY <1>3, <1>9 DEF Discover, Retain, bridge
  <2>2. /\ config'[d] = config[d] \cup Announced(rtype[d])
        /\ \A e \in Dev \ {d} : config'[e] = config[e] /\ avail'[e] = avail[e]
    BY <1>4, <2>1
  <2>3. pc' = [pc EXCEPT !["loop"] = [pc["loop"] EXCEPT !.at = "number"]]
    BY <1>9, Zenon DEF Discover, Goto
  <2>4. /\ pc'["loop"].at = "number" /\ pc'["loop"].dev = d /\ pc'["loop"].key = rtype[d]
        /\ pc'["paho"] = pc["paho"]
    BY <1>1, <1>2, <1>3, <1>9, <2>3 DEF Local
  <2>5. LoopIsAlone'
    BY <1>1, <1>3, <2>2, <2>4 DEF LoopIsAlone, LoopIdle, PahoIdle
  <2>6. Doing("loop", Advertising, d)' /\ Doing("loop", Advertising \cup {"online", "mirror"}, d)'
    BY <2>4 DEF Doing, Advertising
  <2>7. \A t \in DeviceType : <<d, t>> \in advertised' =>
          Announced(t) \subseteq config'[d] /\ portions'[d] # 0
    BY <1>7, <2>1, <2>2
  <2>8. QED
    BY <1>1, <1>2, <1>3, <1>7, <1>9, <2>1, <2>2, <2>5, <2>6, <2>7, LoopFrame
<1>10. CASE pc["loop"].at = "number" /\ SeedNumber("loop", d)
  <2>1. /\ UNCHANGED <<advertised, config, avail, state, number>>
        /\ portions' = [portions EXCEPT ![d] = IF portions[d] = 0 THEN 1 ELSE portions[d]]
    BY <1>10 DEF SeedNumber, broker
  <2>2. /\ portions'[d] # 0 /\ portions[d] # 0 => portions'[d] = portions[d]
        /\ \A e \in Dev \ {d} : portions'[e] = portions[e]
    BY <1>4, <2>1
  <2>3. pc' = [pc EXCEPT !["loop"] = [pc["loop"] EXCEPT !.at = "mark", !.seed = portions'[d]]]
    BY <1>10, Zenon DEF SeedNumber
  <2>4. /\ pc'["loop"] = [pc["loop"] EXCEPT !.at = "mark", !.seed = portions'[d]]
        /\ pc'["paho"] = pc["paho"]
    BY <1>1, <2>3
  <2>5. /\ pc'["loop"].at = "mark" /\ pc'["loop"].dev = d /\ pc'["loop"].key = rtype[d]
        /\ pc'["loop"].seed = portions'[d]
    BY <1>1, <1>2, <1>3, <1>10, <2>4 DEF Local
  <2>6. LoopIsAlone'
    BY <1>1, <1>3, <1>10, <2>1, <2>4, <2>5 DEF LoopIsAlone, LoopIdle, PahoIdle
  <2>7. /\ Doing("loop", Advertising, d)' /\ Doing("loop", Advertising \cup {"online", "mirror"}, d)'
        /\ Doing("loop", {"mark"}, d)'
    BY <2>5 DEF Doing, Advertising
  <2>8. QED
    BY <1>1, <1>2, <1>3, <1>7, <1>10, <2>1, <2>2, <2>6, <2>7, LoopFrame
<1>11. CASE pc["loop"].at = "mark" /\ Mark("loop", d)
  <2>1. /\ UNCHANGED <<portions, config, avail, state>>
        /\ number' = [number EXCEPT ![d] = portions[d]] /\ portions[d] # 0
        /\ advertised' = advertised \cup {<<d, rtype[d]>>}
    BY <1>3, <1>11 DEF Mark, Retain
  <2>2. /\ number'[d] = portions[d] /\ Key(d) \in advertised'
        /\ \A e \in Dev \ {d} :
             /\ number'[e] = number[e]
             /\ \A t \in DeviceType : <<e, t>> \in advertised' <=> <<e, t>> \in advertised
    BY <1>4, <2>1 DEF Key
  <2>3. pc' = [pc EXCEPT !["loop"] = At("online", d)]
    BY <1>11 DEF Mark
  <2>4. pc'["loop"].at = "online" /\ pc'["loop"].dev = d /\ pc'["paho"] = pc["paho"]
    BY <1>1, <2>3, AtInHand
  <2>5. LoopIsAlone'
    BY <1>1, <1>3, <2>4 DEF LoopIsAlone, LoopIdle, PahoIdle
  <2>6. Doing("loop", Advertising \cup {"online", "mirror"}, d)'
    BY <2>4 DEF Doing
  <2>7. \A t \in DeviceType : <<d, t>> \in advertised' =>
          Announced(t) \subseteq config'[d] /\ portions'[d] # 0
    BY <1>3, <1>7, <1>11, <2>1
  <2>8. QED
    BY <1>1, <1>2, <1>3, <1>11, <2>1, <2>2, <2>5, <2>6, <2>7, LoopFrame
<1>12. CASE pc["loop"].at = "online" /\ Online("loop", d)
  <2>1. /\ UNCHANGED <<advertised, portions, config, state, number>>
        /\ avail' = [avail EXCEPT ![d] = "online"]
    BY <1>3, <1>12 DEF Online, Retain, bridge
  <2>2. \A e \in Dev \ {d} : avail'[e] = avail[e]
    BY <1>4, <2>1
  <2>3. pc' = [pc EXCEPT !["loop"] = [pc["loop"] EXCEPT !.at = "mirror", !.payload = StatePayload(d)]]
    BY <1>12, Zenon DEF Online
  <2>4. /\ pc'["loop"] = [pc["loop"] EXCEPT !.at = "mirror", !.payload = StatePayload(d)]
        /\ pc'["paho"] = pc["paho"]
    BY <1>1, <2>3
  <2>5. /\ pc'["loop"].at = "mirror" /\ pc'["loop"].dev = d
        /\ pc'["loop"].payload = StatePayload(d)
    BY <1>1, <1>2, <2>4 DEF Local
  <2>6. LoopIsAlone'
    BY <1>1, <1>3, <1>6, <2>4, <2>5 DEF LoopIsAlone, LoopIdle, PahoIdle
  <2>7. Doing("loop", Advertising \cup {"online", "mirror"}, d)'
    BY <2>5 DEF Doing
  <2>8. ~Doing("loop", Advertising, d)
    BY <1>12 DEF Doing, Advertising
  <2>9. QED
    BY <1>1, <1>2, <1>3, <1>7, <1>12, <2>1, <2>2, <2>6, <2>7, <2>8, LoopFrame
<1>13. CASE pc["loop"].at = "mirror" /\ Mirror("loop", d)
  <2>1. /\ UNCHANGED <<advertised, portions, config, avail, number>>
        /\ state' = [state EXCEPT ![d] = StatePayload(d)]
    BY <1>3, <1>13 DEF Mirror, Retain, bridge
  <2>2. state'[d] = StatePayload(d) /\ \A e \in Dev \ {d} : state'[e] = state[e]
    BY <1>4, <2>1
  <2>3. pc' = [pc EXCEPT !["loop"] = Idle]
    BY <1>13 DEF Mirror, Done
  <2>4. pc'["loop"].at = "idle" /\ pc'["paho"] = pc["paho"]
    BY <1>1, <2>3 DEF Idle
  <2>5. LoopIsAlone'
    BY <1>1, <1>3, <2>4 DEF LoopIsAlone, LoopIdle, PahoIdle
  <2>6. ~Doing("loop", Advertising, d)
    BY <1>13 DEF Doing, Advertising
  <2>7. QED
    BY <1>1, <1>2, <1>3, <1>7, <1>13, <2>1, <2>2, <2>5, <2>6, LoopFrame
<1>14. QED
  BY <1>2, <1>8, <1>9, <1>10, <1>11, <1>12, <1>13 DEF Work

\* The loop reads an event.
LEMMA LoopConsumes ==
  ASSUME TypeOK, LoopInv, Consume
  PROVE  LoopInv'
<1>1. /\ queue # <<>> /\ queue \in Seq(Event) /\ queue' = Tail(queue)
      /\ UNCHANGED <<missed, known, rtype, value, link, advertised, portions,
                     config, state, number, misfed>>
  <2>1. CASE ConsumeChanged
    BY <2>1 DEF ConsumeChanged, hub, conn, bridge, broker, history, TypeOK
  <2>2. CASE ConsumeGone
    BY <2>2 DEF ConsumeGone, hub, conn, bridge, TypeOK
  <2>3. CASE ConsumeOther
    BY <2>3 DEF ConsumeOther, hub, conn, bridge, broker, history, TypeOK
  <2>4. QED
    BY <2>1, <2>2, <2>3 DEF Consume
<1>2. LoopIdle /\ PahoIdle /\ link /\ pc \in [Thread -> Local] /\ "loop" \in Thread /\ "paho" \in Thread
  BY DEF LoopInv, LoopIsAlone, Consume, ConsumeChanged, ConsumeGone, ConsumeOther, TypeOK, Thread
<1>3. PICK h \in Event : h = Head(queue)
  BY <1>1, HeadTailProperties
<1>4. \A e \in Dev : \A k : Waits(queue, k, e) <=> Waits(queue', k, e) \/ Says(h, k, e)
  BY <1>1, <1>3, QueueTail
<1>5. h.dev \in Dev /\ \A k, e : Says(h, k, e) <=> h.kind = k /\ e = h.dev
  BY DEF Says, Event
<1>6. \A e \in Dev : /\ ~Doing("loop", Advertising, e) /\ ~Doing("loop", {"mark"}, e)
                     /\ ~Doing("loop", Advertising \cup {"online", "mirror"}, e)
                     /\ Heard(e) <=> Waits(queue, "changed", e)
                     /\ Waits(queue', "changed", e) => Heard(e)'
                     /\ StatePayload(e)' = StatePayload(e) /\ Key(e)' = Key(e)
  BY <1>1, <1>2 DEF Doing, Advertising, LoopIdle, Heard, StatePayload, Key
\* To read that a known device has changed is to look at it.
<1>7. /\ pc'["paho"] = pc["paho"]
      /\ \/ pc'["loop"] = pc["loop"]
         \/ pc'["loop"].at = "check" /\ known[pc'["loop"].dev]
      /\ h.kind = "changed" /\ known[h.dev] => pc'["loop"].at = "check" /\ pc'["loop"].dev = h.dev
  <2>1. CASE h.kind = "changed" /\ known[h.dev]
    <3>1. pc' = [pc EXCEPT !["loop"] = At("check", h.dev)]
      BY <1>3, <2>1 DEF Consume, ConsumeChanged, ConsumeGone, ConsumeOther
    <3>2. QED
      BY <1>2, <1>5, <2>1, <3>1, AtInHand
  <2>2. CASE ~(h.kind = "changed" /\ known[h.dev])
    BY <1>3, <2>2 DEF Consume, ConsumeChanged, ConsumeGone, ConsumeOther
  <2>3. QED
    BY <2>1, <2>2
<1>8. LoopIsAlone'
  BY <1>1, <1>2, <1>7 DEF LoopIsAlone, LoopIdle, PahoIdle
<1>9. GoneIsAhead'
  <2> SUFFICES ASSUME NEW e \in Dev, e \notin missed', e \notin orphans', ~known'[e],
                      avail'[e] = "online"
               PROVE  Waits(queue', "gone", e)
    BY DEF GoneIsAhead
  <2>1. CASE UNCHANGED <<avail, orphans>> /\ h.kind # "gone"
    BY <1>1, <1>4, <1>5, <2>1 DEF LoopInv, GoneIsAhead
  <2>2. CASE ConsumeGone
    <3>1. avail' = [avail EXCEPT ![h.dev] = "offline"] /\ orphans' = orphans \ {h.dev}
      BY <1>2, <1>3, <2>2 DEF ConsumeGone, Retain
    <3>2. e # h.dev /\ avail[e] = "online" /\ e \notin orphans
      BY <3>1 DEF TypeOK
    <3>3. QED
      BY <1>1, <1>4, <1>5, <3>2 DEF LoopInv, GoneIsAhead
  <2>3. QED
    BY <1>3, <2>1, <2>2 DEF Consume, ConsumeChanged, ConsumeOther, broker, history
<1>10. ASSUME NEW e \in Dev, known[e], Heard(e)
       PROVE  Heard(e)' \/ (Doing("loop", Advertising, e)'
                            /\ Doing("loop", Advertising \cup {"online", "mirror"}, e)')
  <2>1. CASE Says(h, "changed", e)
    <3>1. pc'["loop"].at = "check" /\ pc'["loop"].dev = e
      BY <1>5, <1>7, <1>10, <2>1
    <3>2. QED
      BY <3>1 DEF Doing, Advertising
  <2>2. CASE ~Says(h, "changed", e)
    BY <1>4, <1>6, <1>10, <2>2
  <2>3. QED
    BY <2>1, <2>2
<1>11. AdvertisedIsAhead'
  <2>1. ASSUME NEW e \in Dev, e \notin missed', known'[e]
        PROVE  Heard(e)' \/ Doing("loop", Advertising, e)' \/ Key(e)' \in advertised'
    <3>1. Heard(e) \/ Key(e) \in advertised
      BY <1>1, <1>6, <2>1 DEF LoopInv, AdvertisedIsAhead
    <3>2. QED
      BY <1>1, <1>6, <1>10, <2>1, <3>1
  <2>2. QED
    BY <1>1, <2>1 DEF LoopInv, AdvertisedIsAhead
<1>12. StateIsAhead'
  <2>1. ASSUME NEW e \in Dev, e \notin missed', known'[e]
        PROVE  \/ Heard(e)' \/ Doing("loop", Advertising \cup {"online", "mirror"}, e)'
               \/ state'[e] = StatePayload(e)'
    <3>1. Heard(e) \/ state[e] = StatePayload(e)
      BY <1>1, <1>6, <2>1 DEF LoopInv, StateIsAhead
    <3>2. QED
      BY <1>1, <1>6, <1>10, <2>1, <3>1
  <2>2. QED
    BY <2>1 DEF StateIsAhead
<1>13. NumberIsAhead'
  BY <1>1, <1>6 DEF LoopInv, NumberIsAhead
<1>14. QED
  BY <1>1, <1>8, <1>9, <1>11, <1>12, <1>13 DEF LoopInv

\* The loop runs a command: what it sets, it shows.
LEMMA LoopCommands ==
  ASSUME TypeOK, LoopInv, RunCommand
  PROVE  LoopInv'
<1>1. /\ LoopIdle /\ calls # <<>> /\ calls \in Seq(Call) /\ link
      /\ UNCHANGED <<known, rtype, value, queue, missed, advertised, link, pc,
                     config, avail, state, orphans>>
  BY DEF RunCommand, LoopInv, LoopIsAlone, TypeOK, hub, bus, conn
<1>2. PICK c \in Call : c = Head(calls)
  BY <1>1, HeadTailProperties
<1>3. c.dev \in Dev /\ c.number \in Payload
  BY DEF Call
<1>4. \A e \in Dev : /\ Heard(e)' <=> Heard(e)
                     /\ StatePayload(e)' = StatePayload(e) /\ Key(e)' = Key(e)
                     /\ \A steps : Doing("loop", steps, e)' <=> Doing("loop", steps, e)
                     /\ ~Doing("loop", {"mark"}, e)
  BY <1>1 DEF Doing, Heard, StatePayload, Key, LoopIdle
<1>5. /\ \A e \in Dev : portions[e] # 0 => portions[e] = number[e]
      /\ portions \in [Dev -> Number \cup {0}] /\ number \in [Dev -> Number \cup {None}]
  BY <1>4 DEF LoopInv, NumberIsAhead, TypeOK
<1>6. /\ \A e \in Dev : portions'[e] # 0 => portions'[e] = number'[e]
      /\ \A e \in Dev : portions[e] # 0 => portions'[e] # 0
      /\ ~misfed'
  <2>1. CASE c.kind = "portions" /\ known[c.dev] /\ c.number # Junk
    <3>1. UNCHANGED misfed /\ SetPortions(c.dev, c.number)
      BY <1>2, <2>1 DEF RunCommand
    <3>2. /\ portions' = [portions EXCEPT ![c.dev] = Clamp(c.number)]
          /\ number' = [number EXCEPT ![c.dev] = Clamp(c.number)]
      BY <1>1, <3>1 DEF SetPortions, Retain
    <3>3. Clamp(c.number) # 0
      BY <1>3, <2>1, BoundsAssumption DEF Clamp, Payload
    <3>4. QED
      BY <1>3, <1>5, <3>1, <3>2, <3>3 DEF LoopInv
  <2>2. CASE c.kind = "portions" /\ ~(known[c.dev] /\ c.number # Junk)
    <3>1. UNCHANGED <<portions, number, misfed>>
      BY <1>2, <2>2 DEF RunCommand
    <3>2. QED
      BY <1>5, <3>1 DEF LoopInv
  <2>3. CASE c.kind = "feed"
    <3>1. UNCHANGED <<portions, number>>
      BY <1>2, <2>3 DEF RunCommand
    <3>2. misfed' = (misfed \/ (Feeds(c.dev) /\ portions[c.dev] # 0 /\ NextFeed(c.dev) # number[c.dev]))
      BY <1>2, <2>3 DEF RunCommand
    <3>3. portions[c.dev] # 0 => NextFeed(c.dev) = number[c.dev]
      BY <1>3, <1>5 DEF NextFeed
    <3>4. QED
      BY <1>5, <3>1, <3>2, <3>3 DEF LoopInv
  <2>4. QED
    BY <1>2, <2>1, <2>2, <2>3 DEF RunCommand
<1>7. LoopIsAlone'
  <2>1. pc' = pc /\ pc["loop"].at = "idle"
    BY <1>1 DEF LoopIdle
  <2>2. QED
    BY <1>1, <2>1 DEF LoopInv, LoopIsAlone, LoopIdle, PahoIdle
<1>8. GoneIsAhead'
  BY <1>1 DEF LoopInv, GoneIsAhead
<1>9. AdvertisedIsAhead'
  BY <1>1, <1>4, <1>6 DEF LoopInv, AdvertisedIsAhead
<1>10. StateIsAhead'
  BY <1>1, <1>4 DEF LoopInv, StateIsAhead
<1>11. NumberIsAhead'
  BY <1>6 DEF NumberIsAhead
<1>12. QED
  BY <1>6, <1>7, <1>8, <1>9, <1>10, <1>11 DEF LoopInv

\* The process is started again; the broker is there.
LEMMA LoopRestarts ==
  ASSUME TypeOK, LoopInv, Restart, link'
  PROVE  LoopInv'
<1>1. /\ \A e \in Dev : ~known'[e] /\ portions'[e] = 0
      /\ advertised' = {} /\ misfed' = misfed /\ avail' = avail
      /\ orphans' = orphans \cup {d \in Dev : avail[d] = "online"}
  BY DEF Restart, broker
<1>2. pc'["loop"].at = "idle" /\ pc'["paho"].at = "idle"
  BY DEF Restart, Idle, Thread
<1>3. LoopIsAlone'
  BY <1>1, <1>2 DEF LoopIsAlone, LoopIdle, PahoIdle
<1>4. GoneIsAhead' /\ AdvertisedIsAhead' /\ StateIsAhead' /\ NumberIsAhead'
  BY <1>1 DEF GoneIsAhead, AdvertisedIsAhead, StateIsAhead, NumberIsAhead
<1>5. QED
  BY <1>1, <1>3, <1>4 DEF LoopInv

LEMMA LoopStep ==
  ASSUME IInv, LoopInv, link', [Next]_vars
  PROVE  LoopInv'
<1>1. /\ TypeOK /\ ThreadsFit /\ "loop" \in Thread /\ "paho" \in Thread
      /\ pc \in [Thread -> Local] /\ known \in [Dev -> BOOLEAN]
      /\ rtype \in [Dev -> DeviceType \cup {None}] /\ value \in [Dev -> Value \cup {None}]
  BY DEF IInv, TypeOK, Thread
<1>2. link /\ pc["paho"].at = "idle"
  BY DEF LoopInv, LoopIsAlone, PahoIdle
<1>3. ASSUME NEW d \in Dev, Attach(d) PROVE LoopInv'
  <2>1. /\ Publish("connected", d) /\ pc["loop"].at = "idle"
        /\ pc' = [pc EXCEPT !["loop"] = At("identify", d)]
        /\ known' = [known EXCEPT ![d] = TRUE]
        /\ rtype' = [rtype EXCEPT ![d] = "unidentified"]
        /\ value' = [value EXCEPT ![d] = None]
        /\ UNCHANGED <<bridge, link, broker, history>>
    BY <1>3 DEF Attach, LoopIdle, conn
  <2>2. pc'["loop"].at = "identify" /\ pc'["loop"].dev = d /\ pc'["paho"] = pc["paho"]
    BY <1>1, <2>1, AtInHand
  <2>3. known'[d] /\ Heard(d)'
    BY <1>1, <2>1, <2>2 DEF Heard, Doing
  <2>4. \A e \in Dev \ {d} : known'[e] = known[e] /\ rtype'[e] = rtype[e] /\ value'[e] = value[e]
    BY <1>1, <2>1
  <2>5. QED
    BY <1>1, <2>1, <2>2, <2>3, <2>4, HubNews
<1>4. ASSUME NEW d \in Dev, Identify(d) \/ Reidentify(d) \/ Decode(d) PROVE LoopInv'
  <2>1. /\ Publish("changed", d) /\ pc["loop"].at \in {"idle", "identify"}
        /\ pc["loop"].at = "identify" => pc["loop"].dev = d
        /\ pc'["loop"].at = "idle" /\ pc'["paho"] = pc["paho"]
        /\ UNCHANGED <<known, bridge, link, broker, history>>
    <3>1. CASE Identify(d)
      BY <1>1, <3>1 DEF Identify, Idle, conn
    <3>2. CASE Reidentify(d)
      BY <3>2 DEF Reidentify, LoopIdle, conn
    <3>3. CASE Decode(d)
      BY <3>3 DEF Decode, LoopIdle, conn
    <3>4. QED
      BY <1>4, <3>1, <3>2, <3>3
  <2>2. known[d]
    BY <1>4 DEF Identify, Reidentify, Decode, LoopInv, LoopIsAlone, LoopIdle
  <2>3. \A e \in Dev \ {d} : rtype'[e] = rtype[e] /\ value'[e] = value[e]
    BY <1>1, <1>4 DEF Identify, Reidentify, Decode
  <2>4. d \notin missed' => Heard(d)'
    BY <1>1, <2>1, PublishEffect DEF Heard
  <2>5. QED
    BY <1>1, <2>1, <2>2, <2>3, <2>4, HubNews
<1>5. ASSUME NEW d \in Dev, Remove(d) PROVE LoopInv'
  <2>1. /\ Publish("gone", d) /\ pc["loop"].at = "idle"
        /\ known' = [known EXCEPT ![d] = FALSE]
        /\ UNCHANGED <<rtype, value, pc, bridge, link, broker, history>>
    BY <1>5 DEF Remove, LoopIdle, conn
  <2>2. ~known'[d] /\ \A e \in Dev \ {d} : known'[e] = known[e]
    BY <1>1, <2>1
  <2>3. d \notin missed' => Waits(queue', "gone", d)
    BY <1>1, <2>1, PublishEffect
  <2>4. QED
    BY <1>1, <2>1, <2>2, <2>3, HubNews
\* Paho's thread has nothing to do: the link is up, and has been from the start.
<1>6. ASSUME NEW t \in Thread, Work(t) PROVE LoopInv'
  <2>1. t # "paho"
    BY <1>2, <1>6 DEF Work
  <2>2. QED
    BY <1>1, <1>6, <2>1, LoopWorks DEF Thread
<1>7. ~Connect /\ ~LinkLost /\ ~List /\ ~NextListed
  BY <1>2 DEF Connect, LinkLost, List, NextListed
<1>8. ASSUME UNCHANGED <<hub, bus, bridge, link, pc, broker, history>> PROVE LoopInv'
  BY <1>8
  DEF hub, bus, bridge, broker, history, LoopInv, LoopIsAlone, GoneIsAhead, AdvertisedIsAhead,
      StateIsAhead, NumberIsAhead, Heard, Doing, Key, StatePayload, PahoIdle, LoopIdle
<1>9. ASSUME NEW d \in Dev, Receive(d) PROVE LoopInv'
  BY <1>8, <1>9 DEF Receive, conn
<1>10. ASSUME UNCHANGED vars PROVE LoopInv'
  BY <1>8, <1>10 DEF vars, conn
<1>11. QED
  BY <1>1, <1>3, <1>4, <1>5, <1>6, <1>7, <1>9, <1>10, LoopConsumes, LoopCommands, LoopRestarts
  DEF Next

LEMMA LoopInit == ASSUME Init, link PROVE LoopInv
<1>1. /\ \A d \in Dev : ~known[d] /\ portions[d] = 0 /\ avail[d] = None
      /\ advertised = {} /\ ~misfed
      /\ pc["loop"].at = "idle" /\ pc["paho"].at = "idle"
  BY DEF Init, Idle, Thread
<1>2. LoopIsAlone
  BY <1>1 DEF LoopIsAlone, LoopIdle, PahoIdle
<1>3. GoneIsAhead
  BY <1>1, NoneIsNothing DEF GoneIsAhead
<1>4. AdvertisedIsAhead /\ StateIsAhead /\ NumberIsAhead
  BY <1>1 DEF AdvertisedIsAhead, StateIsAhead, NumberIsAhead
<1>5. QED
  BY <1>1, <1>2, <1>3, <1>4 DEF LoopInv

\* Every sensor of a type displays a key that the payload of that type has
\* (ha_mqtt.py:30-352).
LEMMA PayloadHasKeys ==
  \A t \in DeviceType : \A e \in DOMAIN Sensors(t) : Sensors(t)[e] \in StateKeys(t)
BY TypeAssumption DEF Sensors, StateKeys, DecodedKeys, FeederEntities, LitterBoxEntities, GenericEntities,
       DeviceType

\* While the broker stays connected, it shows of every device what the hub has, or
\* the loop will still publish it (ha_mqtt.py:423-473).  What is published while
\* the broker is away is lost, an announcement for good (ha_mqtt.py:455-467 and the
\* run of MqttDiscovery.cfg): this theorem and the next five say nothing of it.
THEOREM BridgeLoopInv == Spec /\ []link => []LoopInv
<1>1. Init /\ link => LoopInv
  BY LoopInit
<1>2. IInv /\ LoopInv /\ link' /\ [Next]_vars => LoopInv'
  BY LoopStep
<1>3. QED
  BY <1>1, <1>2, BridgeInv, PTL DEF Spec

\* All is quiet: no event waits, and the loop does nothing.
LEMMA QuietLoop ==
  ASSUME Quiet, NEW d \in Dev
  PROVE  /\ ~Heard(d) /\ ~Waits(queue, "gone", d)
         /\ \A steps : "idle" \notin steps => ~Doing("loop", steps, d)
<1>1. queue = <<>> /\ pc["loop"].at = "idle"
  BY DEF Quiet, LoopIdle
<1>2. QED
  BY <1>1, NothingWaits DEF Heard, Doing

\* While the broker stays connected: a device that is gone is offline once all is
\* quiet, however late its going was read, unless a restart took the news with it
\* (ha_mqtt.py:444-451).
THEOREM GoneIsOffline == Spec /\ []link => []OfflineWhenQuiet
<1>1. ASSUME IInv, LoopInv PROVE OfflineWhenQuiet
  <2> SUFFICES ASSUME Quiet, NEW d \in Dev, d \notin missed, ~known[d], d \notin orphans
               PROVE  avail[d] \in {None, "offline"}
    BY DEF OfflineWhenQuiet
  <2>1. avail[d] # "online"
    BY <1>1, QuietLoop DEF LoopInv, GoneIsAhead
  <2>2. QED
    BY <1>1, <2>1 DEF IInv, TypeOK
<1>2. QED
  BY <1>1, BridgeInv, BridgeLoopInv, PTL

\* While the broker stays connected: the state Home Assistant shows of a known
\* device is what its handler has decoded, whatever was coalesced
\* (ha_mqtt.py:326-352, 444-448).
THEOREM StateIsMirrored == Spec /\ []link => []MirroredWhenQuiet
<1>1. ASSUME LoopInv PROVE MirroredWhenQuiet
  <2> SUFFICES ASSUME Quiet, NEW d \in Dev, d \notin missed, known[d]
               PROVE  state[d] = StatePayload(d)
    BY DEF MirroredWhenQuiet
  <2>1. ~Doing("loop", Advertising \cup {"online", "mirror"}, d) /\ ~Heard(d)
    BY QuietLoop DEF Advertising
  <2>2. QED
    BY <1>1, <2>1 DEF LoopInv, StateIsAhead
<1>2. QED
  BY <1>1, BridgeLoopInv, PTL

\* While the broker stays connected: every entity of a known device's type has been
\* announced, and the payload has the key it displays (ha_mqtt.py:402-405, 456-468).
\* An announcement made while the broker is away is not made again: there the run
\* of MqttDiscovery.cfg finds the contrary.
THEOREM EntitiesAreDiscovered == Spec /\ []link => []DiscoveredWhenQuiet
<1>1. ASSUME IInv, LoopInv PROVE DiscoveredWhenQuiet
  <2> SUFFICES ASSUME Quiet, NEW d \in Dev, d \notin missed, known[d]
               PROVE  /\ Announced(rtype[d]) \subseteq config[d]
                      /\ \A e \in DOMAIN Sensors(rtype[d]) :
                           state[d] # None => Sensors(rtype[d])[e] \in StateKeys(state[d].type)
    BY DEF DiscoveredWhenQuiet
  <2>1. rtype[d] \in DeviceType
    BY <1>1 DEF IInv, ThreadsFit, Handled, TypeOK
  <2>2. Announced(rtype[d]) \subseteq config[d]
    <3>1. ~Doing("loop", Advertising, d) /\ ~Heard(d)
      BY QuietLoop DEF Advertising
    <3>2. <<d, rtype[d]>> \in advertised
      BY <1>1, <3>1 DEF LoopInv, AdvertisedIsAhead, Key
    <3>3. QED
      BY <1>1, <2>1, <3>2 DEF LoopInv, AdvertisedIsAhead
  <2>3. state[d].type = rtype[d]
    <3>1. ~Doing("loop", Advertising \cup {"online", "mirror"}, d) /\ ~Heard(d)
      BY QuietLoop DEF Advertising
    <3>2. state[d] = StatePayload(d)
      BY <1>1, <3>1 DEF LoopInv, StateIsAhead
    <3>3. QED
      BY <3>2 DEF StatePayload
  <2>4. QED
    BY <2>1, <2>2, <2>3, PayloadHasKeys
<1>2. QED
  BY <1>1, BridgeInv, BridgeLoopInv, PTL

\* While the broker stays connected: the number that is shown is the one the next
\* feed dispenses, once all is quiet (ha_mqtt.py:428-433, 464-466).
THEOREM NumberIsShown == Spec /\ []link => []NumberWhenQuiet
<1>1. ASSUME IInv, LoopInv PROVE NumberWhenQuiet
  <2> SUFFICES ASSUME Quiet, NEW d \in Dev, d \notin missed, known[d]
               PROVE  portions[d] = number[d]
    BY DEF NumberWhenQuiet
  <2>1. /\ ~Doing("loop", Advertising, d) /\ ~Doing("loop", {"mark"}, d) /\ ~Heard(d)
    BY QuietLoop DEF Advertising
  <2>2. rtype[d] \in DeviceType /\ <<d, rtype[d]>> \in advertised
    BY <1>1, <2>1
    DEF IInv, ThreadsFit, Handled, TypeOK, LoopInv, AdvertisedIsAhead, Key
  <2>3. portions[d] # 0
    BY <1>1, <2>2 DEF LoopInv, AdvertisedIsAhead
  <2>4. QED
    BY <1>1, <2>1, <2>3 DEF LoopInv, NumberIsAhead
<1>2. QED
  BY <1>1, BridgeInv, BridgeLoopInv, PTL

\* While the broker stays connected, a feed of a device whose number was set or
\* advertised since the process started dispenses the number that is shown, also
\* while events wait (ha_mqtt.py:428-433).  FeedsAsShown leaves out the feeds between
\* a restart and the next advertisement: one portion, whatever is still shown.
THEOREM FeedIsAsShown == Spec /\ []link => []FeedsAsShown
<1>1. LoopInv => FeedsAsShown
  BY DEF LoopInv, FeedsAsShown
<1>2. QED
  BY <1>1, BridgeLoopInv, PTL

=============================================================================
