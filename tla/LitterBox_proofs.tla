-------------------------- MODULE LitterBox_proofs --------------------------
(***************************************************************************)
(* Theorems about the litter boxes, for any boxes and other devices, any   *)
(* connections and any number of heartbeats on their way: a visit is       *)
(* logged once, every box is sent the clock, and what is sent stays with   *)
(* its device.                                                             *)
(***************************************************************************)
EXTENDS LitterBox, LocalServer_proofs, SequenceTheorems

-----------------------------------------------------------------------------
(* What the handlers do, seen from the devices. *)

\* Only a litter box's handler decodes a heartbeat.
LEMMA HeartbeatsAreDecoded ==
  \A k, f : "climate" \in Decodes(k, f) <=> k = "litterbox" /\ IsHeartbeat(f)
BY DEF IsHeartbeat, Decodes, FeederDecodes, LitterBoxDecodes

\* A frame of device m on connection c, and the handler that decodes it.
Handles(c, m, f, h) ==
  /\ h \in Hnd /\ sessHandler'[c] = h
  /\ FreshHandler(h) => kind'[h] = FindHandler(f)
  /\ ~FreshHandler(h) => kind'[h] = kind[h]
  /\ decoded'[h] = (IF FreshHandler(h) THEN {} ELSE decoded[h]) \cup Decodes(kind'[h], f)
  /\ \A g \in Hnd \ {h} : /\ kind'[g] = kind[g] /\ decoded'[g] = decoded[g]
                          /\ FreshHandler(g) => FreshHandler(g)'
  /\ c \in open /\ open' = open
  /\ sessRecord'[c] # None /\ macOf'[sessRecord'[c]] = m
  /\ \A d \in Conn \ {c} : /\ sessRecord'[d] = sessRecord[d]
                           /\ Identified(d) => macOf'[sessRecord[d]] = macOf[sessRecord[d]]
  /\ devices'[m] # None
  /\ \A n \in Mac \ {m} :
       /\ devices'[n] = devices[n]
       /\ Known(n) => /\ recHandler'[devices[n]] = recHandler[devices[n]]
                      /\ recHandler[devices[n]] \in Hnd \ {h}
  /\ OneClassFor(m) => /\ recHandler'[devices'[m]] = h
                       /\ Known(m) => h = recHandler[devices[m]] /\ ~FreshHandler(h)
                       /\ ~Known(m) => FreshHandler(h)

\* A connection that is identified: its own handler.
LEMMA LaterHandles ==
  ASSUME IInv, NEW c \in Conn, Identified(c), NEW m \in Mac, macOf[sessRecord[c]] = m,
         NEW f \in Frame, LaterFrame(c, f)
  PROVE  Handles(c, m, f, sessHandler[c])
<1> USE DEF IInv, TypeOK, HubTypeOK, SessTypeOK
<1> DEFINE h == sessHandler[c]
<1>1. /\ UNCHANGED <<devices, macOf, sessRecord, sessHandler, recHandler, kind, open>>
      /\ c \in open
      /\ decoded' = [decoded EXCEPT ![h] = @ \cup Decodes(kind[h], f)]
  BY DEF LaterFrame, Observe, hubVars
<1>2. HandlerInv
  BY DEF HandlerInv, SessInv
<1>3. h \in Hnd /\ sessRecord[c] = devices[m] /\ Known(m)
  BY DEF HandlersConsistent, HandlersOwned, Consistent, ConnectedIsKnown, Identified, Known
<1> HIDE DEF h
<1>4. ~FreshHandler(h) /\ sessHandler[c] = h
  BY <1>3 DEF FreshHandler, h
<1>5. /\ decoded'[h] = decoded[h] \cup Decodes(kind[h], f)
      /\ \A g \in Hnd \ {h} : decoded'[g] = decoded[g]
  BY <1>1, <1>3
<1>6. \A g \in Hnd : FreshHandler(g) => FreshHandler(g)'
  BY <1>1 DEF FreshHandler, Known
<1>7. ASSUME NEW n \in Mac \ {m}, Known(n) PROVE recHandler[devices[n]] \in Hnd \ {h}
  <2>1. devices[n] \in Rec /\ devices[n] # devices[m]
    BY <1>3, <1>7 DEF Consistent, RecordsAreOwned, Known
  <2>2. recHandler[devices[n]] # h
    BY <1>3, <1>4, <1>7, <2>1 DEF HandlersConsistent, HandlersOwned
  <2>3. QED
    BY <1>7, <2>1, <2>2 DEF HandlersConsistent, HandlersOwned
<1>8. OneClassFor(m) => h = recHandler[devices[m]]
  BY <1>2, <1>4, FitIsShared
<1>9. QED
  BY <1>1, <1>3, <1>4, <1>5, <1>6, <1>7, <1>8 DEF Handles, Identified, Known

\* The first frame of a connection whose device has a handler that fits.
LEMMA ReuseHandles ==
  ASSUME IInv, NEW c \in Conn, ~Identified(c), NEW m \in Mac, NEW f \in Frame,
         c \in open, open' = open, IdentifyKnown(c, m, f), ReuseHandler(c, devices[m], f)
  PROVE  Handles(c, m, f, recHandler[devices[m]])
<1> USE DEF IInv, TypeOK, HubTypeOK, SessTypeOK
<1> DEFINE r == devices[m]
           h == recHandler[r]
<1>1. /\ UNCHANGED <<devices, macOf, recHandler, kind>> /\ Known(m)
      /\ sessRecord' = [sessRecord EXCEPT ![c] = r]
      /\ sessHandler' = [sessHandler EXCEPT ![c] = h]
      /\ kind[h] = FindHandler(f)
      /\ decoded' = [decoded EXCEPT ![h] = @ \cup Decodes(FindHandler(f), f)]
  BY DEF IdentifyKnown, AttachKnown, ReuseHandler
<1>2. r \in Rec /\ h \in Hnd /\ macOf[r] = m
  BY <1>1 DEF HandlersConsistent, HandlersOwned, Consistent, RecordsAreOwned, Known
<1> HIDE DEF h
<1>3. ~FreshHandler(h) /\ recHandler[devices[m]] = h
  BY <1>1, <1>2 DEF FreshHandler, h
<1>4. /\ decoded'[h] = decoded[h] \cup Decodes(kind[h], f)
      /\ \A g \in Hnd \ {h} : decoded'[g] = decoded[g]
  BY <1>1, <1>2
<1>5. \A g \in Hnd \ {h} : FreshHandler(g) => FreshHandler(g)'
  BY <1>1 DEF FreshHandler, Known
<1>6. ASSUME NEW n \in Mac \ {m}, Known(n) PROVE recHandler[devices[n]] \in Hnd \ {h}
  BY <1>1, <1>3, <1>6 DEF HandlersConsistent, HandlersOwned, Known
<1>7. sessRecord'[c] = r /\ sessHandler'[c] = h /\ r # None
  BY <1>1, <1>2 DEF Known
<1>8. QED
  BY <1>1, <1>2, <1>3, <1>4, <1>5, <1>6, <1>7 DEF Handles, Known

\* ... and one that gets a new handler, on a new record or in place of one that
\* does not fit.
LEMMA NewHandles ==
  ASSUME IInv, NEW c \in Conn, ~Identified(c), NEW m \in Mac, NEW f \in Dialect[m],
         NEW r \in Rec, NEW h \in Hnd, c \in open, open' = open, NewHandler(c, r, h, f),
         sessRecord' = [sessRecord EXCEPT ![c] = r],
         devices' = [devices EXCEPT ![m] = r], macOf'[r] = m,
         \A n \in Mac \ {m} : devices[n] # r,
         \A n \in Mac : Known(n) => macOf'[devices[n]] = macOf[devices[n]],
         Known(m) => ~OneClassFor(m)
  PROVE  Handles(c, m, f, h)
<1> USE DEF IInv, TypeOK, HubTypeOK, SessTypeOK
<1>1. /\ sessHandler' = [sessHandler EXCEPT ![c] = h]
      /\ recHandler' = [recHandler EXCEPT ![r] = h]
      /\ kind' = [kind EXCEPT ![h] = FindHandler(f)]
      /\ decoded' = [decoded EXCEPT ![h] = Decodes(FindHandler(f), f)]
      /\ FreshHandler(h)
  BY DEF NewHandler
<1>2. /\ sessHandler'[c] = h /\ kind'[h] = FindHandler(f)
      /\ decoded'[h] = Decodes(kind'[h], f)
      /\ \A g \in Hnd \ {h} : kind'[g] = kind[g] /\ decoded'[g] = decoded[g]
  BY <1>1
<1>3. /\ \A n \in Mac \ {m} : devices'[n] = devices[n]
      /\ devices'[m] = r /\ r # None /\ recHandler'[r] = h
  BY <1>1, NoneAssumption
<1>4. ASSUME NEW n \in Mac \ {m}, Known(n)
      PROVE  recHandler'[devices[n]] = recHandler[devices[n]] /\ recHandler[devices[n]] \in Hnd \ {h}
  BY <1>1, <1>4 DEF HandlersConsistent, HandlersOwned, FreshHandler, Known
<1>5. ASSUME NEW g \in Hnd \ {h}, FreshHandler(g) PROVE FreshHandler(g)'
  <2>1. \A d \in Conn : sessHandler'[d] # g
    BY <1>1, <1>5 DEF FreshHandler
  <2>2. ASSUME NEW n \in Mac, Known(n)' PROVE recHandler'[devices'[n]] # g
    <3>1. CASE n = m
      BY <1>3, <1>5, <3>1
    <3>2. CASE n # m
      BY <1>3, <1>4, <1>5, <2>2, <3>2 DEF FreshHandler, Known
    <3>3. QED
      BY <3>1, <3>2
  <2>3. QED
    BY <2>1, <2>2 DEF FreshHandler
<1>6. ASSUME NEW d \in Conn \ {c}
      PROVE  /\ sessRecord'[d] = sessRecord[d]
             /\ Identified(d) => macOf'[sessRecord[d]] = macOf[sessRecord[d]]
  <2>1. sessRecord'[d] = sessRecord[d]
    BY <1>6
  <2>2. ASSUME Identified(d) PROVE macOf'[sessRecord[d]] = macOf[sessRecord[d]]
    <3>1. PICK n \in Mac : n = macOf[sessRecord[d]]
      BY <2>2 DEF Consistent, ConnectedIsKnown
    <3>2. devices[n] = sessRecord[d] /\ Known(n)
      BY <2>2, <3>1 DEF Consistent, ConnectedIsKnown, Known, Identified
    <3>3. QED
      BY <3>2
  <2>3. QED
    BY <2>1, <2>2
<1>7. sessRecord'[c] = r
  OBVIOUS
<1>8. QED
  BY <1>1, <1>2, <1>3, <1>4, <1>5, <1>6, <1>7 DEF Handles

\* Whatever a box or another device sends, one handler of its own decodes it.
LEMMA DispatchHandles ==
  ASSUME IInv, NEW c \in Conn, NEW m \in Mac, NEW f \in Dialect[m],
         Identified(c) => macOf[sessRecord[c]] = m,
         FirstFrame(c, m, f) \/ LaterFrame(c, f)
  PROVE  /\ Handles(c, m, f, sessHandler'[c])
         /\ [Next]_vars
<1>0. f \in Frame
  BY DialectAssumption
<1>1. [Next]_vars
  BY DEF Next, LaterFrame
<1>2. CASE LaterFrame(c, f)
  <2>1. Handles(c, m, f, sessHandler[c])
    BY <1>0, <1>2, LaterHandles DEF LaterFrame
  <2>2. QED
    BY <1>1, <2>1 DEF Handles
<1>3. CASE FirstFrame(c, m, f)
  <2>1. c \in open /\ open' = open /\ ~Identified(c)
    BY <1>3 DEF FirstFrame
  <2>2. ASSUME NEW h, Handles(c, m, f, h) PROVE Handles(c, m, f, sessHandler'[c])
    BY <2>2 DEF Handles
  <2>3. CASE IdentifyKnown(c, m, f)
    <3>1. CASE ReuseHandler(c, devices[m], f)
      <4>1. Handles(c, m, f, recHandler[devices[m]])
        BY <1>0, <2>1, <2>3, <3>1, ReuseHandles
      <4>2. QED
        BY <1>1, <2>2, <4>1
    <3>2. CASE ~ReuseHandler(c, devices[m], f)
      <4>1. PICK r \in Rec : r = devices[m] /\ macOf[r] = m
        BY <2>3 DEF IdentifyKnown, Known, Consistent, RecordsAreOwned,
                    IInv, TypeOK, HubTypeOK
      <4>2. PICK h \in Hnd : NewHandler(c, r, h, f)
        BY <2>3, <3>2, <4>1 DEF IdentifyKnown
      <4>3. recHandler[r] = None \/ kind[recHandler[r]] # FindHandler(f)
        BY <2>3, <3>2, <4>1 DEF IdentifyKnown
      <4>4. /\ sessRecord' = [sessRecord EXCEPT ![c] = r]
            /\ UNCHANGED <<devices, macOf>> /\ Known(m)
        BY <2>3, <4>1 DEF IdentifyKnown, AttachKnown
      <4>5. ~OneClassFor(m)
        BY <4>1, <4>3, <4>4 DEF HandlersConsistent, HandlersOwned, HandlersFit, IInv
      <4>6. \A n \in Mac \ {m} : devices[n] # r
        BY <4>1, NoneAssumption DEF Consistent, RecordsAreOwned, Known, IInv
      <4>7. devices' = [devices EXCEPT ![m] = r]
        BY <4>1, <4>4 DEF IInv, TypeOK, HubTypeOK
      <4>8. /\ macOf'[r] = m
            /\ \A n \in Mac : Known(n) => macOf'[devices[n]] = macOf[devices[n]]
        BY <4>1, <4>4
      <4>9. Handles(c, m, f, h)
        BY <2>1, <4>2, <4>4, <4>5, <4>6, <4>7, <4>8, NewHandles
      <4>10. QED
        BY <1>1, <2>2, <4>9
    <3>3. QED
      BY <3>1, <3>2
  <2>4. CASE IdentifyNew(c, m, f)
    <3>1. PICK r \in Rec, h \in Hnd :
            /\ AttachNew(m, r)
            /\ sessRecord' = [sessRecord EXCEPT ![c] = r]
            /\ NewHandler(c, r, h, f)
      BY <2>4 DEF IdentifyNew
    <3>2. /\ ~Known(m) /\ \A n \in Mac : devices[n] # r
          /\ devices' = [devices EXCEPT ![m] = r] /\ macOf' = [macOf EXCEPT ![r] = m]
      BY <3>1 DEF AttachNew, FreshRecord, IInv, TypeOK, HubTypeOK
    <3>3. macOf'[r] = m /\ \A n \in Mac : Known(n) => macOf'[devices[n]] = macOf[devices[n]]
      BY <3>2 DEF Known, IInv, TypeOK, HubTypeOK
    <3>4. Handles(c, m, f, h)
      BY <2>1, <3>1, <3>2, <3>3, NewHandles
    <3>5. QED
      BY <1>1, <2>2, <3>4
  <2>5. QED
    BY <1>3, <2>3, <2>4 DEF FirstFrame, Identify
<1>4. QED
  BY <1>1, <1>2, <1>3

-----------------------------------------------------------------------------
(* What Unbroken survives. *)

\* The next heartbeat, and the element of it at any place.
LEMMA NextReport ==
  ASSUME NEW S, NEW w \in Seq(S), NEW x \in S
  PROVE  /\ Append(w, x) \in Seq(S) /\ Len(w) \in Nat /\ Len(Append(w, x)) = Len(w) + 1
         /\ \A i \in 1..Len(w) : Append(w, x)[i] = w[i]
         /\ Append(w, x)[Len(w) + 1] = x
  BY AppendProperties

LEMMA UnbrokenFirst ==
  \A x, seen : Unbroken(Append(<<>>, x), seen)
BY DEF Unbroken

\* The heartbeat that reports what is on is sent; the next one will report the same.
LEMMA UnbrokenSent ==
  ASSUME NEW S, NEW w \in Seq(S), NEW x \in S, NEW seen, Unbroken(Append(w, x), seen)
  PROVE  Unbroken(Append(Append(w, x), x), seen)
<1> DEFINE u == Append(w, x)
           t == Append(u, x)
<1>1. PICK L \in Nat : L = Len(u)
  BY NextReport
<1>2. /\ L > 0 /\ u \in Seq(S) /\ u[L] = x /\ Len(t) = L + 1 /\ t[L + 1] = x
      /\ \A i \in 1..L : t[i] = u[i]
  BY <1>1, NextReport
<1> HIDE DEF u, t
<1>3. Unbroken(u, seen)
  BY DEF u
<1> SUFFICES ASSUME NEW j \in 1..(L + 1), t[j] # None, NEW i \in 1..j
             PROVE  /\ t[j] \in seen => t[i] = t[j]
                    /\ t[i] = t[j] => \A k \in i..j : t[k] = t[j]
  BY <1>2 DEF Unbroken, t, u
<1>4. CASE j \in 1..L
  <2>1. i \in 1..L /\ \A k \in i..j : k \in 1..L
    BY <1>4
  <2>2. t[j] = u[j] /\ t[i] = u[i] /\ \A k \in i..j : t[k] = u[k]
    BY <1>2, <1>4, <2>1
  <2>3. QED
    BY <1>1, <1>3, <1>4, <2>2 DEF Unbroken
<1>5. CASE j = L + 1 /\ i \in 1..L
  <2>1. t[j] = x /\ t[i] = u[i] /\ L \in 1..L
    BY <1>2, <1>5
  <2>2. /\ x \in seen => u[i] = x
        /\ u[i] = x => \A k \in i..L : u[k] = x
    BY <1>1, <1>2, <1>3, <1>5, <2>1 DEF Unbroken
  <2>3. \A k \in i..j : k = L + 1 \/ (k \in i..L /\ k \in 1..L)
    BY <1>5
  <2>4. QED
    BY <1>2, <1>5, <2>1, <2>2, <2>3
<1>6. CASE j = L + 1 /\ i = L + 1
  <2>1. \A k \in i..j : k = L + 1
    BY <1>6
  <2>2. QED
    BY <1>2, <1>6, <2>1
<1>7. QED
  BY <1>4, <1>5, <1>6

\* The first heartbeat is read, and with it the visit it reports may be seen.
LEMMA UnbrokenRead ==
  ASSUME NEW S, NEW w \in Seq(S), w # <<>>, NEW x \in S, NEW seen, NEW now,
         Unbroken(Append(w, x), seen), now \subseteq seen \cup {Head(w)}
  PROVE  Unbroken(Append(Tail(w), x), now)
<1> DEFINE u == Append(w, x)
           t == Append(Tail(w), x)
<1>1. PICK L \in Nat : L = Len(Tail(w))
  BY HeadTailProperties
<1>2. /\ Tail(w) \in Seq(S) /\ Len(w) = L + 1 /\ Head(w) = w[1]
      /\ \A i \in 1..L : Tail(w)[i] = w[i + 1]
  BY <1>1, HeadTailProperties
<1>3. /\ Len(u) = L + 2 /\ Len(t) = L + 1
      /\ u[1] = Head(w) /\ u[L + 2] = x /\ t[L + 1] = x
      /\ \A i \in 1..L : t[i] = w[i + 1] /\ u[i + 1] = w[i + 1]
  BY <1>1, <1>2, NextReport
<1> HIDE DEF u, t
<1>4. \A i \in 1..(L + 1) : t[i] = u[i + 1]
  BY <1>3
<1>5. Unbroken(u, seen)
  BY DEF u
<1> SUFFICES ASSUME NEW j \in 1..(L + 1), t[j] # None, NEW i \in 1..j
             PROVE  /\ t[j] \in now => t[i] = t[j]
                    /\ t[i] = t[j] => \A k \in i..j : t[k] = t[j]
  BY <1>3 DEF Unbroken, t
<1>6. /\ i \in 1..(L + 1) /\ i + 1 \in 1..(j + 1) /\ j + 1 \in 1..(L + 2)
      /\ 1 \in 1..(j + 1) /\ i + 1 \in 1..(j + 1)
      /\ \A k \in i..j : k \in 1..(L + 1) /\ k + 1 \in (i + 1)..(j + 1)
  OBVIOUS
<1>7. t[j] = u[j + 1] /\ t[i] = u[i + 1] /\ \A k \in i..j : t[k] = u[k + 1]
  BY <1>4, <1>6
<1>8. /\ u[j + 1] \in seen => u[i + 1] = u[j + 1]
      /\ u[i + 1] = u[j + 1] => \A k \in (i + 1)..(j + 1) : u[k] = u[j + 1]
      /\ u[1] = u[j + 1] => \A k \in 1..(j + 1) : u[k] = u[j + 1]
  BY <1>3, <1>5, <1>6, <1>7 DEF Unbroken
<1>9. QED
  BY <1>3, <1>6, <1>7, <1>8

\* The next heartbeat will report something else: nothing, or a new visit.
LEMMA UnbrokenNext ==
  ASSUME NEW S, NEW w \in Seq(S), NEW x \in S, NEW y \in S, NEW seen, NEW now,
         Unbroken(Append(w, x), seen), now \subseteq seen,
         y = None \/ (y \notin now /\ \A i \in 1..Len(w) : w[i] # y)
  PROVE  Unbroken(Append(w, y), now)
<1> DEFINE u == Append(w, x)
           t == Append(w, y)
<1>1. PICK L \in Nat : L = Len(w)
  BY NextReport
<1>2. /\ Len(u) = L + 1 /\ Len(t) = L + 1 /\ t[L + 1] = y
      /\ \A i \in 1..L : t[i] = u[i] /\ t[i] = w[i]
  BY <1>1, NextReport
<1> HIDE DEF u, t
<1>3. Unbroken(u, seen)
  BY DEF u
<1> SUFFICES ASSUME NEW j \in 1..(L + 1), t[j] # None, NEW i \in 1..j
             PROVE  /\ t[j] \in now => t[i] = t[j]
                    /\ t[i] = t[j] => \A k \in i..j : t[k] = t[j]
  BY <1>2 DEF Unbroken, t
<1>4. CASE j \in 1..L
  <2>1. i \in 1..L /\ j \in 1..(L + 1) /\ \A k \in i..j : k \in 1..L
    BY <1>4
  <2>2. t[j] = u[j] /\ t[i] = u[i] /\ \A k \in i..j : t[k] = u[k]
    BY <1>2, <1>4, <2>1
  <2>3. QED
    BY <1>2, <1>3, <2>1, <2>2 DEF Unbroken
<1>5. CASE j = L + 1
  <2>1. y \notin now /\ \A k \in 1..L : t[k] # y
    BY <1>1, <1>2, <1>5
  <2>2. i = L + 1 \/ i \in 1..L
    BY <1>5
  <2>3. i = L + 1 => \A k \in i..j : k = j
    BY <1>5
  <2>4. QED
    BY <1>2, <1>5, <2>1, <2>2, <2>3
<1>6. QED
  BY <1>4, <1>5

-----------------------------------------------------------------------------
(* Steps without a frame: what is known of devices, handlers, visits and   *)
(* heartbeats only gets less.                                              *)

\* The server forgets devices and sessions, and changes none it keeps.
OnlyForgets ==
  /\ UNCHANGED <<macOf, recHandler, kind, decoded>>
  /\ \A n \in Mac : devices'[n] = devices[n] \/ devices'[n] = None
  /\ \A d \in Conn : \/ sessRecord'[d] = sessRecord[d] /\ sessHandler'[d] = sessHandler[d]
                     \/ sessRecord'[d] = None /\ sessHandler'[d] = None

LEMMA FreshStays ==
  ASSUME OnlyForgets, NEW h \in Hnd, FreshHandler(h)
  PROVE  FreshHandler(h)'
<1>1. \A c \in Conn : sessHandler'[c] # h
  BY NoneIsNoHandler DEF OnlyForgets, FreshHandler
<1>2. ASSUME NEW m \in Mac, Known(m)' PROVE recHandler'[devices'[m]] # h
  BY <1>2 DEF OnlyForgets, FreshHandler, Known
<1>3. QED
  BY <1>1, <1>2 DEF FreshHandler

\* The handler of a known device is in use.
LEMMA InUse ==
  \A m \in Mac : Known(m) => ~FreshHandler(recHandler[devices[m]])
BY DEF FreshHandler

\* What the boxes' part of such a step does.
BoxesForget ==
  /\ UNCHANGED <<logged, late, phantom>>
  /\ \A m \in Box : inside'[m] = inside[m] \/ inside'[m] = None
  /\ \A d \in Conn : \/ owner'[d] = owner[d] /\ wire'[d] = wire[d]
                     \/ wire'[d] = <<>>
  /\ Collect \/ UNCHANGED memory
  /\ clocked' \subseteq clocked
  /\ \A m \in clocked : devices'[m] # None => m \in clocked'

\* The parts of the invariant that say nothing of memories, clocks and visits.
BoxBase ==
  /\ IInv /\ OwnersFit
  /\ inside \in [Box -> Visit \cup {None}] /\ owner \in [Conn -> Mac \cup {None}]
  /\ wire \in [Conn -> Seq(Visit \cup {None})]
  /\ \A c \in Conn : Len(wire[c]) <= InFlight

LEMMA ForgetStep ==
  ASSUME BoxInv, OnlyForgets, BoxesForget, BoxBase'
  PROVE  BoxInv'
<1>1. working' \subseteq working /\ pushed' \subseteq pushed /\ working' \subseteq pushed'
  BY DEF BoxesForget, Collect, memory, BoxInv, BoxTypeOK
<1>2. BoxTypeOK'
  BY <1>1 DEF BoxTypeOK, BoxBase, BoxesForget, BoxInv, IInv
<1>3. PushedAreBoxes'
  <2> SUFFICES ASSUME NEW h \in pushed' PROVE FreshHandler(h)' \/ kind'[h] = "litterbox"
    BY DEF PushedAreBoxes
  <2>1. h \in pushed /\ h \in Hnd
    BY <1>1 DEF BoxInv, BoxTypeOK
  <2>2. QED
    BY <2>1, FreshStays DEF BoxInv, PushedAreBoxes, OnlyForgets
<1>4. \A m \in Mac : Known(m)' => Known(m) /\ devices'[m] = devices[m]
  BY DEF OnlyForgets, Known
<1>5. Box \subseteq Mac
  BY BoxAssumption
<1>6. ClockIsPushed'
  BY <1>4, <1>5 DEF BoxInv, ClockIsPushed, OnlyForgets, BoxesForget, Known
<1>7. EntriesAreArrivals'
  BY DEF BoxInv, EntriesAreArrivals, BoxesForget
<1>8. ASSUME NEW m \in Box PROVE VisitsInOrder(m)'
  <2>1. CASE m \in late
    BY <2>1 DEF VisitsInOrder, BoxesForget, BoxInv
  <2>2. CASE m \notin late
    <3>1. InOrder(m) /\ Remembered(m)
      BY <2>2 DEF VisitsInOrder, BoxInv
    <3>2. \A d \in Conn : wire'[d] # <<>> => owner'[d] = owner[d] /\ wire'[d] = wire[d]
      BY DEF BoxesForget
    <3>3. \A d \in Conn : \A i \in 1..Len(wire'[d]) : wire'[d] # <<>>
      OBVIOUS
    <3>4. logged'[m] = logged[m] /\ (inside'[m] = inside[m] \/ inside'[m] = None)
      BY DEF BoxesForget
    <3>5. InOrder(m)'
      <4>1. ASSUME NEW d \in Conn, owner'[d] = m
            PROVE  Unbroken(Append(wire'[d], inside'[m]), logged[m])
        <5>1. CASE wire'[d] = <<>>
          BY <5>1, UnbrokenFirst
        <5>2. CASE wire'[d] # <<>>
          <6>1. Unbroken(Append(wire[d], inside[m]), logged[m]) /\ wire'[d] = wire[d]
            BY <3>1, <3>2, <4>1, <5>2 DEF InOrder
          <6>2. /\ wire[d] \in Seq(Visit \cup {None})
                /\ inside[m] \in Visit \cup {None} /\ inside'[m] \in Visit \cup {None}
            BY <3>4 DEF BoxInv, BoxTypeOK
          <6>3. CASE inside'[m] = None
            BY <6>1, <6>2, <6>3, UnbrokenNext
          <6>4. QED
            BY <3>4, <6>1, <6>3
        <5>3. QED
          BY <5>1, <5>2
      <4>2. QED
        BY <3>1, <3>2, <3>4, <4>1 DEF InOrder
    <3>6. Remembered(m)'
      <4> SUFFICES ASSUME NEW h, h = recHandler[devices[m]],
                          Known(m)', "climate" \in decoded[h], NEW v \in logged[m],
                          \/ inside'[m] = v
                          \/ \E c \in Conn : owner'[c] = m /\ Reports(c, v)'
                   PROVE  h \in working'
        BY <1>4, <1>5, <3>4 DEF Remembered, OnlyForgets
      <4>1. Known(m) /\ devices'[m] = devices[m]
        BY <1>4, <1>5
      <4>2. v # None
        BY BoxAssumption DEF BoxInv, BoxTypeOK
      <4>3. \A c \in Conn : owner'[c] = m /\ Reports(c, v)' => owner[c] = m /\ Reports(c, v)
        BY <3>2, <3>3 DEF Reports
      <4>4. inside[m] = v \/ \E c \in Conn : owner[c] = m /\ Reports(c, v)
        BY <3>4, <4>2, <4>3
      <4>5. h \in working
        BY <3>1, <4>1, <4>4 DEF Remembered
      <4>6. ~FreshHandler(h)'
        BY <1>5, <4>1 DEF FreshHandler, OnlyForgets
      <4>7. QED
        BY <4>5, <4>6 DEF BoxesForget, Collect, memory
    <3>7. QED
      BY <2>2, <3>5, <3>6 DEF VisitsInOrder, BoxesForget
  <2>3. QED
    BY <2>1, <2>2
<1>9. QED
  BY <1>2, <1>3, <1>6, <1>7, <1>8 DEF BoxInv, BoxBase

LEMMA ServerForgets ==
  ASSUME IInv,
         \/ UNCHANGED <<hubVars, sessVars>>
         \/ \E c \in Conn : CloseIdentified(c)
         \/ \E r \in Rec : ExpireTimer(r)
         \/ TimePasses
  PROVE  OnlyForgets
<1> USE DEF OnlyForgets
<1>1. CASE UNCHANGED <<hubVars, sessVars>>
  BY <1>1 DEF hubVars, sessVars
<1>2. ASSUME NEW c \in Conn, CloseIdentified(c) PROVE OnlyForgets
  <2>1. UNCHANGED <<devices, macOf>>
    BY <1>2 DEF CloseIdentified, CloseSession, Detach, DetachUnknown, OtherClose, LastClose,
                hubVars
  <2>2. /\ sessRecord' = [sessRecord EXCEPT ![c] = None]
        /\ sessHandler' = [sessHandler EXCEPT ![c] = None]
        /\ UNCHANGED <<recHandler, kind, decoded>>
    BY <1>2 DEF CloseIdentified, CloseSession, DropSession
  <2>3. QED
    BY <2>1, <2>2 DEF IInv, TypeOK, SessTypeOK
<1>3. ASSUME NEW r \in Rec, ExpireTimer(r) PROVE OnlyForgets
  <2>1. UNCHANGED <<macOf, sessVars>>
    BY <1>3 DEF ExpireTimer, Expire
  <2>2. \A n \in Mac : devices'[n] = devices[n] \/ devices'[n] = None
    BY <1>3 DEF ExpireTimer, Expire, IInv, TypeOK, HubTypeOK
  <2>3. QED
    BY <2>1, <2>2 DEF sessVars
<1>4. CASE TimePasses
  BY <1>4 DEF TimePasses, Tick, sessVars
<1>5. QED
  BY <1>1, <1>2, <1>3, <1>4

LEMMA ConnectKeeps ==
  ASSUME BoxInv, NEW c \in Conn, NEW m \in Mac, Connect(c, m)
  PROVE  BoxInv'
<1>1. /\ UNCHANGED <<hubVars, sessVars, inside, wire, memory, history>>
      /\ c \notin open /\ open' = open \cup {c} /\ owner' = [owner EXCEPT ![c] = m]
  BY DEF Connect, Accept
<1>2. IInv'
  BY InvStep DEF Connect, BoxInv, Next
<1>3. wire[c] = <<>> /\ owner[c] = None
  BY BoxAssumption, NoneAssumption DEF BoxInv, OwnersFit, Connect, Accept
<1>4. OnlyForgets
  BY <1>1, ServerForgets DEF BoxInv
<1>5. OwnersFit'
  <2> SUFFICES ASSUME NEW d \in Conn
               PROVE  /\ d \in open' <=> owner'[d] # None
                      /\ Identified(d)' => d \in open' /\ macOf'[sessRecord'[d]] = owner'[d]
                      /\ wire'[d] # <<>> => owner'[d] \in Box
    BY DEF OwnersFit
  <2>1. CASE d = c
    <3>1. ~Identified(c)'
      BY <1>1, <1>3 DEF BoxInv, OwnersFit, Identified, sessVars
    <3>2. owner'[c] = m /\ m # None
      BY <1>1, NoneAssumption DEF BoxInv, BoxTypeOK
    <3>3. QED
      BY <1>1, <1>3, <2>1, <3>1, <3>2
  <2>2. CASE d # c
    BY <1>1, <2>2 DEF BoxInv, BoxTypeOK, OwnersFit, Identified, sessVars, hubVars
  <2>3. QED
    BY <2>1, <2>2
<1>6. BoxesForget
  BY <1>1, <1>3 DEF BoxesForget, history, BoxInv, BoxTypeOK
<1>7. BoxBase'
  BY <1>1, <1>2, <1>5 DEF BoxBase, BoxInv, BoxTypeOK
<1>8. QED
  BY <1>4, <1>6, <1>7, ForgetStep

LEMMA DisconnectKeeps ==
  ASSUME BoxInv, NEW c \in Conn, Disconnect(c)
  PROVE  BoxInv'
<1>1. /\ open' = open \ {c} /\ c \in open /\ macOf' = macOf
      /\ \A d \in Conn \ {c} : sessRecord'[d] = sessRecord[d]
      /\ ~Identified(c)'
  <2>1. CASE CloseIdentified(c)
    BY <2>1 DEF CloseIdentified, CloseSession, DropSession, Identified, BoxInv, IInv, TypeOK,
                SessTypeOK, Detach, DetachUnknown, OtherClose, LastClose, hubVars
  <2>2. CASE CloseUnidentified(c)
    BY <2>2 DEF CloseUnidentified, Identified, hubVars, sessVars
  <2>3. QED
    BY <2>1, <2>2 DEF Disconnect
<1>2. /\ owner' = [owner EXCEPT ![c] = None] /\ wire' = [wire EXCEPT ![c] = <<>>]
      /\ Collect /\ UNCHANGED <<inside, history>>
  BY DEF Disconnect
<1>3. IInv'
  BY InvStep DEF Disconnect, BoxInv, Next
<1>4. OnlyForgets
  BY ServerForgets DEF BoxInv, Disconnect, CloseUnidentified
<1>5. /\ owner'[c] = None /\ wire'[c] = <<>>
      /\ \A d \in Conn \ {c} : owner'[d] = owner[d] /\ wire'[d] = wire[d]
  BY <1>2 DEF BoxInv, BoxTypeOK
<1>6. OwnersFit'
  <2>1. /\ c \in open' <=> owner'[c] # None
        /\ Identified(c)' => c \in open' /\ macOf'[sessRecord'[c]] = owner'[c]
        /\ wire'[c] # <<>> => owner'[c] \in Box
    BY <1>1, <1>5
  <2>2. \A d \in Conn \ {c} :
          /\ d \in open' <=> owner'[d] # None
          /\ Identified(d)' => d \in open' /\ macOf'[sessRecord'[d]] = owner'[d]
          /\ wire'[d] # <<>> => owner'[d] \in Box
    BY <1>1, <1>5 DEF BoxInv, OwnersFit, Identified
  <2>3. QED
    BY <2>1, <2>2 DEF OwnersFit
<1>7. BoxesForget
  BY <1>2, <1>5 DEF BoxesForget, history
<1>8. BoxBase'
  <2>1. /\ owner' \in [Conn -> Mac \cup {None}]
        /\ wire' \in [Conn -> Seq(Visit \cup {None})]
    BY <1>2 DEF BoxInv, BoxTypeOK
  <2>2. \A d \in Conn : Len(wire'[d]) <= InFlight
    BY <1>5, BoxAssumption DEF BoxInv, BoxTypeOK
  <2>3. QED
    BY <1>2, <1>3, <1>6, <2>1, <2>2 DEF BoxBase, BoxInv, BoxTypeOK
<1>9. QED
  BY <1>4, <1>7, <1>8, ForgetStep

LEMMA DelayOverKeeps ==
  ASSUME BoxInv, NEW r \in Rec, DelayOver(r)
  PROVE  BoxInv'
<1>1. /\ UNCHANGED <<macOf, sessVars, open, world, logged, late, phantom>> /\ Collect
      /\ clocked' = {m \in clocked : devices'[m] # None}
  BY DEF DelayOver, ExpireTimer, Expire
<1>2. IInv'
  BY InvStep DEF DelayOver, BoxInv, Next
<1>3. OnlyForgets
  BY ServerForgets DEF BoxInv, DelayOver
<1>4. OwnersFit'
  BY <1>1 DEF BoxInv, OwnersFit, Identified, world, sessVars
<1>5. BoxesForget
  BY <1>1 DEF BoxesForget, world
<1>6. BoxBase'
  BY <1>1, <1>2, <1>4 DEF BoxBase, world, BoxInv, BoxTypeOK
<1>7. QED
  BY <1>3, <1>5, <1>6, ForgetStep

\* Time passes, a cat leaves, or nothing happens.
LEMMA QuietStepKeeps ==
  ASSUME BoxInv, TimePasses \/ UNCHANGED vars, UNCHANGED <<owner, wire, memory, history>>,
         UNCHANGED inside \/ \E m \in Box : inside' = [inside EXCEPT ![m] = None]
  PROVE  BoxInv'
<1>1. UNCHANGED <<macOf, sessVars, open>>
  BY DEF TimePasses, Tick, vars, hubVars
<1>2. IInv'
  BY InvStep DEF BoxInv, Next
<1>3. OnlyForgets
  BY ServerForgets DEF BoxInv, vars
<1>4. OwnersFit'
  BY <1>1 DEF BoxInv, OwnersFit, Identified, sessVars
<1>5. /\ inside' \in [Box -> Visit \cup {None}]
      /\ \A m \in Box : inside'[m] = inside[m] \/ inside'[m] = None
  BY DEF BoxInv, BoxTypeOK
<1>6. BoxesForget
  BY <1>5 DEF BoxesForget, history
<1>7. BoxBase'
  BY <1>2, <1>4, <1>5 DEF BoxBase, BoxInv, BoxTypeOK
<1>8. QED
  BY <1>3, <1>6, <1>7, ForgetStep

-----------------------------------------------------------------------------
(* Cats and heartbeats. *)

\* A step of one box is none of another's.
LEMMA OtherBox ==
  ASSUME NEW n \in Box, VisitsInOrder(n), owner' = owner,
         logged'[n] = logged[n], inside'[n] = inside[n], n \in late' <=> n \in late,
         \A d \in Conn : owner[d] = n => wire'[d] = wire[d],
         devices'[n] = devices[n],
         Known(n) => LET h == recHandler[devices[n]]
                     IN  /\ recHandler'[devices[n]] = h /\ decoded'[h] = decoded[h]
                         /\ h \in working => h \in working'
  PROVE  VisitsInOrder(n)'
<1>1. CASE n \in late
  BY <1>1 DEF VisitsInOrder
<1>2. CASE n \notin late
  <2>1. InOrder(n) /\ Remembered(n)
    BY <1>2 DEF VisitsInOrder
  <2>2. InOrder(n)'
    BY <2>1 DEF InOrder
  <2>3. Remembered(n)'
    <3>1. CASE Known(n)
      <4> DEFINE h == recHandler[devices[n]]
      <4>1. /\ recHandler'[devices'[n]] = h /\ decoded'[h] = decoded[h]
            /\ h \in working => h \in working'
        BY <3>1
      <4>2. \A v : (\E c \in Conn : owner[c] = n /\ Reports(c, v)')
                     => \E c \in Conn : owner[c] = n /\ Reports(c, v)
        BY DEF Reports
      <4>3. QED
        BY <2>1, <3>1, <4>1, <4>2 DEF Remembered
    <3>2. CASE ~Known(n)
      BY <3>2 DEF Remembered, Known
    <3>3. QED
      BY <3>1, <3>2
  <2>4. QED
    BY <1>2, <2>2, <2>3 DEF VisitsInOrder
<1>3. QED
  BY <1>1, <1>2

\* A cat comes in: nothing was logged or is reported of its visit.
LEMMA CatComesKeeps ==
  ASSUME BoxInv, NEW m \in Box, NEW v \in Visit, CatComes(m, v)
  PROVE  BoxInv'
<1>1. /\ UNCHANGED <<vars, owner, wire, memory, late, clocked, phantom>>
      /\ inside'[m] = v /\ logged'[m] = logged[m] \ {v}
      /\ \A n \in Box \ {m} : inside'[n] = inside[n] /\ logged'[n] = logged[n]
      /\ inside' \in [Box -> Visit \cup {None}] /\ logged' \in [Box -> SUBSET Visit]
  BY DEF CatComes, BoxInv, BoxTypeOK
<1>2. IInv'
  BY InvStep, <1>1 DEF BoxInv
<1>3. \A c \in Conn : owner[c] = m => ~Reports(c, v)
  BY DEF CatComes
<1>4. VisitsInOrder(m)'
  <2>1. CASE m \in late
    BY <1>1, <2>1 DEF BoxInv, VisitsInOrder
  <2>2. CASE m \notin late
    <3>1. InOrder(m) /\ Remembered(m)
      BY <2>2 DEF VisitsInOrder, BoxInv
    <3>2. \A c \in Conn : owner[c] = m => \A j \in 1..Len(wire[c]) : wire[c][j] # v
      BY <1>3 DEF Reports
    <3>3. InOrder(m)'
      <4>1. ASSUME NEW d \in Conn, owner[d] = m
            PROVE  Unbroken(Append(wire[d], v), logged[m] \ {v})
        <5>1. /\ wire[d] \in Seq(Visit \cup {None}) /\ inside[m] \in Visit \cup {None}
              /\ Unbroken(Append(wire[d], inside[m]), logged[m])
          BY <3>1, <4>1 DEF BoxInv, BoxTypeOK, InOrder
        <5>2. \A i \in 1..Len(wire[d]) : wire[d][i] # v
          BY <3>2, <4>1
        <5>3. QED
          BY <5>1, <5>2, UnbrokenNext
      <4>2. QED
        BY <1>1, <3>1, <4>1 DEF InOrder
    <3>4. Remembered(m)'
      BY <1>1, <1>3, <3>1 DEF Remembered, Reports, Known, vars, hubVars, sessVars, memory
    <3>5. QED
      BY <1>1, <2>2, <3>3, <3>4 DEF VisitsInOrder
  <2>3. QED
    BY <2>1, <2>2
<1>5. ASSUME NEW n \in Box, n # m PROVE VisitsInOrder(n)'
  BY <1>1, <1>5, OtherBox DEF BoxInv, vars, hubVars, sessVars, memory
<1>6. BoxTypeOK'
  BY <1>1, <1>2 DEF BoxTypeOK, BoxInv, IInv, memory
<1>7. /\ OwnersFit' /\ PushedAreBoxes' /\ ClockIsPushed' /\ EntriesAreArrivals'
  BY <1>1 DEF BoxInv, OwnersFit, PushedAreBoxes, ClockIsPushed, EntriesAreArrivals,
              Identified, FreshHandler, Known, vars, hubVars, sessVars, memory
<1>8. QED
  BY <1>2, <1>4, <1>5, <1>6, <1>7 DEF BoxInv

\* A heartbeat goes out, and the other connections of the box have none.
LEMMA BeatInOrder ==
  ASSUME BoxInv, NEW c \in Conn, NEW m \in Box, owner[c] = m, InOrder(m) /\ Remembered(m),
         \A d \in Conn \ {c} : owner[d] = m => wire[d] = <<>>,
         wire' = [wire EXCEPT ![c] = Append(@, inside[m])],
         UNCHANGED <<vars, inside, owner, memory>>, logged'[m] = logged[m]
  PROVE  InOrder(m)' /\ Remembered(m)'
<1>1. wire[c] \in Seq(Visit \cup {None}) /\ inside[m] \in Visit \cup {None}
  BY DEF BoxInv, BoxTypeOK
<1>2. /\ wire'[c] = Append(wire[c], inside[m])
      /\ \A d \in Conn \ {c} : wire'[d] = wire[d]
  BY DEF BoxInv, BoxTypeOK
<1>3. InOrder(m)'
  <2>1. Unbroken(Append(wire'[c], inside[m]), logged[m])
    BY <1>1, <1>2, UnbrokenSent DEF InOrder
  <2>2. \A d \in Conn : owner[d] = m => Unbroken(Append(wire'[d], inside[m]), logged[m])
    BY <1>2, <2>1 DEF InOrder
  <2>3. \A d \in Conn : owner[d] = m /\ wire'[d] # <<>> => d = c
    BY <1>2
  <2>4. QED
    BY <2>2, <2>3 DEF InOrder
<1>4. Remembered(m)'
  <2>1. ASSUME NEW d \in Conn, NEW v, owner[d] = m, Reports(d, v)'
        PROVE  Reports(d, v) \/ v = inside[m]
    <3>1. CASE d = c
      <4>1. PICK i \in 1..Len(wire'[c]) : wire'[c][i] = v
        BY <2>1, <3>1 DEF Reports
      <4>2. CASE i = Len(wire[c]) + 1
        BY <1>1, <1>2, <4>1, <4>2, NextReport
      <4>3. CASE i \in 1..Len(wire[c])
        BY <1>1, <1>2, <3>1, <4>1, <4>3, NextReport DEF Reports
      <4>4. QED
        BY <1>1, <1>2, <4>2, <4>3, NextReport
    <3>2. CASE d # c
      BY <1>2, <2>1, <3>2 DEF Reports
    <3>3. QED
      BY <3>1, <3>2
  <2>2. QED
    BY <2>1 DEF Remembered, Known, vars, hubVars, sessVars, memory
<1>5. QED
  BY <1>3, <1>4

LEMMA BeatKeeps ==
  ASSUME BoxInv, NEW c \in Conn, Beat(c)
  PROVE  BoxInv'
<1>0. PICK m \in Box : m = owner[c]
  BY DEF Beat
<1>1. /\ owner[c] = m /\ Len(wire[c]) < InFlight
      /\ wire' = [wire EXCEPT ![c] = Append(@, inside[m])]
      /\ UNCHANGED <<vars, inside, owner, memory, clocked, phantom>>
  BY <1>0 DEF Beat
<1>2. /\ wire'[c] = Append(wire[c], inside[m])
      /\ \A d \in Conn \ {c} : wire'[d] = wire[d]
  BY <1>1 DEF BoxInv, BoxTypeOK
<1>3. /\ late' \subseteq Box /\ logged' \in [Box -> SUBSET Visit]
      /\ \A n \in Box \ {m} : logged'[n] = logged[n] /\ (n \in late' <=> n \in late)
  <2>1. late \subseteq Box /\ logged \in [Box -> SUBSET Visit] /\ m \in Box
    BY <1>0 DEF BoxInv, BoxTypeOK
  <2>2. \/ late' = late \cup {m} /\ logged' = [logged EXCEPT ![m] = {}]
        \/ late' = late /\ logged' = logged
    BY <1>1 DEF Beat
  <2>3. QED
    BY <2>1, <2>2
<1>4. VisitsInOrder(m)'
  <2>1. CASE \E d \in Conn \ {c} : owner[d] = m /\ wire[d] # <<>>
    BY <1>0, <1>1, <2>1 DEF Beat, VisitsInOrder, BoxInv, BoxTypeOK
  <2>2. CASE ~\E d \in Conn \ {c} : owner[d] = m /\ wire[d] # <<>>
    <3>1. late' = late /\ logged' = logged
      BY <1>0, <2>2 DEF Beat
    <3>2. CASE m \in late
      BY <1>1, <3>1, <3>2 DEF VisitsInOrder, BoxInv
    <3>3. CASE m \notin late
      <4>1. InOrder(m) /\ Remembered(m)
        BY <1>1, <3>3 DEF VisitsInOrder, BoxInv
      <4>2. InOrder(m)' /\ Remembered(m)'
        BY <1>1, <2>2, <3>1, <4>1, BeatInOrder
      <4>3. QED
        BY <1>1, <3>1, <3>3, <4>2 DEF VisitsInOrder
    <3>4. QED
      BY <3>2, <3>3
  <2>3. QED
    BY <2>1, <2>2
<1>5. ASSUME NEW n \in Box, n # m PROVE VisitsInOrder(n)'
  BY <1>1, <1>2, <1>3, <1>5, OtherBox DEF BoxInv, vars, hubVars, sessVars, memory
<1>6. IInv'
  BY InvStep, <1>1 DEF BoxInv
<1>7. BoxTypeOK'
  <2>1. wire' \in [Conn -> Seq(Visit \cup {None})]
    BY <1>1 DEF BoxInv, BoxTypeOK
  <2>2. Len(wire'[c]) <= InFlight
    BY <1>1, <1>2, BoxAssumption, NextReport DEF BoxInv, BoxTypeOK
  <2>3. QED
    BY <1>1, <1>2, <1>3, <1>6, <2>1, <2>2 DEF BoxTypeOK, BoxInv, IInv, memory
<1>8. /\ OwnersFit' /\ PushedAreBoxes' /\ ClockIsPushed' /\ EntriesAreArrivals'
  BY <1>1, <1>2 DEF BoxInv, OwnersFit, PushedAreBoxes, ClockIsPushed, EntriesAreArrivals,
              Identified, FreshHandler, Known, vars, hubVars, sessVars, memory
<1>9. QED
  BY <1>4, <1>5, <1>6, <1>7, <1>8 DEF BoxInv

-----------------------------------------------------------------------------
(* A frame is read. *)

\* What Dispatch does, with the handler and the flag spelled out.
Read(c, m, f, h, visit, now, entry) ==
  /\ Handles(c, m, f, h)
  /\ now = IF kind'[h] = "litterbox" /\ IsHeartbeat(f) THEN visit # None ELSE WasWorking(c, h)
  /\ entry = (now /\ ~WasWorking(c, h))
  /\ working' = IF now THEN working \cup {h} ELSE working \ {h}
  /\ pushed' = IF kind'[h] = "litterbox" THEN pushed \cup {h} ELSE pushed \ {h}
  /\ clocked' = IF kind'[h] = "litterbox" /\ ~ClockPushed(h) THEN clocked \cup {m} ELSE clocked
  /\ logged' = IF entry /\ m \notin late
               THEN [logged EXCEPT ![m] = @ \cup {visit}] ELSE logged
  /\ phantom' = IF entry /\ visit \in logged[m] /\ ~Naive(h)
                THEN phantom \cup {m} ELSE phantom
  /\ UNCHANGED <<inside, owner, late>>
  /\ \/ /\ IsHeartbeat(f) /\ wire[c] # <<>> /\ visit = Head(wire[c])
        /\ wire' = [wire EXCEPT ![c] = Tail(@)]
     \/ ~IsHeartbeat(f) /\ visit = None /\ wire' = wire

\* The context of the lemmas below.
Reading(c, m, f, h, visit, now, entry) ==
  /\ BoxInv /\ IInv'
  /\ c \in Conn /\ m \in Mac /\ f \in Frame /\ h \in Hnd /\ owner[c] = m
  /\ now \in BOOLEAN /\ entry \in BOOLEAN
  /\ Read(c, m, f, h, visit, now, entry)

\* An entry is logged of a visit, and only a litter box's handler logs one.
LEMMA EntryIsOfVisit ==
  ASSUME NEW c, NEW m, NEW f, NEW h, NEW visit, NEW now, NEW entry,
         Reading(c, m, f, h, visit, now, entry), entry
  PROVE  /\ kind'[h] = "litterbox" /\ IsHeartbeat(f)
         /\ visit \in Visit /\ visit = Head(wire[c]) /\ wire[c] # <<>>
         /\ m \in Box
<1>1. kind'[h] = "litterbox" /\ IsHeartbeat(f) /\ visit # None
  BY DEF Reading, Read
<1>2. wire[c] # <<>> /\ visit = Head(wire[c]) /\ m \in Box
  BY <1>1 DEF Reading, Read, BoxInv, OwnersFit
<1>3. visit \in Visit \cup {None}
  BY <1>2, HeadTailProperties DEF Reading, BoxInv, BoxTypeOK
<1>4. QED
  BY <1>1, <1>2, <1>3

\* A box's handler that has decoded a heartbeat is the one of its record.
LEMMA OldHandler ==
  ASSUME NEW c, NEW m, NEW f, NEW h, NEW visit, NEW now, NEW entry,
         Reading(c, m, f, h, visit, now, entry), m \in Box, ~FreshHandler(h)
  PROVE  Known(m) /\ h = recHandler[devices[m]] /\ kind'[h] = kind[h]
  BY BoxAssumption DEF Reading, Read, Handles

\* No visit is logged for the second time.
LEMMA NoPhantom ==
  ASSUME NEW c, NEW m, NEW f, NEW h, NEW visit, NEW now, NEW entry,
         Reading(c, m, f, h, visit, now, entry), entry, visit \in logged[m]
  PROVE  Naive(h)
<1> SUFFICES ASSUME ~Naive(h) PROVE FALSE
  OBVIOUS
<1>1. ~FreshHandler(h) /\ "climate" \in decoded[h]
  BY DEF Naive
<1>2. m \in Box /\ wire[c] # <<>> /\ visit = Head(wire[c])
  BY EntryIsOfVisit
<1>3. Known(m) /\ h = recHandler[devices[m]]
  BY <1>1, <1>2, BoxAssumption DEF Reading, Read, Handles
<1>4. Remembered(m)
  BY <1>2 DEF Reading, BoxInv, VisitsInOrder
<1>5. Reports(c, visit)
  <2>1. wire[c] \in Seq(Visit \cup {None})
    BY DEF Reading, BoxInv, BoxTypeOK
  <2>2. 1 \in 1..Len(wire[c]) /\ wire[c][1] = visit
    BY <1>2, <2>1, HeadTailProperties, EmptySeq
  <2>3. QED
    BY <2>2 DEF Reports
<1>6. h \in working
  BY <1>1, <1>3, <1>4, <1>5 DEF Remembered, Reading
<1>7. QED
  BY <1>1, <1>6 DEF Reading, Read, WasWorking

\* What is logged and what is on its way afterwards.
LEMMA LoggedAfter ==
  ASSUME NEW c, NEW m, NEW f, NEW h, NEW visit, NEW now, NEW entry,
         Reading(c, m, f, h, visit, now, entry)
  PROVE  /\ phantom' = phantom /\ UNCHANGED <<inside, owner, late, open>>
         /\ logged' \in [Box -> SUBSET Visit]
         /\ \A n \in Box \ {m} : logged'[n] = logged[n]
         /\ m \in Box => /\ m \in late => logged'[m] = logged[m]
                         /\ \A v \in logged'[m] : v \in logged[m] \/ (v = visit /\ entry)
         /\ \A d \in Conn \ {c} : wire'[d] = wire[d]
         /\ wire'[c] = wire[c] \/ (wire[c] # <<>> /\ wire'[c] = Tail(wire[c]))
         /\ wire' \in [Conn -> Seq(Visit \cup {None})]
<1>1. phantom' = phantom
  BY NoPhantom DEF Reading, Read
<1>2. wire[c] # <<>> => Tail(wire[c]) \in Seq(Visit \cup {None})
  BY HeadTailProperties DEF Reading, BoxInv, BoxTypeOK
<1>3. /\ \A d \in Conn \ {c} : wire'[d] = wire[d]
      /\ wire'[c] = wire[c] \/ (wire[c] # <<>> /\ wire'[c] = Tail(wire[c]))
      /\ wire' \in [Conn -> Seq(Visit \cup {None})]
  BY <1>2 DEF Reading, Read, BoxInv, BoxTypeOK
<1>4. UNCHANGED <<inside, owner, late, open>>
  BY DEF Reading, Read, Handles
<1>5. CASE entry /\ m \notin late
  <2>1. logged' = [logged EXCEPT ![m] = @ \cup {visit}] /\ m \in Box /\ visit \in Visit
    BY <1>5, EntryIsOfVisit DEF Reading, Read
  <2>2. /\ logged' \in [Box -> SUBSET Visit]
        /\ \A n \in Box \ {m} : logged'[n] = logged[n]
        /\ logged'[m] = logged[m] \cup {visit}
    BY <2>1 DEF Reading, BoxInv, BoxTypeOK
  <2>3. QED
    BY <1>1, <1>3, <1>4, <1>5, <2>2
<1>6. CASE ~(entry /\ m \notin late)
  <2>1. logged' = logged
    BY <1>6 DEF Reading, Read
  <2>2. logged' \in [Box -> SUBSET Visit]
    BY <2>1 DEF Reading, BoxInv, BoxTypeOK
  <2>3. QED
    BY <1>1, <1>3, <1>4, <2>1, <2>2
<1>7. QED
  BY <1>5, <1>6

\* The heartbeats that are left are in order: what is logged now was reported by
\* the first of them.
LEMMA ReadInOrder ==
  ASSUME NEW c, NEW m, NEW f, NEW h, NEW visit, NEW now, NEW entry,
         Reading(c, m, f, h, visit, now, entry), m \in Box, InOrder(m), m \notin late
  PROVE  InOrder(m)'
<1>1. owner' = owner /\ inside' = inside /\ c \in Conn /\ m \in Mac /\ owner[c] = m
  BY DEF Reading, Read
<1>2. \A v \in logged'[m] : v \in logged[m] \/ (v = visit /\ entry)
  BY LoggedAfter
<1>3. /\ \A d \in Conn \ {c} : wire'[d] = wire[d]
      /\ wire'[c] = wire[c] \/ (wire[c] # <<>> /\ wire'[c] = Tail(wire[c]))
  BY LoggedAfter
<1>4. \A d \in Conn : wire'[d] # <<>> => wire[d] # <<>>
  BY <1>1, <1>3
<1>5. ASSUME NEW d \in Conn, owner[d] = m
      PROVE  Unbroken(Append(wire'[d], inside[m]), logged'[m])
  <2>1. /\ wire[d] \in Seq(Visit \cup {None}) /\ inside[m] \in Visit \cup {None}
        /\ Unbroken(Append(wire[d], inside[m]), logged[m])
    BY <1>5 DEF Reading, BoxInv, BoxTypeOK, InOrder
  <2>2. CASE wire'[c] = wire[c] /\ ~IsHeartbeat(f)
    <3>1. logged' = logged
      BY <2>2 DEF Reading, Read
    <3>2. QED
      BY <1>3, <2>1, <2>2, <3>1
  <2>3. CASE IsHeartbeat(f) /\ d = c
    <3>1. wire[c] # <<>> /\ wire'[c] = Tail(wire[c]) /\ visit = Head(wire[c])
      BY <2>3 DEF Reading, Read, BoxInv, BoxTypeOK
    <3>2. logged'[m] \subseteq logged[m] \cup {Head(wire[c])}
      BY <1>2, <3>1
    <3>3. QED
      BY <2>1, <2>3, <3>1, <3>2, UnbrokenRead
  <2>4. CASE IsHeartbeat(f) /\ d # c
    <3>1. wire[d] = <<>> /\ wire'[d] = wire[d]
      BY <1>1, <1>3, <1>5, <2>4 DEF Reading, Read, InOrder
    <3>2. QED
      BY <3>1, UnbrokenFirst
  <2>5. CASE ~IsHeartbeat(f)
    BY <2>2, <2>5 DEF Reading, Read
  <2>6. QED
    BY <2>3, <2>4, <2>5
<1>6. QED
  BY <1>1, <1>4, <1>5 DEF InOrder

\* The handler remembers the visit that is logged, and keeps the others.
LEMMA ReadRemembered ==
  ASSUME NEW c, NEW m, NEW f, NEW h, NEW visit, NEW now, NEW entry,
         Reading(c, m, f, h, visit, now, entry), m \in Box, InOrder(m), Remembered(m),
         m \notin late
  PROVE  Remembered(m)'
<1>1. recHandler'[devices'[m]] = h
  BY BoxAssumption DEF Reading, Read, Handles
<1>2. SUFFICES ASSUME "climate" \in decoded'[h], NEW v \in logged'[m],
                      \/ inside'[m] = v
                      \/ \E d \in Conn : owner'[d] = m /\ Reports(d, v)'
               PROVE  now
  <2>1. now => h \in working'
    BY DEF Reading, Read
  <2>2. QED
    BY <1>1, <2>1 DEF Remembered
<1>3. UNCHANGED <<inside, owner>>
  BY LoggedAfter
<1>4. \A d \in Conn : \A i \in 1..Len(wire'[d]) :
        \E k \in 1..Len(wire[d]) : wire'[d][i] = wire[d][k]
  <2> SUFFICES ASSUME NEW d \in Conn, NEW i \in 1..Len(wire'[d])
               PROVE  \E k \in 1..Len(wire[d]) : wire'[d][i] = wire[d][k]
    OBVIOUS
  <2>1. CASE wire'[d] = wire[d]
    BY <2>1
  <2>2. CASE wire[d] # <<>> /\ wire'[d] = Tail(wire[d])
    <3>1. wire[d] \in Seq(Visit \cup {None})
      BY DEF Reading, BoxInv, BoxTypeOK
    <3>2. /\ i + 1 \in 1..Len(wire[d]) /\ wire'[d][i] = wire[d][i + 1]
      BY <2>2, <3>1, HeadTailProperties, LenProperties
    <3>3. QED
      BY <3>2
  <2>3. QED
    BY <2>1, <2>2, LoggedAfter
<1>5. inside[m] = v \/ \E d \in Conn : owner[d] = m /\ Reports(d, v)
  BY <1>2, <1>3, <1>4 DEF Reports
<1>6. CASE v \notin logged[m]
  BY <1>6, LoggedAfter DEF Reading, Read
<1>7. CASE v \in logged[m]
  <2>1. CASE kind'[h] = "litterbox" /\ IsHeartbeat(f)
    <3>1. wire[c] # <<>> /\ visit = Head(wire[c]) /\ (now <=> visit # None)
      BY <2>1 DEF Reading, Read
    <3>2. v # None
      BY <1>7, BoxAssumption DEF Reading, BoxInv, BoxTypeOK
    <3>3. visit = v
      <4> DEFINE t == Append(wire[c], inside[m])
      <4>1. /\ wire[c] \in Seq(Visit \cup {None}) /\ inside[m] \in Visit \cup {None}
            /\ Unbroken(t, logged[m])
        BY DEF Reading, BoxInv, BoxTypeOK, InOrder
      <4>2. \A d \in Conn : owner[d] = m /\ Reports(d, v) => d = c
        BY <3>1 DEF Reading, InOrder, Reports
      <4>3. PICK j \in 1..Len(t) : t[j] = v
        <5>1. CASE inside[m] = v
          BY <4>1, <5>1, NextReport
        <5>2. CASE Reports(c, v)
          BY <4>1, <5>2, NextReport DEF Reports
        <5>3. QED
          BY <1>5, <4>2, <5>1, <5>2
      <4>4. 1 \in 1..j /\ t[1] = visit
        <5>1. Len(wire[c]) \in Nat \ {0} /\ Head(wire[c]) = wire[c][1]
          BY <3>1, <4>1, EmptySeq
        <5>2. QED
          BY <3>1, <4>1, <5>1, NextReport
      <4> HIDE DEF t
      <4>5. QED
        BY <1>7, <3>2, <4>1, <4>3, <4>4 DEF Unbroken
    <3>4. QED
      BY <3>1, <3>2, <3>3
  <2>2. CASE ~(kind'[h] = "litterbox" /\ IsHeartbeat(f))
    <3>1. "climate" \in decoded[h] /\ ~FreshHandler(h)
      BY <1>2, <2>2, HeartbeatsAreDecoded DEF Reading, Read, Handles
    <3>2. Known(m) /\ h = recHandler[devices[m]]
      BY <3>1, BoxAssumption DEF Reading, Read, Handles
    <3>3. h \in working
      BY <1>5, <1>7, <3>1, <3>2 DEF Remembered
    <3>4. now = WasWorking(c, h)
      BY <2>2 DEF Reading, Read
    <3>5. QED
      BY <3>1, <3>3, <3>4 DEF WasWorking
  <2>3. QED
    BY <2>1, <2>2
<1>8. QED
  BY <1>6, <1>7

\* Clocks and memories afterwards.
LEMMA ReadMemory ==
  ASSUME NEW c, NEW m, NEW f, NEW h, NEW visit, NEW now, NEW entry,
         Reading(c, m, f, h, visit, now, entry)
  PROVE  /\ working' \subseteq pushed' /\ pushed' \subseteq Hnd /\ clocked' \subseteq Mac
         /\ PushedAreBoxes' /\ ClockIsPushed'
<1>1. /\ working' = IF now THEN working \cup {h} ELSE working \ {h}
      /\ pushed' = IF kind'[h] = "litterbox" THEN pushed \cup {h} ELSE pushed \ {h}
      /\ clocked' = IF kind'[h] = "litterbox" /\ ~ClockPushed(h) THEN clocked \cup {m}
                                                                ELSE clocked
      /\ h \in Hnd /\ m \in Mac /\ f \in Frame
  BY DEF Reading, Read
<1>2. working \subseteq pushed /\ pushed \subseteq Hnd /\ clocked \subseteq Mac
  BY DEF Reading, BoxInv, BoxTypeOK
<1>3. /\ ~FreshHandler(h) => kind'[h] = kind[h]
      /\ \A g \in Hnd \ {h} : kind'[g] = kind[g] /\ (FreshHandler(g) => FreshHandler(g)')
  BY DEF Reading, Read, Handles
<1>4. pushed' \subseteq Hnd /\ clocked' \subseteq Mac
  BY <1>1, <1>2
<1>5. now => kind'[h] = "litterbox"
  BY <1>2, <1>3 DEF Reading, Read, WasWorking, BoxInv, PushedAreBoxes
<1>6. working' \subseteq pushed'
  BY <1>1, <1>2, <1>5
<1>7. PushedAreBoxes'
  <2> SUFFICES ASSUME NEW g \in pushed' PROVE FreshHandler(g)' \/ kind'[g] = "litterbox"
    BY DEF PushedAreBoxes
  <2>1. CASE g = h
    BY <1>1, <2>1
  <2>2. CASE g # h
    BY <1>1, <1>2, <1>3, <2>2 DEF Reading, BoxInv, PushedAreBoxes
  <2>3. QED
    BY <2>1, <2>2
<1>8. ClockIsPushed'
  <2> SUFFICES ASSUME NEW n \in Box, Known(n)', kind'[recHandler'[devices'[n]]] = "litterbox"
               PROVE  n \in clocked'
    BY DEF ClockIsPushed
  <2>1. CASE n = m
    <3>1. /\ recHandler'[devices'[m]] = h
          /\ Known(m) => h = recHandler[devices[m]] /\ ~FreshHandler(h)
          /\ ~Known(m) => FreshHandler(h)
      BY <2>1, BoxAssumption DEF Reading, Read, Handles
    <3>2. CASE ~ClockPushed(h)
      BY <1>1, <2>1, <3>1, <3>2
    <3>3. CASE ClockPushed(h)
      <4>1. Known(m) /\ h = recHandler[devices[m]] /\ kind[h] = "litterbox"
        BY <1>3, <2>1, <3>1, <3>3 DEF ClockPushed
      <4>2. recHandler[devices[m]] # None
        BY <1>1, <4>1, NoneIsNoHandler
      <4>3. m \in clocked
        BY <2>1, <4>1, <4>2 DEF Reading, BoxInv, ClockIsPushed
      <4>4. QED
        BY <1>1, <2>1, <4>3
    <3>4. QED
      BY <3>2, <3>3
  <2>2. CASE n # m
    <3>1. n \in Mac
      BY BoxAssumption
    <3>2. devices'[n] = devices[n] /\ Known(n)
      BY <2>2, <3>1 DEF Reading, Read, Handles, Known
    <3>3. recHandler'[devices[n]] = recHandler[devices[n]] /\ recHandler[devices[n]] \in Hnd \ {h}
      BY <2>2, <3>1, <3>2 DEF Reading, Read, Handles
    <3>4. kind[recHandler[devices[n]]] = "litterbox" /\ recHandler[devices[n]] # None
      BY <1>3, <3>2, <3>3, NoneIsNoHandler
    <3>5. n \in clocked
      BY <3>2, <3>4 DEF Reading, BoxInv, ClockIsPushed
    <3>6. QED
      BY <1>1, <3>5
  <2>3. QED
    BY <2>1, <2>2
<1>9. QED
  BY <1>4, <1>6, <1>7, <1>8

LEMMA ReadKeeps ==
  ASSUME NEW c, NEW m, NEW f, NEW h, NEW visit, NEW now, NEW entry,
         Reading(c, m, f, h, visit, now, entry)
  PROVE  BoxInv'
<1>1. /\ phantom' = phantom /\ UNCHANGED <<inside, owner, late, open>>
      /\ logged' \in [Box -> SUBSET Visit]
      /\ \A n \in Box \ {m} : logged'[n] = logged[n]
      /\ m \in Box => (m \in late => logged'[m] = logged[m])
      /\ \A d \in Conn \ {c} : wire'[d] = wire[d]
      /\ wire'[c] = wire[c] \/ (wire[c] # <<>> /\ wire'[c] = Tail(wire[c]))
      /\ wire' \in [Conn -> Seq(Visit \cup {None})]
  BY LoggedAfter
<1>2. /\ working' \subseteq pushed' /\ pushed' \subseteq Hnd /\ clocked' \subseteq Mac
      /\ PushedAreBoxes' /\ ClockIsPushed'
  BY ReadMemory
<1>3. IInv' /\ c \in Conn /\ m \in Mac /\ owner[c] = m /\ h \in Hnd
  BY DEF Reading
<1>4. BoxTypeOK'
  <2>1. \A d \in Conn : Len(wire'[d]) <= InFlight
    <3>1. \A d \in Conn : /\ wire[d] \in Seq(Visit \cup {None}) /\ Len(wire[d]) <= InFlight
                          /\ Len(wire[d]) \in Nat
      BY LenProperties DEF Reading, BoxInv, BoxTypeOK
    <3>2. wire[c] # <<>> => Len(Tail(wire[c])) = Len(wire[c]) - 1
      BY <1>3, <3>1, HeadTailProperties
    <3>3. Len(wire'[c]) <= InFlight
      BY <1>1, <1>3, <3>1, <3>2, BoxAssumption
    <3>4. QED
      BY <1>1, <3>1, <3>3
  <2>2. QED
    BY <1>1, <1>2, <1>3, <2>1 DEF BoxTypeOK, Reading, BoxInv, IInv
<1>5. OwnersFit'
  <2> SUFFICES ASSUME NEW d \in Conn
               PROVE  /\ d \in open' <=> owner'[d] # None
                      /\ Identified(d)' => d \in open' /\ macOf'[sessRecord'[d]] = owner'[d]
                      /\ wire'[d] # <<>> => owner'[d] \in Box
    BY DEF OwnersFit
  <2>1. /\ d \in open <=> owner[d] # None
        /\ Identified(d) => d \in open /\ macOf[sessRecord[d]] = owner[d]
        /\ wire[d] # <<>> => owner[d] \in Box
    BY DEF Reading, BoxInv, OwnersFit
  <2>2. Identified(d)' => d \in open /\ macOf'[sessRecord'[d]] = owner[d]
    <3>1. CASE d = c
      BY <1>3, <3>1 DEF Reading, Read, Handles
    <3>2. CASE d # c
      BY <2>1, <3>2 DEF Reading, Read, Handles, Identified
    <3>3. QED
      BY <3>1, <3>2
  <2>3. QED
    BY <1>1, <2>1, <2>2
<1>6. ASSUME NEW n \in Box PROVE VisitsInOrder(n)'
  <2>1. VisitsInOrder(n)
    BY DEF Reading, BoxInv
  <2>2. CASE n = m
    <3>1. CASE m \in late
      BY <1>1, <2>1, <2>2, <3>1 DEF VisitsInOrder
    <3>2. CASE m \notin late
      BY <1>1, <2>1, <2>2, <3>2, ReadInOrder, ReadRemembered DEF VisitsInOrder
    <3>3. QED
      BY <3>1, <3>2
  <2>3. CASE n # m
    <3>1. n \in Mac
      BY BoxAssumption
    <3>2. /\ devices'[n] = devices[n]
          /\ Known(n) => /\ recHandler'[devices[n]] = recHandler[devices[n]]
                         /\ recHandler[devices[n]] \in Hnd \ {h}
      BY <2>3, <3>1 DEF Reading, Read, Handles
    <3>3. \A g \in Hnd \ {h} : decoded'[g] = decoded[g] /\ (g \in working => g \in working')
      BY DEF Reading, Read, Handles
    <3>4. \A d \in Conn : owner[d] = n => wire'[d] = wire[d]
      BY <1>1, <1>3, <2>3
    <3>5. QED
      BY <1>1, <2>1, <2>3, <3>2, <3>3, <3>4, OtherBox
  <2>4. QED
    BY <2>2, <2>3
<1>7. EntriesAreArrivals'
  BY <1>1 DEF Reading, BoxInv, EntriesAreArrivals
<1>8. QED
  BY <1>2, <1>3, <1>4, <1>5, <1>6, <1>7 DEF BoxInv

LEMMA FrameKeeps ==
  ASSUME BoxInv, NEW c \in Conn, NEW m \in Mac, NEW f \in Dialect[m], owner[c] = m,
         HeartbeatRead(c, f) \/ OtherRead(c, f)
  PROVE  BoxInv'
<1>1. PICK visit :
        /\ Dispatch(c, f, visit)
        /\ \/ /\ IsHeartbeat(f) /\ wire[c] # <<>> /\ visit = Head(wire[c])
              /\ wire' = [wire EXCEPT ![c] = Tail(@)]
           \/ ~IsHeartbeat(f) /\ visit = None /\ wire' = wire
  BY DEF HeartbeatRead, OtherRead
<1>2. FirstFrame(c, m, f) \/ LaterFrame(c, f)
  BY <1>1 DEF Dispatch
<1>3. Identified(c) => macOf[sessRecord[c]] = m
  BY DEF BoxInv, OwnersFit
<1>4. Handles(c, m, f, sessHandler'[c]) /\ IInv'
  BY <1>2, <1>3, DispatchHandles, InvStep DEF BoxInv
<1>5. PICK h \in Hnd : h = sessHandler'[c]
  BY <1>4 DEF Handles
<1>6. PICK now \in BOOLEAN :
        now = IF kind'[h] = "litterbox" /\ IsHeartbeat(f) THEN visit # None ELSE WasWorking(c, h)
  BY DEF WasWorking
<1>7. PICK entry \in BOOLEAN : entry = (now /\ ~WasWorking(c, h))
  BY DEF WasWorking
<1>8. Read(c, m, f, h, visit, now, entry)
  BY <1>1, <1>4, <1>5, <1>6, <1>7 DEF Dispatch, Read
<1>9. Reading(c, m, f, h, visit, now, entry)
  BY <1>4, <1>6, <1>7, <1>8, DialectAssumption DEF Reading
<1>10. QED
  BY <1>9, ReadKeeps

-----------------------------------------------------------------------------

LEMMA BoxInvInit == BoxInit => BoxInv
<1> SUFFICES ASSUME BoxInit PROVE BoxInv
  OBVIOUS
<1> USE DEF BoxInit
<1>1. IInv
  BY InvInit
<1>2. \A m \in Mac : ~Known(m)
  BY DEF Init, HubInit, Known
<1>3. \A c \in Conn : ~Identified(c) /\ c \notin open
  BY DEF Init, SessInit, Identified
<1>4. BoxTypeOK
  <2>1. wire \in [Conn -> Seq(Visit \cup {None})] /\ \A c \in Conn : Len(wire[c]) <= InFlight
    BY BoxAssumption
  <2>2. QED
    BY <1>1, <2>1 DEF BoxTypeOK, IInv
<1>5. OwnersFit
  BY <1>3 DEF OwnersFit
<1>6. PushedAreBoxes /\ EntriesAreArrivals
  BY DEF PushedAreBoxes, EntriesAreArrivals
<1>7. ClockIsPushed /\ \A m \in Box : Remembered(m)
  BY <1>2, BoxAssumption DEF ClockIsPushed, Remembered
<1>8. \A m \in Box : InOrder(m)
  BY BoxAssumption, NoneAssumption DEF InOrder
<1>9. QED
  BY <1>1, <1>4, <1>5, <1>6, <1>7, <1>8 DEF BoxInv, VisitsInOrder

LEMMA BoxInvStep == BoxInv /\ [BoxNext]_boxVars => BoxInv'
<1> SUFFICES ASSUME BoxInv, [BoxNext]_boxVars PROVE BoxInv'
  OBVIOUS
<1>1. ASSUME NEW m \in Box, CatLeaves(m) PROVE BoxInv'
  BY <1>1, QuietStepKeeps DEF CatLeaves
<1>2. ASSUME NEW m \in Box, NEW v \in Visit, CatComes(m, v) PROVE BoxInv'
  BY <1>2, CatComesKeeps
<1>3. ASSUME NEW c \in Conn, NEW m \in Mac, Connect(c, m) PROVE BoxInv'
  BY <1>3, ConnectKeeps
<1>4. ASSUME NEW c \in Conn, Beat(c) PROVE BoxInv'
  BY <1>4, BeatKeeps
<1>5. ASSUME NEW c \in Conn, NEW m \in Mac, NEW f \in Dialect[m], owner[c] = m,
             HeartbeatRead(c, f) \/ OtherRead(c, f)
      PROVE  BoxInv'
  BY <1>5, FrameKeeps
<1>6. ASSUME NEW c \in Conn, Disconnect(c) PROVE BoxInv'
  BY <1>6, DisconnectKeeps
<1>7. ASSUME NEW r \in Rec, DelayOver(r) PROVE BoxInv'
  BY <1>7, DelayOverKeeps
<1>8. ASSUME TimePasses, UNCHANGED <<world, memory, history>> PROVE BoxInv'
  BY <1>8, QuietStepKeeps DEF world
<1>9. ASSUME UNCHANGED boxVars PROVE BoxInv'
  BY <1>9, QuietStepKeeps DEF boxVars, world
<1>10. QED
  BY <1>1, <1>2, <1>3, <1>4, <1>5, <1>6, <1>7, <1>8, <1>9 DEF BoxNext

\* The inductive invariant holds in every reachable state (litterbox.py:91-147,
\* server.py:57-133), for any boxes and other devices, connections, heartbeats on
\* their way and visits.
THEOREM BoxInvariance == BoxSpec => []BoxInv
  BY BoxInvInit, BoxInvStep, PTL DEF BoxSpec

\* Type correctness of the boxes and of what their handlers remember (base.py:61-62,
\* litterbox.py:88-95).
THEOREM BoxTypes == BoxSpec => []BoxTypeOK
<1>1. BoxInv => BoxTypeOK
  BY DEF BoxInv
<1>2. QED
  BY <1>1, BoxInvariance, PTL

\* One visit of a cat is logged once (litterbox.py:126-137), through reconnects and
\* for any number of heartbeats on their way, until two connections overtake each
\* other; the first heartbeat of a new handler may log it again.
THEOREM VisitIsLoggedOnce == BoxSpec => []EntriesAreArrivals
<1>1. BoxInv => EntriesAreArrivals
  BY DEF BoxInv
<1>2. QED
  BY <1>1, BoxInvariance, PTL

\* A box that the hub knows has been sent the clock (litterbox.py:93-95, 144-147).
THEOREM EveryBoxGetsTheClock == BoxSpec => []ClockIsPushed
<1>1. BoxInv => ClockIsPushed
  BY DEF BoxInv
<1>2. QED
  BY <1>1, BoxInvariance, PTL

\* What a litter box or another device is sent stays with it (server.py:69,
\* base.py:104-110), whatever else is connected.
THEOREM BoxCommandsAreOwned == BoxSpec => []CommandsStayHome
<1>1. BoxInv => CommandsStayHome
  BY OwnersStayHome DEF BoxInv, IInv, TypeOK, SessInv, HandlerInv
<1>2. QED
  BY <1>1, BoxInvariance, PTL

\* The litter boxes implement the local server (litterbox.py on server.py): what
\* their handlers remember hinders nothing the server does and adds nothing to it.
THEOREM BoxImplementsServer == BoxSpec => Spec
<1>1. BoxInit => Init
  BY DEF BoxInit
<1>2. BoxInv /\ [BoxNext]_boxVars => [Next]_vars
  <2> SUFFICES ASSUME BoxInv, [BoxNext]_boxVars PROVE [Next]_vars
    OBVIOUS
  <2>1. ASSUME NEW m \in Box, CatLeaves(m) \/ \E v \in Visit : CatComes(m, v)
        PROVE  [Next]_vars
    BY <2>1 DEF CatLeaves, CatComes
  <2>2. ASSUME NEW c \in Conn, NEW m \in Mac, Connect(c, m) PROVE [Next]_vars
    BY <2>2 DEF Connect, Next
  <2>3. ASSUME NEW c \in Conn, Beat(c) PROVE [Next]_vars
    BY <2>3 DEF Beat
  <2>4. ASSUME NEW c \in Conn, NEW m \in Mac, NEW f \in Dialect[m], owner[c] = m,
               HeartbeatRead(c, f) \/ OtherRead(c, f)
        PROVE  [Next]_vars
    <3>1. FirstFrame(c, m, f) \/ LaterFrame(c, f)
      BY <2>4 DEF HeartbeatRead, OtherRead, Dispatch
    <3>2. Identified(c) => macOf[sessRecord[c]] = m
      BY <2>4 DEF BoxInv, OwnersFit
    <3>3. QED
      BY <3>1, <3>2, DispatchHandles DEF BoxInv
  <2>5. ASSUME NEW c \in Conn, Disconnect(c) PROVE [Next]_vars
    BY <2>5 DEF Disconnect, Next
  <2>6. ASSUME NEW r \in Rec, DelayOver(r) PROVE [Next]_vars
    BY <2>6 DEF DelayOver, Next
  <2>7. ASSUME TimePasses \/ UNCHANGED boxVars PROVE [Next]_vars
    BY <2>7 DEF Next, boxVars
  <2>8. QED
    BY <2>1, <2>2, <2>3, <2>4, <2>5, <2>6, <2>7 DEF BoxNext
<1>3. QED
  BY <1>1, <1>2, BoxInvariance, PTL DEF BoxSpec, Spec

\* ... so that a litter box, too, is never reported gone over the head of a
\* connection (hub.py:179-226).
THEOREM BoxImplementsAvailability == BoxSpec => PromiseSafety
  BY BoxImplementsServer, ImplementsAvailability, PTL

=============================================================================
