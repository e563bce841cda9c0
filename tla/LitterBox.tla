----------------------------- MODULE LitterBox -----------------------------
(***************************************************************************)
(* Litter boxes on the local server.  A box tells with every heartbeat     *)
(* whether a cat is in it; its handler logs an entry when that flag rises, *)
(* and pushes the clock to the box once.  Both memories, the last flag and *)
(* whether the clock was pushed, belong to the handler object: overlapping *)
(* connections share them, a reconnect takes them over, and a device that  *)
(* the hub has forgotten starts without them.  Heartbeats of one           *)
(* connection arrive in order, those of two in any order.                  *)
(*                                                                         *)
(* Visits of cats have names, which only the properties look at: the code  *)
(* sees of a heartbeat whether it reports one.                             *)
(***************************************************************************)
EXTENDS LocalServer, Sequences

CONSTANTS
  Box,      \* litter boxes each of which speaks to one handler class
  Visit,    \* names of the visits that are on or reported on the way
  InFlight  \* bound: heartbeats of a connection that were not read yet

ASSUME BoxAssumption ==
  /\ Box \subseteq Mac /\ \A m \in Box : OneClassFor(m)
  /\ InFlight \in Nat /\ None \notin Visit

VARIABLES
  inside,    \* the visit that is on at a box
  owner,     \* the device that opened a connection
  wire,      \* what the heartbeats on their way report: a visit or none
  working,   \* handlers whose state["working"] is true
  pushed,    \* handlers whose _time_pushed is true
  \* and, kept for the properties only:
  logged,    \* visits of a box that an entry was logged for, kept until it is late
  late,      \* boxes that had heartbeats on the way on two connections
  clocked,   \* devices that were sent the clock since their record was made
  phantom    \* boxes that had a visit logged twice

world == <<inside, owner, wire>>
memory == <<working, pushed>>
history == <<logged, late, clocked, phantom>>
boxVars == <<vars, world, memory, history>>

BoxTypeOK ==
  /\ TypeOK
  /\ inside \in [Box -> Visit \cup {None}] /\ owner \in [Conn -> Mac \cup {None}]
  /\ wire \in [Conn -> Seq(Visit \cup {None})]
  /\ \A c \in Conn : Len(wire[c]) <= InFlight
  /\ working \subseteq pushed /\ pushed \subseteq Hnd
  /\ logged \in [Box -> SUBSET Visit]
  /\ late \subseteq Box /\ clocked \subseteq Mac /\ phantom \subseteq Box

BoxInit ==
  /\ Init
  /\ inside = [m \in Box |-> None]
  /\ owner = [c \in Conn |-> None]
  /\ wire = [c \in Conn |-> <<>>]
  /\ working = {} /\ pushed = {}
  /\ logged = [m \in Box |-> {}]
  /\ late = {} /\ clocked = {} /\ phantom = {}

-----------------------------------------------------------------------------
(* Cats, and what a box sends. *)

\* A heartbeat reports visit v.
Reports(c, v) == \E i \in 1..Len(wire[c]) : wire[c][i] = v

CatComes(m, v) ==
  /\ inside[m] = None
  /\ \A c \in Conn : owner[c] = m => ~Reports(c, v)
  /\ inside' = [inside EXCEPT ![m] = v]
  /\ logged' = [logged EXCEPT ![m] = @ \ {v}]
  /\ UNCHANGED <<vars, owner, wire, memory, late, clocked, phantom>>

CatLeaves(m) ==
  /\ inside[m] # None
  /\ inside' = [inside EXCEPT ![m] = None]
  /\ UNCHANGED <<vars, owner, wire, memory, history>>

Connect(c, m) ==
  /\ Accept(c)
  /\ owner' = [owner EXCEPT ![c] = m]
  /\ UNCHANGED <<inside, wire, memory, history>>

Beat(c) ==
  /\ owner[c] \in Box /\ Len(wire[c]) < InFlight
  /\ wire' = [wire EXCEPT ![c] = Append(@, inside[owner[c]])]
  /\ IF \E d \in Conn \ {c} : owner[d] = owner[c] /\ wire[d] # <<>>
     THEN late' = late \cup {owner[c]} /\ logged' = [logged EXCEPT ![owner[c]] = {}]
     ELSE UNCHANGED <<late, logged>>
  /\ UNCHANGED <<vars, inside, owner, memory, clocked, phantom>>

-----------------------------------------------------------------------------
(* The handler. *)

\* A heartbeat with the body the decoder wants.
IsHeartbeat(f) == "climate" \in Decodes("litterbox", f)

\* Mutant: the last flag is remembered for a connection, not for the device.
WasWorkingHere(c, h) == Identified(c) /\ h \in working

\* bool(self.state.get("working")); a new handler's state is empty.
WasWorking(c, h) == ~FreshHandler(h) /\ h \in working

\* Mutant: the flag is the class's, one push serves all boxes.
ClockPushedToAny(h) == pushed # {}

ClockPushed(h) == ~FreshHandler(h) /\ h \in pushed

\* A handler that has not decoded a heartbeat.
Naive(h) == FreshHandler(h) \/ "climate" \notin decoded[h]

\* Session.dispatch hands frame f of connection c to its handler, which decodes
\* it; a heartbeat reports `visit'.  What is sent back besides the clock does not
\* matter here.
Dispatch(c, f, visit) ==
  LET m == owner[c]
      h == sessHandler'[c]
      isBox == kind'[h] = "litterbox"
      now == IF isBox /\ IsHeartbeat(f) THEN visit # None ELSE WasWorking(c, h)
      entry == now /\ ~WasWorking(c, h)
  IN  /\ FirstFrame(c, m, f) \/ LaterFrame(c, f)
      /\ working' = IF now THEN working \cup {h} ELSE working \ {h}
      /\ pushed' = IF isBox THEN pushed \cup {h} ELSE pushed \ {h}
      /\ clocked' = IF isBox /\ ~ClockPushed(h) THEN clocked \cup {m} ELSE clocked
      /\ logged' = IF entry /\ m \notin late
                   THEN [logged EXCEPT ![m] = @ \cup {visit}] ELSE logged
      /\ phantom' = IF entry /\ visit \in logged[m] /\ ~Naive(h)
                    THEN phantom \cup {m} ELSE phantom
      /\ UNCHANGED <<inside, owner, late>>

HeartbeatRead(c, f) ==
  /\ IsHeartbeat(f)
  /\ wire[c] # <<>>
  /\ wire' = [wire EXCEPT ![c] = Tail(@)]
  /\ Dispatch(c, f, Head(wire[c]))

OtherRead(c, f) ==
  /\ ~IsHeartbeat(f)
  /\ Dispatch(c, f, None)
  /\ UNCHANGED wire

\* A handler nobody refers to any more is gone, and what it remembered with it.
Collect ==
  /\ working' = {h \in working : ~FreshHandler(h)'}
  /\ pushed' = {h \in pushed : ~FreshHandler(h)'}

\* The connection ends; heartbeats that were not read are lost.
Disconnect(c) ==
  /\ CloseIdentified(c) \/ CloseUnidentified(c)
  /\ owner' = [owner EXCEPT ![c] = None]
  /\ wire' = [wire EXCEPT ![c] = <<>>]
  /\ Collect
  /\ UNCHANGED <<inside, history>>

DelayOver(r) ==
  /\ ExpireTimer(r)
  /\ Collect
  /\ clocked' = {m \in clocked : devices'[m] # None}
  /\ UNCHANGED <<world, logged, late, phantom>>

BoxNext ==
  \/ \E m \in Box : CatLeaves(m) \/ \E v \in Visit : CatComes(m, v)
  \/ \E c \in Conn :
       \/ \E m \in Mac : Connect(c, m)
       \/ Beat(c)
       \/ \E m \in Mac : \E f \in Dialect[m] :
            owner[c] = m /\ (HeartbeatRead(c, f) \/ OtherRead(c, f))
       \/ Disconnect(c)
  \/ \E r \in Rec : DelayOver(r)
  \/ TimePasses /\ UNCHANGED <<world, memory, history>>

BoxSpec == BoxInit /\ [][BoxNext]_boxVars

-----------------------------------------------------------------------------

\* One visit is logged once (litterbox.py:126-137), also when the box drops its
\* connection and comes back while the cat is inside.  Not so by the first
\* heartbeat of a new handler, which may find the cat inside, nor once heartbeats
\* of two connections can overtake each other.
EntriesAreArrivals == phantom = {}

\* A box the hub knows has been sent the clock (litterbox.py:93-95, 144-147),
\* through whichever connection and handler it came in.
ClockIsPushed ==
  \A m \in Box :
    Known(m) /\ recHandler[devices[m]] # None
      => (kind[recHandler[devices[m]]] = "litterbox" => m \in clocked)

-----------------------------------------------------------------------------
(* The invariant the proofs use. *)

\* A connection is one device's while it is open, and only that device's frames
\* come in on it.
OwnersFit ==
  \A c \in Conn :
    /\ c \in open <=> owner[c] # None
    /\ Identified(c) => c \in open /\ macOf[sessRecord[c]] = owner[c]
    /\ wire[c] # <<>> => owner[c] \in Box

\* Only a litter box's handler has pushed the clock.
PushedAreBoxes == \A h \in pushed : FreshHandler(h) \/ kind[h] = "litterbox"

\* Heartbeats report a visit without a break, and all before one that reports a
\* visit of `seen' report it as well.
Unbroken(reports, seen) ==
  \A j \in 1..Len(reports) : reports[j] # None =>
    \A i \in 1..j :
      /\ reports[j] \in seen => reports[i] = reports[j]
      /\ reports[i] = reports[j] => \A k \in i..j : reports[k] = reports[j]

\* The heartbeats of a box come in in the order in which they were sent: one
\* connection has them all, and they are unbroken, the next one included.
InOrder(m) ==
  /\ \A c, d \in Conn :
       owner[c] = m /\ owner[d] = m /\ wire[c] # <<>> /\ wire[d] # <<>> => c = d
  /\ \A c \in Conn :
       owner[c] = m => Unbroken(Append(wire[c], inside[m]), logged[m])

\* A visit that was logged and that a heartbeat may still report is one the
\* handler remembers.
Remembered(m) ==
  LET h == recHandler[devices[m]]
  IN  Known(m) /\ "climate" \in decoded[h] =>
        \A v \in logged[m] :
          inside[m] = v \/ (\E c \in Conn : owner[c] = m /\ Reports(c, v)) => h \in working

VisitsInOrder(m) == IF m \in late THEN logged[m] = {} ELSE InOrder(m) /\ Remembered(m)

\* The inductive invariant of the boxes (litterbox.py:91-147, server.py:57-133).
BoxInv ==
  /\ BoxTypeOK /\ IInv /\ OwnersFit /\ PushedAreBoxes
  /\ ClockIsPushed /\ EntriesAreArrivals
  /\ \A m \in Box : VisitsInOrder(m)

=============================================================================
