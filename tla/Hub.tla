-------------------------------- MODULE Hub --------------------------------
(***************************************************************************)
(* The hub's device table: one record per known device, a count of the     *)
(* connections that carry it, and the delayed _expire calls that drop a    *)
(* device which never came back.                                           *)
(*                                                                         *)
(* Records are Python objects and _expire compares them by identity, so    *)
(* they are values of Rec here; a value is used again only once nothing    *)
(* refers to it.  Time is kept relative: `goneFor' is the age of           *)
(* disconnected_at in ticks and `timers' holds what is left of each delay. *)
(***************************************************************************)
EXTENDS Integers

CONSTANTS
  Mac,    \* device addresses
  Rec,    \* DeviceRecord objects
  None,   \* Python's None
  Grace   \* offline_grace, in ticks

ASSUME GraceAssumption == Grace \in Nat \ {0}
ASSUME NoneAssumption == None \notin Rec \cup Mac \cup Int

VARIABLES
  devices,   \* Hub.devices: the record known for each address
  macOf,     \* DeviceRecord.mac
  sessions,  \* DeviceRecord.sessions
  goneFor,   \* age of DeviceRecord.disconnected_at, up to Grace; None if unset
  timers     \* remaining delays of the pending _expire(mac, rec) calls of a record

hubVars == <<devices, macOf, sessions, goneFor, timers>>

\* Two calls of one record with the same remaining delay are kept as one:
\* a call that finds nothing to do changes nothing but `timers'.
HubTypeOK ==
  /\ devices \in [Mac -> Rec \cup {None}]
  /\ macOf \in [Rec -> Mac \cup {None}]
  /\ sessions \in [Rec -> Nat]
  /\ goneFor \in [Rec -> 0..Grace \cup {None}]
  /\ timers \in [Rec -> SUBSET (0..Grace)]

HubInit ==
  /\ devices = [m \in Mac |-> None]
  /\ macOf = [r \in Rec |-> None]
  /\ sessions = [r \in Rec |-> 0]
  /\ goneFor = [r \in Rec |-> None]
  /\ timers = [r \in Rec |-> {}]

Known(m) == devices[m] # None

\* DeviceRecord.snapshot()["online"]
Online(m) == Known(m) /\ sessions[devices[m]] > 0

\* A new DeviceRecord: neither the table nor a pending call refers to it.
FreshRecord(r) ==
  /\ \A m \in Mac : devices[m] # r
  /\ timers[r] = {}

-----------------------------------------------------------------------------

\* Mutant: a connection of a known device is not counted.
AttachKnownUncounted(m, r) ==
  /\ devices[m] = r
  /\ goneFor' = [goneFor EXCEPT ![r] = None]
  /\ UNCHANGED <<devices, macOf, sessions, timers>>

\* Hub.attach on a device the hub still knows: the record is kept and a
\* pending expiry loses its ground.
AttachKnown(m, r) ==
  /\ devices[m] = r
  /\ sessions' = [sessions EXCEPT ![r] = @ + 1]
  /\ goneFor' = [goneFor EXCEPT ![r] = None]
  /\ UNCHANGED <<devices, macOf, timers>>

\* Hub.attach on an unknown device: get_or_create makes the record.
AttachNew(m, r) ==
  /\ ~Known(m)
  /\ FreshRecord(r)
  /\ devices' = [devices EXCEPT ![m] = r]
  /\ macOf' = [macOf EXCEPT ![r] = m]
  /\ sessions' = [sessions EXCEPT ![r] = 1]
  /\ goneFor' = [goneFor EXCEPT ![r] = None]
  /\ UNCHANGED timers

\* The last connection of a known device closes, and `arm' is what the
\* call_later leaves pending.  The mutants of Detach differ in it.
LastClose(m, arm) ==
  /\ Known(m)
  /\ sessions[devices[m]] <= 1
  /\ sessions' = [sessions EXCEPT ![devices[m]] = 0]
  /\ goneFor' = [goneFor EXCEPT ![devices[m]] = 0]
  /\ timers' = [timers EXCEPT ![devices[m]] = arm]
  /\ UNCHANGED <<devices, macOf>>

\* A close that leaves the device another connection.
OtherClose(m) ==
  /\ Known(m)
  /\ sessions[devices[m]] > 1
  /\ sessions' = [sessions EXCEPT ![devices[m]] = @ - 1]
  /\ UNCHANGED <<devices, macOf, goneFor, timers>>

DetachUnknown(m) == ~Known(m) /\ UNCHANGED hubVars

\* Mutant: a pending call is thought to be enough.
DetachArmsOnce(m) ==
  \/ DetachUnknown(m)
  \/ OtherClose(m)
  \/ LastClose(m, IF timers[devices[m]] = {} THEN {Grace} ELSE timers[devices[m]])

\* Mutant: the close of the last connection is noted and nothing is scheduled.
DetachUnarmed(m) ==
  \/ DetachUnknown(m)
  \/ OtherClose(m)
  \/ LastClose(m, timers[devices[m]])

\* The record is found by address, whatever record the closing session holds.
\* Only the close that leaves no connection starts the grace period.
Detach(m) ==
  \/ DetachUnknown(m)
  \/ OtherClose(m)
  \/ LastClose(m, timers[devices[m]] \cup {Grace})

\* Mutant: _expire does not look at the connections.
ExpirableOnline(r) == devices[macOf[r]] = r

\* The conditions under which _expire still removes the device.
Expirable(r) ==
  /\ devices[macOf[r]] = r
  /\ sessions[r] = 0
  /\ goneFor[r] # None

\* A delay that ran out: _expire, with Hub.remove.
Expire(r) ==
  /\ 0 \in timers[r]
  /\ timers' = [timers EXCEPT ![r] = @ \ {0}]
  /\ devices' = IF Expirable(r) THEN [devices EXCEPT ![macOf[r]] = None] ELSE devices
  /\ UNCHANGED <<macOf, sessions, goneFor>>

\* Time passes.  The event loop runs a call that is due before the next tick.
Tick ==
  /\ \A r \in Rec : 0 \notin timers[r]
  /\ timers' = [r \in Rec |-> {k - 1 : k \in timers[r]}]
  /\ goneFor' = [r \in Rec |-> IF goneFor[r] \in 0..(Grace - 1) THEN goneFor[r] + 1
                                                               ELSE goneFor[r]]
  /\ UNCHANGED <<devices, macOf, sessions>>

-----------------------------------------------------------------------------

\* What the hub shows of its devices (hub.py:57, 223-226), as the abstract
\* specification sees it.
shown == [m \in Mac |-> IF ~Known(m) THEN "absent"
                       ELSE IF Online(m) THEN "online" ELSE "grace"]

Promise == INSTANCE Availability WITH avail <- shown

\* The hub implements Availability (hub.py:179-226): no device with a
\* connection is ever reported gone, only one in its grace period is, and one
\* that stays away is reported in the end.
PromiseKept == Promise!Spec

\* The same without the promise that it is reported in the end.
PromiseSafety == Promise!Safety

\* However often a device drops and reconnects (hub.py:187, 210), once it has no
\* connection an _expire call is pending that is due exactly when its grace
\* period ends: it is never forgotten and never reported late.
ExpiryArmed ==
  \A m \in Mac :
    Known(m) /\ ~Online(m)
      => /\ goneFor[devices[m]] # None
         /\ (Grace - goneFor[devices[m]]) \in timers[devices[m]]

\* A device is reported gone only after its last connection has been closed
\* for the whole of offline_grace (hub.py:194-197, the docstring of detach).
GraceHonoured ==
  [][\A m \in Mac :
       Known(m) /\ devices'[m] = None => goneFor[devices[m]] = Grace]_hubVars

\* Parts of the inductive invariant: a record is known under its own address,
\* a pending _expire call is for a record with an address, and disconnected_at
\* is set exactly while there is no connection.
RecordsAreOwned == \A m \in Mac : Known(m) => macOf[devices[m]] = m

TimersOwned == \A r \in Rec : timers[r] # {} => macOf[r] \in Mac

GoneMatches ==
  \A m \in Mac : Known(m) => (goneFor[devices[m]] = None <=> sessions[devices[m]] > 0)

=============================================================================
