------------------------------ MODULE Devices ------------------------------
(***************************************************************************)
(* The device handlers and the registry that picks one: pure functions of  *)
(* a frame.  A frame is abstracted to the four things the code branches    *)
(* on: its message type, its subsystem, its command, and whether its body  *)
(* is long enough for the decoder that wants it.                           *)
(***************************************************************************)

MsgType == {"command", "ack", "report", "query"}

Subsystem == {"main", "feeder", "scooper", "other"}

\* The command ids the handlers name, and one id none of them knows.
Command == {"status", "time", "feed", "feed_report", "visit",
            "ping", "heartbeat", "heartbeat_ack", "poll", "grid",
            "time_set", "state", "state_ack", "other"}

Frame == [type : MsgType, sub : Subsystem, cmd : Command, full : BOOLEAN]

\* DeviceHandler.device_type of the registered classes.
Class == {"feeder", "litterbox", "unidentified"}

-----------------------------------------------------------------------------
(* Which handler owns a connection: decided on its first frame. *)

FeederClaims(f) == f.cmd = "status" \/ f.sub = "feeder"

LitterBoxClaims(f) ==
  f.cmd \in {"ping", "heartbeat", "grid"} \/ f.sub = "scooper"

\* The registry asks the handlers in the order devices/__init__.py imports
\* them; the generic one claims whatever is left.
FindHandler(f) ==
  IF FeederClaims(f) THEN "feeder"
  ELSE IF LitterBoxClaims(f) THEN "litterbox"
  ELSE "unidentified"

-----------------------------------------------------------------------------
(* What a handler keeps of a frame: the groups of keys of its state dict   *)
(* that the frame fills.                                                   *)

Facet == {"bowl", "last_feed", "last_visit",            \* feeder
          "climate", "last_event",                      \* litter box
          "fingerprint"}                                \* generic

FeederDecodes(f) ==
  IF f.type # "report" THEN {}
  ELSE IF f.cmd = "status" THEN {"bowl"}
  ELSE IF f.cmd = "feed_report" THEN {"last_feed"}
  ELSE IF f.cmd = "visit" /\ f.full THEN {"last_visit"}
  ELSE {}

LitterBoxDecodes(f) ==
  IF f.cmd = "heartbeat" /\ f.type = "ack" /\ f.full THEN {"climate"}
  ELSE IF f.cmd = "state" /\ f.type = "report" THEN {"last_event"}
  ELSE {}

Decodes(k, f) ==
  CASE k = "feeder"    -> FeederDecodes(f)
    [] k = "litterbox" -> LitterBoxDecodes(f)
    [] OTHER           -> {"fingerprint"}

=============================================================================
