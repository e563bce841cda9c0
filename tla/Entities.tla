------------------------------ MODULE Entities ------------------------------
(***************************************************************************)
(* What a device shows in Home Assistant: the entities that are announced  *)
(* for its type, the key of the state payload each of them displays, and   *)
(* the keys that payload has.                                              *)
(***************************************************************************)

FeederEntities ==
  [bowl |-> "bowl_grams", feeding |-> "active", last_feed |-> "last_feed_portions",
   visit_count |-> "last_visit_count", visit_length |-> "last_visit_seconds"]

\* The number and the button of a feeder take commands; they show no key.
FeederControls == {"portions", "feed"}

LitterBoxEntities ==
  [working |-> "working", temperature |-> "temperature", humidity |-> "humidity",
   battery |-> "battery_percent", weight |-> "last_entry_weight",
   last_entry |-> "last_entry_at", last_event |-> "last_event_at",
   raw_status |-> "last_status_hex"]

GenericEntities == [last_command |-> "last_command"]

\* discovery_for: the sensors of a device type with the key each one shows ...
Sensors(type) ==
  CASE type = "feeder"    -> FeederEntities
    [] type = "litterbox" -> LitterBoxEntities
    [] OTHER              -> GenericEntities

Controls(type) == IF type = "feeder" THEN FeederControls ELSE {}

\* ... and all that is announced for it.
Announced(type) == DOMAIN Sensors(type) \cup Controls(type)

Entity == UNION {Announced(t) : t \in {"feeder", "litterbox", "unidentified"}}

DecodedKeys ==
  {"bowl_grams", "active", "last_feed_portions", "last_visit_seconds", "last_visit_count",
   "working", "temperature", "humidity", "battery_percent", "last_entry_weight",
   "last_entry_at", "last_event_at", "last_status_hex"}

\* state_payload: the keys of every handler, and one for what is unidentified.
StateKeys(type) ==
  DecodedKeys \cup {"device_type", "sub_type"}
              \cup IF type = "unidentified" THEN {"last_command"} ELSE {}

=============================================================================
