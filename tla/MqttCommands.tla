---------------------------- MODULE MqttCommands ----------------------------
(***************************************************************************)
(* The command topics of the MQTT contract: how skylights-core (mqtt.rs)   *)
(* parses and checks a payload, and which action mqtt_task makes of it.  A *)
(* payload is what serde finds in it: the value of each field, or NotAByte *)
(* where the field is missing or does not fit a u8, or where the payload   *)
(* is no JSON at all.                                                      *)
(***************************************************************************)
EXTENDS Positioner

CONSTANTS
  WindowCount,       \* windows are numbered from 1
  NotAByte,
  IndexFields,       \* the values that messages carry in their fields
  PercentageFields

ASSUME CommandAssumption == WindowCount \in Nat \ {0}

Windows == 1..WindowCount

\* The messages of the subscription: the four command topics, and what else
\* skylight/+ matches, the device's own publishes included.
Messages ==
  [topic : {"set"}, index : IndexFields, percentage : PercentageFields]
    \cup [topic : {"get", "stop"}, index : IndexFields]
    \cup [topic : {"reset", "state"}]

Ignore == [kind |-> "ignore"]
Reset  == [kind |-> "reset"]

\* Index::new, Percentage::new.
ValidIndex(value)      == value \in Windows
ValidPercentage(value) == value \in Positions

\* Position::new clamps.
NewPosition(percent) == IF percent > Full THEN Full ELSE percent

\* parse_set: both fields are in range, or the message is ignored.
ParseSet(m) ==
  IF ValidIndex(m.index) /\ ValidPercentage(m.percentage)
    THEN [kind |-> "set", index |-> m.index, percentage |-> m.percentage]
    ELSE Ignore

\* parse_get, parse_stop.
ParseIndex(m) ==
  IF ValidIndex(m.index) THEN [kind |-> m.topic, index |-> m.index] ELSE Ignore

\* parse_action: a reset is one whatever its payload.
ParseAction(m) ==
  CASE m.topic = "set"             -> ParseSet(m)
    [] m.topic \in {"get", "stop"} -> ParseIndex(m)
    [] m.topic = "reset"           -> Reset
    [] OTHER                       -> Ignore

=============================================================================
