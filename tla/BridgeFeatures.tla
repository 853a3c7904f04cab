--------------------------- MODULE BridgeFeatures ---------------------------
(***************************************************************************)
(* What HaEntityBridge makes of the entities of a bridged device: the      *)
(* features it announces, their values, and what a control request means   *)
(* for a light (ha_entity_bridge.py).  A device is configured as a         *)
(* sequence of pairs <<feature key, entity>>; a feature is a pair <<type,  *)
(* value>>, with NoValue where only the type is announced.                 *)
(*                                                                         *)
(* The state of an entity is a record: its word ("number" for a numeric    *)
(* one, "absent" where Home Assistant knows no such entity), its number in *)
(* hundredths, and the brightness and colour temperature of a light.       *)
(* Colours (rgb_color) are left out, and so are the names, models and      *)
(* device types of the announced objects.                                  *)
(***************************************************************************)
EXTENDS Integers, Sequences, FiniteSets

CONSTANT NoValue

Presence == {"motion", "occupancy"}
Contacts == {"door", "window", "contact_sensor"}
Binary == Presence \cup Contacts \cup
          {"on_off", "storm", "sunshine", "raining", "smoke", "moisture",
           "moisture_detected", "hot_water_boost"}
Words == {"climate_operation_mode", "presence_mode", "shutter_direction"}
Numbers == {"on_time", "temperature", "humidity", "illuminance", "co2", "wind_speed",
            "precipitation", "wind_direction", "sunshine_duration", "power", "energy",
            "pm1", "pm25", "pm10", "battery", "vehicle_range", "cooling_temp_offset",
            "heating_temp_offset", "supply_temperature", "set_point_temp",
            "shutter_level", "slats_level"}
Maintenance == {"low_bat", "sabotage", "unreach"}
Keys == Binary \cup Words \cup Numbers \cup Maintenance \cup {"brightness", "color_temp"}

\* The Connect API type of a key: its own, but several keys share one.
TypeOf(key) ==
  CASE key \in Presence -> "presenceDetected"
    [] key \in Contacts -> "contactSensorState"
    [] OTHER -> key

\* No value can be read from such a state.
Unread(s) == s.word \in {"absent", "unavailable", "unknown"}

-----------------------------------------------------------------------------
\* A dim level in ten thousandths from a brightness of 0 to 255, and back: the
\* first is rounded, the second cut off.
Level(brightness) == (brightness * 20000 + 255) \div 510
Brightness(level) == (level * 255) \div 10000

\* Hundredths rounded to a whole number, halves to the even one.
Rounded(n) ==
  LET q == n \div 100
      r == n % 100
  IN  IF r > 50 \/ (r = 50 /\ q % 2 = 1) THEN q + 1 ELSE q

\* A number, or none where the state is another word.  The humidity is rounded;
\* a battery's per cent in hundredths is its 0-1 level in ten thousandths.
NumberValue(key, s) ==
  IF s.word # "number" THEN NoValue
  ELSE IF key = "humidity" THEN Rounded(s.number) ELSE s.number

FeatureValue(key, s) ==
  CASE Unread(s) -> NoValue
    [] key = "brightness" ->
         IF s.word = "on" /\ s.brightness # NoValue THEN Level(s.brightness) ELSE NoValue
    [] key = "color_temp" -> s.kelvin
    [] key \in Binary -> s.word = "on"
    [] key \in Words -> s.word
    [] OTHER -> NumberValue(key, s)

-----------------------------------------------------------------------------
\* The members of a sequence at some of its places, in their order.
AtPlaces(seq, places) ==
  LET place(n) == CHOOSE i \in places : Cardinality({j \in places : j <= i}) = n
  IN  [n \in 1 .. Cardinality(places) |-> seq[place(n)]]

\* "Sending the same type twice is likely as invalid as an unrecognized one":
\* the first feature of each type.
Firsts(features) ==
  {i \in DOMAIN features : \A j \in DOMAIN features : j < i => features[j][1] # features[i][1]}
OnePerType(features) == AtPlaces(features, Firsts(features))

Maintained(conf) == {i \in DOMAIN conf : conf[i][1] \in Maintenance}
PlainKeys(conf) == AtPlaces(conf, DOMAIN conf \ Maintained(conf))
Valued(features) == AtPlaces(features, {i \in DOMAIN features : features[i][2] # NoValue})

\* What is announced of a device.
DiscoverFeatures(conf) ==
  OnePerType([i \in DOMAIN PlainKeys(conf) |-> <<TypeOf(PlainKeys(conf)[i][1]), NoValue>>])
  \o (IF Maintained(conf) # {} THEN << <<"maintenance", NoValue>> >> ELSE <<>>)

\* The maintenance entities that have a value, and those of them that are on.
MaintenanceFeature(conf, states) ==
  LET read == {i \in Maintained(conf) : ~Unread(states[conf[i][2]])}
      on == {i \in read : states[conf[i][2]].word = "on"}
  IN  IF read = {} THEN <<>>
      ELSE << <<"maintenance", [known |-> {conf[i][1] : i \in read},
                                on |-> {conf[i][1] : i \in on}]>> >>

\* What is reported of it: of each type, the first key that has a value.
ValueFeatures(conf, states) ==
  LET plain == PlainKeys(conf)
      values == [i \in DOMAIN plain |->
                  <<TypeOf(plain[i][1]), FeatureValue(plain[i][1], states[plain[i][2]])>>]
  IN  OnePerType(Valued(values))
      \o MaintenanceFeature(conf, states)

\* The discovery answer: what is announced, with the values there are.
Announced(conf, states) ==
  LET values == ValueFeatures(conf, states)
  IN  [i \in DOMAIN DiscoverFeatures(conf) |->
        LET f == DiscoverFeatures(conf)[i]
            same == {j \in DOMAIN values : values[j][1] = f[1]}
        IN  IF same = {} THEN f ELSE values[CHOOSE j \in same : TRUE]]

-----------------------------------------------------------------------------
\* The entity that a key is configured with, if any.
EntitiesOf(conf, keys) == {conf[i][2] : i \in {j \in DOMAIN conf : conf[j][1] \in keys}}

\* Mutant: only the switch feature itself is looked at.
OwnOnTime(f, request, conf, states) == f.onTime

\* The auto-off delay of a turn-on f in seconds: its own onTime, that of another
\* feature of the request, or that of the configured entity, the first that is a
\* number.
ControlOnTime(f, request, conf, states) ==
  LET others == AtPlaces(request, {i \in DOMAIN request : request[i].type = "onTime"})
      timers == AtPlaces(conf, {i \in DOMAIN conf : conf[i][1] = "on_time"})
      delays == <<f.onTime>> \o [i \in DOMAIN others |-> others[i].onTime]
                \o [i \in DOMAIN timers |-> NumberValue("on_time", states[timers[i][2]])]
      given == AtPlaces(delays, {i \in DOMAIN delays : delays[i] # NoValue})
  IN  IF given = <<>> THEN NoValue ELSE Head(given)
=============================================================================
