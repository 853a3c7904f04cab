---------------------------- MODULE BridgeStatus ----------------------------
(***************************************************************************)
(* How the HCU learns the state of one bridged device (HaEntityBridge in   *)
(* ha_entity_bridge.py and the plugin requests of api.py) and controls it. *)
(* It learns it from the DISCOVER_RESPONSE and from STATUS_EVENTs, which   *)
(* send_status_event gates on the device having been discovered and drops  *)
(* when they repeat the last one.  A CONTROL_REQUEST is handled feature by *)
(* feature, each with a service call that is awaited.  The HCU, which asks *)
(* for devices after each connect, the socket and the light are modelled   *)
(* from how the code uses them.                                            *)
(***************************************************************************)
EXTENDS BridgeFeatures

CONSTANTS Conf,       \* the configured features of a device
          Readings,   \* the states each of its entities can have
          Orders,     \* what the HCU can ask for: sequences of features
          Lights,     \* the entities that are lights
          Glow        \* how a light comes on when nothing else is asked for

Attribute == {"word", "number", "brightness", "kelvin"}

ASSUME StatusAssumption ==
  /\ Conf \subseteq Seq(Keys \X DOMAIN Readings) \ {<<>>}
  /\ \A e \in DOMAIN Readings : \A s \in Readings[e] : DOMAIN s = Attribute
  /\ DOMAIN Glow = Attribute /\ Glow.word = "on"
  /\ NoValue \notin Int \cup BOOLEAN
  /\ \A known, on \in SUBSET Maintenance : [known |-> known, on |-> on] # NoValue

\* A request has a feature, and a level is not negative.
ASSUME OrderAssumption ==
  \A request \in Orders :
    /\ request # <<>> /\ Len(request) \in Nat /\ DOMAIN request = 1 .. Len(request)
    /\ \A i \in DOMAIN request :
         LET f == request[i]
         IN  /\ f.type = "switchState" => f.on \in BOOLEAN
             /\ f.type = "dimming" => f.level \in Nat
             /\ f.type = "colorTemperature" => f.kelvin # NoValue

VARIABLES
  conf,        \* the device
  states,      \* hass.states: what its entities say now
  discovered,  \* the device is in _discovered_hcu_ids
  lastSent,    \* _last_sent_features
  recent,      \* _last_sent lies within STATUS_EVENT_THROTTLE_SECONDS
  socket,      \* "up", "dying" (sends succeed and vanish) or "down"
  fresh,       \* the HCU was told about the device on this connection
  hcuValue,    \* what the HCU believes: a value for some feature types
  received,    \* what was noted in lastSent reached it
  order,       \* the control request that runs or ran last, if any
  step,        \* the feature it is at; behind the last one, the response is due
  calling,     \* it awaits a service call: "no", "called" or "acted"
  autoOff,     \* the delay of the timer in _auto_off_tasks, or NoValue
  undisturbed  \* since it came, nothing else happened to the device

orderVars == <<order, step, calling>>
reportVars == <<lastSent, recent, hcuValue, received>>
bridgedVars == <<conf, states, discovered, reportVars, socket, fresh>>
statusVars == <<bridgedVars, orderVars, autoOff, undisturbed>>

Types(features) == {features[i][1] : i \in DOMAIN features}
ValueOf(type, features) == features[CHOOSE i \in DOMAIN features : features[i][1] = type][2]

\* What the HCU believes after it was told features.
Merge(features) ==
  [t \in DOMAIN hcuValue \cup Types(features) |->
     IF t \in Types(features) THEN ValueOf(t, features) ELSE hcuValue[t]]

StatusInit ==
  /\ conf \in Conf
  /\ states \in [{conf[i][2] : i \in DOMAIN conf} ->
                   UNION {Readings[e] : e \in DOMAIN Readings}]
  /\ \A e \in DOMAIN states : states[e] \in Readings[e]
  /\ discovered = FALSE
  /\ lastSent = <<>>
  /\ recent = FALSE
  /\ socket = "down"
  /\ fresh = FALSE
  /\ hcuValue = [t \in {} |-> NoValue]
  /\ received = TRUE
  /\ order = <<>> /\ step = 1 /\ calling = "no"
  /\ autoOff = NoValue
  /\ undisturbed = FALSE

-----------------------------------------------------------------------------
\* Mutant: whatever follows soon after a report is dropped.
RepeatsEarly(features) == recent

\* The value was already reported, recently.
Repeats(features) == features = lastSent /\ recent

\* A device the HCU has not discovered or that has no value, and a repeated value,
\* are skipped.
Skipped(features) == ~discovered \/ features = <<>> \/ Repeats(features)

\* send_status_event for the entities' states s; the value is noted before it is
\* sent, and a send without a connection is given up silently.
SendStatusEvent(s) ==
  LET features == ValueFeatures(conf, s)
  IN  IF Skipped(features)
        THEN UNCHANGED reportVars
        ELSE /\ lastSent' = features
             /\ recent' = TRUE
             /\ hcuValue' = IF socket = "up" THEN Merge(features) ELSE hcuValue
             /\ received' = (socket = "up")

\* An entity takes a state; _on_state_changed ends a timer of one that is off and
\* starts the report, which runs at once (tasks of Home Assistant start eagerly)
\* up to the send.  A state it has already is no event.
Takes(e, s) ==
  /\ states' = [states EXCEPT ![e] = s]
  /\ IF s = states[e]
       THEN UNCHANGED <<reportVars, autoOff>>
       ELSE /\ SendStatusEvent(states')
            /\ autoOff' = IF s.word = "off" /\ e \in EntitiesOf(conf, {"on_off"})
                            THEN NoValue ELSE autoOff

\* Somebody else changes an entity: the dashboard, an automation, the device.
StateChanged ==
  /\ \E e \in DOMAIN states : \E s \in Readings[e] \ {states[e]} : Takes(e, s)
  /\ undisturbed' = FALSE
  /\ UNCHANGED <<conf, discovered, socket, fresh, orderVars>>

-----------------------------------------------------------------------------
\* The entities that a feature of a request is meant for, none where it calls no
\* service.
Targets(f) ==
  LET dimmed == EntitiesOf(conf, {"brightness"})
      switched == EntitiesOf(conf, {"on_off"})
  IN  CASE f.type = "switchState" -> switched
        [] f.type = "dimming" -> (IF dimmed # {} THEN dimmed ELSE switched) \cap Lights
        [] f.type = "colorTemperature" -> EntitiesOf(conf, {"color_temp"})
        [] OTHER -> {}

Off == [word |-> "off", number |-> 0, brightness |-> NoValue, kelvin |-> NoValue]
Lit(e) == IF states[e].word = "on" THEN states[e]
          ELSE IF e \in Lights THEN Glow ELSE [Off EXCEPT !.word = "on"]

\* What the service called for f makes of an entity: a light that is turned on
\* with a brightness of zero goes off.
After(f, e) ==
  CASE f.type = "switchState" -> IF f.on THEN Lit(e) ELSE Off
    [] f.type = "dimming" -> IF Brightness(f.level) = 0 THEN Off
                             ELSE [Lit(e) EXCEPT !.brightness = Brightness(f.level)]
    [] f.type = "colorTemperature" -> [Lit(e) EXCEPT !.kelvin = f.kelvin]

\* A CONTROL_REQUEST comes, for a device that can be switched; one is handled at a
\* time here.
OrderComes ==
  /\ socket = "up" /\ discovered /\ EntitiesOf(conf, {"on_off"}) # {}
  /\ order = <<>>
  /\ order' \in Orders
  /\ step' = 1 /\ calling' = "no"
  /\ undisturbed' = TRUE
  /\ UNCHANGED <<bridgedVars, autoOff>>

Handling == step <= Len(order)

\* A feature that calls no service is passed over ...
PassOver ==
  /\ Handling /\ calling = "no" /\ Targets(order[step]) = {}
  /\ step' = step + 1
  /\ UNCHANGED <<bridgedVars, order, calling, autoOff, undisturbed>>

\* ... for the others it is called, and awaited.
CallService ==
  /\ Handling /\ calling = "no" /\ Targets(order[step]) # {}
  /\ calling' = "called"
  /\ UNCHANGED <<bridgedVars, order, step, autoOff, undisturbed>>

\* The service acts on the entity; one that is unavailable is left alone.
ServiceDone ==
  /\ calling = "called"
  /\ calling' = "acted"
  /\ \E e \in Targets(order[step]) :
       IF Unread(states[e])
         THEN undisturbed' = FALSE /\ UNCHANGED <<states, reportVars, autoOff>>
         ELSE Takes(e, After(order[step], e)) /\ UNCHANGED undisturbed
  /\ UNCHANGED <<conf, discovered, socket, fresh, order, step>>

\* The call returns.  That of a switchState ends the timer of the device, and a
\* turn-on with a delay starts a new one.
FeatureDone ==
  /\ calling = "acted"
  /\ step' = step + 1 /\ calling' = "no"
  /\ LET f == order[step]
         delay == ControlOnTime(f, order, conf, states)
     IN  autoOff' = IF f.type # "switchState" THEN autoOff
                    ELSE IF f.on /\ delay # NoValue /\ delay > 0 THEN delay ELSE NoValue
  /\ UNCHANGED <<bridgedVars, order, undisturbed>>

\* The call raises, which is logged: the request goes on with the next feature.
FeatureFails ==
  /\ calling # "no"
  /\ step' = step + 1 /\ calling' = "no"
  /\ undisturbed' = FALSE
  /\ UNCHANGED <<bridgedVars, order, autoOff>>

\* _handle_control_request: the CONTROL_RESPONSE, and after it a report; without a
\* connection the response raises.
Respond ==
  /\ order # <<>> /\ step = Len(order) + 1
  /\ step' = step + 1
  /\ IF socket = "down" THEN UNCHANGED reportVars ELSE SendStatusEvent(states)
  /\ UNCHANGED <<conf, states, discovered, socket, fresh, order, calling, autoOff, undisturbed>>

Answered == order # <<>> /\ step = Len(order) + 2

\* Nothing of the request is left but its effects.
Forget ==
  /\ Answered
  /\ order' = <<>> /\ step' = 1 /\ undisturbed' = FALSE
  /\ UNCHANGED <<bridgedVars, calling, autoOff>>

\* The task of the timer, which is tracked no more, turns the device off.
AutoOff ==
  /\ autoOff # NoValue
  /\ autoOff' = NoValue
  /\ \E e \in EntitiesOf(conf, {"on_off"}) :
       IF Unread(states[e]) \/ states[e] = Off
         THEN UNCHANGED <<states, reportVars>>
         ELSE states' = [states EXCEPT ![e] = Off] /\ SendStatusEvent(states')
  /\ undisturbed' = FALSE
  /\ UNCHANGED <<conf, discovered, socket, fresh, orderVars>>

-----------------------------------------------------------------------------
controlVars == <<conf, states, orderVars, autoOff, undisturbed>>

\* _handle_inclusion_event: the HCU included the device, which is still known.
Included ==
  /\ socket = "up"
  /\ SendStatusEvent(states)
  /\ UNCHANGED <<discovered, socket, fresh, controlVars>>

\* An answer with features reaches the HCU.
Answers(features) ==
  /\ hcuValue' = Merge(features)
  /\ received' = (received \/ features # <<>>)

\* _handle_status_request: the HCU asks for the values of the devices, and the
\* answer names those that have any, discovered or not.
StatusRequest ==
  /\ socket = "up"
  /\ Answers(ValueFeatures(conf, states))
  /\ UNCHANGED <<discovered, lastSent, recent, socket, fresh, controlVars>>

\* The throttle interval passes.
ThrottleExpires ==
  /\ recent
  /\ recent' = FALSE
  /\ UNCHANGED <<discovered, lastSent, hcuValue, received, socket, fresh, controlVars>>

\* _send_discover_response: the devices are marked while the answer is built,
\* and it carries their values; then it is sent, or the send raises.
SendDiscoverResponse ==
  /\ discovered' = TRUE
  /\ IF socket = "up"
       THEN fresh' = TRUE /\ Answers(Valued(Announced(conf, states)))
       ELSE UNCHANGED <<fresh, hcuValue, received>>
  /\ UNCHANGED <<lastSent, recent, socket, controlVars>>

\* The HCU asks, over an open connection, and gets the answer ...
DiscoverRequest == socket = "up" /\ SendDiscoverResponse

\* ... or the connection is dying when the answer is sent.
DiscoverRequestLate == socket = "dying" /\ SendDiscoverResponse

\* listen_plugin or listen: the socket dies, the listener notices, reconnects.
SocketDies ==
  /\ socket = "up"
  /\ socket' = "dying"
  /\ UNCHANGED <<discovered, reportVars, fresh, controlVars>>

SocketClosed ==
  /\ socket = "dying"
  /\ socket' = "down"
  /\ UNCHANGED <<discovered, reportVars, fresh, controlVars>>

Connect ==
  /\ socket = "down"
  /\ socket' = "up"
  /\ fresh' = FALSE
  /\ UNCHANGED <<discovered, reportVars, controlVars>>

StatusNext ==
  \/ StateChanged \/ AutoOff
  \/ OrderComes \/ PassOver \/ CallService \/ ServiceDone \/ FeatureDone \/ FeatureFails
  \/ Respond \/ Forget
  \/ Included \/ StatusRequest \/ ThrottleExpires
  \/ DiscoverRequest \/ DiscoverRequestLate
  \/ SocketDies \/ SocketClosed \/ Connect

StatusSpec == StatusInit /\ [][StatusNext]_statusVars

-----------------------------------------------------------------------------
\* Only a discovered device is reported, nothing is throttled before the first
\* report, and what is reported names each feature type once and only types that
\* are announced ("Sending the same type twice is likely as invalid").
StatusTypeOK ==
  /\ conf \in Conf
  /\ \A e \in DOMAIN states : states[e] \in Readings[e] \/ states[e].word \in {"on", "off"}
  /\ discovered \in BOOLEAN /\ recent \in BOOLEAN /\ received \in BOOLEAN
  /\ fresh \in BOOLEAN
  /\ socket \in {"up", "dying", "down"}
  /\ fresh \/ lastSent # <<>> => discovered
  /\ recent => lastSent # <<>>
  /\ \A i, j \in DOMAIN lastSent : lastSent[i][1] = lastSent[j][1] => i = j
  /\ lastSent # <<>> => DOMAIN hcuValue \subseteq Types(DiscoverFeatures(conf))
  /\ order \in Orders \cup {<<>>}
  /\ step \in 1..(Len(order) + 2)
  /\ calling \in {"no", "called", "acted"}

\* The HCU holds the current value of every feature that has one.
HcuKnows ==
  LET now == ValueFeatures(conf, states)
  IN  \A t \in Types(now) : t \in DOMAIN hcuValue /\ hcuValue[t] = ValueOf(t, now)

\* Once the HCU discovered the device on this connection it holds the current
\* values, whatever was throttled, and whatever was left out of a report while an
\* entity was unavailable (send_status_event): except after a report that was noted
\* as sent without a connection, as long as no answer has carried a value since.
HcuUpToDate == fresh /\ socket = "up" /\ received => HcuKnows

\* "... so a real state change is never delayed or dropped by the throttle"
\* (.docs/flows/ha_entity_bridge_flow.md): a device the HCU discovered on this
\* connection never differs from what the HCU holds.
NothingDropped == fresh /\ socket = "up" => HcuKnows

\* Whether a feature of a request leaves the device on.
LeavesOn(f) ==
  CASE f.type = "switchState" -> f.on
    [] f.type = "dimming" -> f.level > 0
    [] OTHER -> TRUE

\* The features of the request that call a service.
Acting == {i \in DOMAIN order : Targets(order[i]) # {}}

\* Of some of them, the last one of a type after which nothing turns the device off.
Lasting(type, features) ==
  {i \in features : /\ order[i].type = type
                    /\ \A j \in features : j >= i => /\ LeavesOn(order[j])
                                                     /\ order[j].type = type => j = i}

\* What the request gives as the delay of a turn-on f, before the configured one.
GivenDelays(f) ==
  LET others == {i \in DOMAIN order : order[i].type = "onTime"}
  IN  ({f.onTime} \cup {order[i].onTime : i \in others}) \ {NoValue}

\* No level of the request is lower than the lowest of the 255 brightnesses of a
\* light, unless it is nothing.
Dimmable == \A i \in DOMAIN order : order[i].type = "dimming" => order[i].level \notin 1 .. 39

\* What can be controlled is one light.
OneLight ==
  \E e \in DOMAIN Readings : EntitiesOf(conf, {"on_off", "brightness", "color_temp"}) = {e}

\* A request to a light during which nothing else happened to it, and none of whose
\* calls failed, leaves the HCU with what it asked for (handle_control_request and
\* the report after it): on or off, as the last feature has it; what it set last
\* and did not turn off afterwards, the colour temperature, the dim level to within
\* one step of Home Assistant's brightness, and the timer where a turn-on came with
\* a delay ("value in CONTROL_REQUEST > value from configured on_time entity"); and
\* no timer where it is off.
OrderIsReported ==
  Answered /\ undisturbed /\ fresh /\ socket = "up" /\ received /\ OneLight /\ Dimmable =>
    /\ \A i \in Acting :
         (\A j \in Acting : j <= i) => hcuValue["on_off"] = LeavesOn(order[i])
    /\ EntitiesOf(conf, {"brightness"}) # {} =>
         \A i \in Lasting("dimming", Acting) :
           /\ hcuValue["brightness"] <= order[i].level
           /\ order[i].level - hcuValue["brightness"] < 40
    /\ \A i \in Lasting("colorTemperature", Acting) : hcuValue["color_temp"] = order[i].kelvin
    /\ \A i \in Lasting("switchState", Acting) :
         LET given == GivenDelays(order[i])
         IN  given # {} /\ (\A d \in given : d > 0) => autoOff \in given
    /\ \A i \in Acting :
         order[i].type = "switchState" /\ autoOff # NoValue => hcuValue["on_off"]
=============================================================================
