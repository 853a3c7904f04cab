----------------------------- MODULE MCRequests -----------------------------
(***************************************************************************)
(* The commands of a dimmable colour light and a heating group that the    *)
(* checked instances choose from, with the tables CommandAspects gives for *)
(* them in the form TargetTracking takes its constants.                    *)
(***************************************************************************)
EXTENDS Sequences, TLC

CONSTANT MCRequest  \* the names in use

Tables == INSTANCE CommandAspects

\* The requests, by name.
Sends ==
  LET Channel(action, body) ==
        [path |-> <<"hmip", "device", "control", action>>,
         body |-> [deviceId |-> "d", channelIndex |-> 1] @@ body]
  IN  [dim |-> Channel("setDimLevel", [dimLevel |-> 1]),
       color |-> Channel("setHueSaturationDimLevel", [dimLevel |-> 1]),
       signal |-> Channel("setOpticalSignal",
                          [dimLevel |-> 1, simpleRGBColorState |-> "RED",
                           opticalSignalBehaviour |-> "ON"]),
       off |-> Channel("setSwitchState", [on |-> FALSE]),
       on |-> Channel("setSwitchState", [on |-> TRUE]),
       mode |-> [path |-> <<"hmip", "group", "heating", "setControlMode">>,
                 body |-> [groupId |-> "g", setPointTemperature |-> 1]]]

MCScope == {Tables!TargetScope(Sends[r]) : r \in MCRequest}
MCAspect == UNION {{Tables!CommandAspect(Sends[r])}
                     \cup Tables!ExtraSupersededAspects(Sends[r]) : r \in MCRequest}
MCField == UNION {Tables!FieldUpdates(Sends[r]) : r \in MCRequest}
MCScopeOf == [r \in MCRequest |-> Tables!TargetScope(Sends[r])]
MCAspectOf == [r \in MCRequest |-> Tables!CommandAspect(Sends[r])]
MCExtrasOf == [r \in MCRequest |-> Tables!ExtraSupersededAspects(Sends[r])]
MCUpdatesOf == [r \in MCRequest |-> Tables!FieldUpdates(Sends[r])]
MCNeedsOf ==
  [r \in MCRequest |-> {p[2] : p \in Tables!RetryFieldMap(Sends[r])} \cap MCField]
MCCarriesOf ==
  [r \in MCRequest |->
     {p[2] : p \in {q \in Tables!RetryFieldMap(Sends[r]) : q[1] \in DOMAIN Sends[r].body}}
       \cap MCField]
=============================================================================
