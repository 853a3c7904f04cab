-------------------------- MODULE MCCommandAspects --------------------------
(***************************************************************************)
(* The command tables checked on every ordered pair of the commands the    *)
(* light, switch, cover, climate and alarm entities send to one target.    *)
(* A behaviour is a stream of commands; older and newer are two that       *)
(* follow each other while the older one may still be sent again.          *)
(***************************************************************************)
EXTENDS CommandStream, TLC

Channel == [deviceId |-> "d", channelIndex |-> 1]
Group == [groupId |-> "g"]
Device(action) == <<"hmip", "device", "control", action>>
Switching(action) == <<"hmip", "group", "switching", action>>
Heating(action) == <<"hmip", "group", "heating", action>>
Sends(path, body) == [path |-> path, body |-> body]

\* light.py: dimmers, colour lights, optical signals and notification lights
LightCommands ==
  {Sends(Device(a), Channel @@ [dimLevel |-> l]) :
     a \in {"setDimLevel", "setDimLevelWithTime", "setHueSaturationDimLevel",
            "setColorTemperatureDimLevelWithTime"}, l \in {0, 1}}
    \cup {Sends(Device("setSimpleRGBColorDimLevel"),
              Channel @@ [dimLevel |-> 1, simpleRGBColorState |-> "RED"]),
          Sends(Device("setSimpleRGBColorDimLevel"),
              Channel @@ [dimLevel |-> 0, simpleRGBColorState |-> "BLACK"]),
          Sends(Device("setOpticalSignal"),
              Channel @@ [dimLevel |-> 1, simpleRGBColorState |-> "RED",
                          opticalSignalBehaviour |-> "ON"]),
          Sends(Device("setOpticalSignalWithTime"),
              Channel @@ [dimLevel |-> 0, simpleRGBColorState |-> "RED",
                          opticalSignalBehaviour |-> "OFF"])}

\* switch.py, ha_entity_bridge.py and the switching groups
SwitchCommands ==
  {Sends(Device(a), Channel @@ [on |-> b]) :
     a \in {"setSwitchState", "setSwitchStateWithTime"}, b \in BOOLEAN}
    \cup {Sends(Switching("setState"), Group @@ [on |-> b]) : b \in BOOLEAN}

\* cover.py: shutters, blinds and shading groups
ShadingCommands ==
  {Sends(Device("setShutterLevel"), Channel @@ [shutterLevel |-> 1]),
   Sends(Device("setPrimaryShadingLevel"), Channel @@ [primaryShadingLevel |-> 1]),
   Sends(Device("setSlatsLevel"), Channel @@ [slatsLevel |-> 1, shutterLevel |-> 0]),
   Sends(Device("setFavoriteShadingPosition"), Channel),
   Sends(Device("stop"), Channel),
   Sends(Switching("setPrimaryShadingLevel"), Group @@ [primaryShadingLevel |-> 1]),
   Sends(Switching("setSecondaryShadingLevel"),
       Group @@ [primaryShadingLevel |-> 0, secondaryShadingLevel |-> 1,
                 shutterLevel |-> 0, slatsLevel |-> 1]),
   Sends(Switching("stop"), Group)}

\* climate.py and the home-wide settings
HeatingCommands ==
  {Sends(Heating("setSetPointTemperature"), Group @@ [setPointTemperature |-> 1]),
   Sends(Heating("setControlMode"), Group @@ [controlMode |-> "AUTOMATIC"]),
   Sends(Heating("setControlMode"),
       Group @@ [controlMode |-> "MANUAL", setPointTemperature |-> 1]),
   Sends(Heating("activatePartyMode"), Group @@ [temperature |-> 1, endTime |-> 1]),
   Sends(Heating("setBoost"), Group @@ [boost |-> TRUE])}
HomeCommands ==
  {Sends(<<"hmip", "home", "heating", a>>, <<>>) :
     a \in {"deactivateVacation", "activateAbsencePermanent"}}
    \cup {Sends(<<"hmip", "home", "heating", "activateVacation">>,
              [temperature |-> 1, endTime |-> 1]),
          Sends(<<"hmip", "home", "security", "setExtendedZonesActivation">>, <<>>),
          Sends(<<"hmip", "home", "getSystemState">>, <<>>)}

MCCommands == LightCommands \cup SwitchCommands \cup ShadingCommands
                \cup HeatingCommands \cup HomeCommands

\* The tables meet what the modules built on them assume, for these commands.
ASSUME TablesOfTheseCommands == TablesFit /\ DecidedByTheTables
=============================================================================
