--------------------------- MODULE CommandAspects ---------------------------
(***************************************************************************)
(* The tables of HcuApiClient (api.py) that say which setting of which     *)
(* target a mutating command changes, which other settings it overrides,   *)
(* which shared payload fields it decides, and which of its own fields are *)
(* brought up to date before it is sent again.                             *)
(*                                                                         *)
(* A command is a record [path, body].  The path is the sequence of its    *)
(* segments.  The body is a record whose domain is the set of keys present *)
(* in the JSON body.  Of the values only what the tables compare is kept:  *)
(* a level is 0 or 1, a colour "BLACK" or another, a behaviour "OFF" or    *)
(* another.                                                                *)
(***************************************************************************)
EXTENDS Naturals, Sequences

Has(cmd, key) == key \in DOMAIN cmd.body
BodyIs(cmd, key, value) == Has(cmd, key) /\ cmd.body[key] = value

\* The timed variants of a command count as the command itself:
\* removesuffix("WithTime") on the last segment of the path.
UntimedAction ==
  [setSwitchStateWithTime |-> "setSwitchState",
   setDimLevelWithTime |-> "setDimLevel",
   setColorTemperatureDimLevelWithTime |-> "setColorTemperatureDimLevel",
   setHueSaturationDimLevelWithTime |-> "setHueSaturationDimLevel",
   setSimpleRGBColorDimLevelWithTime |-> "setSimpleRGBColorDimLevel",
   setOpticalSignalWithTime |-> "setOpticalSignal",
   setWateringSwitchStateWithTime |-> "setWateringSwitchState",
   setSoundFileVolumeLevelWithTime |-> "setSoundFileVolumeLevel"]

LastSegment(cmd) == cmd.path[Len(cmd.path)]

Action(cmd) ==
  IF LastSegment(cmd) \in DOMAIN UntimedAction
    THEN UntimedAction[LastSegment(cmd)]
    ELSE LastSegment(cmd)

LightColorActions ==
  {"setColorTemperatureDimLevel", "setHueSaturationDimLevel",
   "setSimpleRGBColorDimLevel"}
LightActions == LightColorActions \cup {"setDimLevel", "setOpticalSignal"}
SwitchActions == {"setSwitchState", "setState"}
ShadingLevelActions ==
  {"setShutterLevel", "setPrimaryShadingLevel", "setFavoriteShadingPosition"}
ShadingTiltActions == {"setSlatsLevel", "setSecondaryShadingLevel"}
HeatingModeActions == {"activatePartyMode", "setControlMode"}

ActionAspect ==
  [setWateringSwitchState |-> "watering_state",
   setLockState |-> "lock_state", pullLatch |-> "lock_state",
   sendDoorCommand |-> "door_command", startImpulse |-> "door_command",
   toggleGarageDoorState |-> "door_command",
   enableSimpleRule |-> "simple_rule_enabled",
   disableSimpleRule |-> "simple_rule_enabled",
   createUserMessage |-> "user_message", deleteUserMessage |-> "user_message",
   activateAbsencePermanent |-> "absence",
   activateAbsenceWithDuration |-> "absence",
   activateAbsenceWithPeriod |-> "absence",
   activateVacation |-> "absence", deactivateAbsence |-> "absence",
   deactivateVacation |-> "absence",
   setZonesActivation |-> "zones_activation",
   setExtendedZonesActivation |-> "zones_activation"]

ReadOnlyPaths ==
  {<<"hmip", "home", "getSystemState">>, <<"hmip", "home", "getCurrentState">>}

\* The entity or subsystem a command changes; <<>> for a read.
TargetScope(cmd) ==
  CASE cmd.path \in ReadOnlyPaths -> <<>>
    [] cmd.path \notin ReadOnlyPaths /\ Has(cmd, "deviceId") ->
         IF Has(cmd, "channelIndex")
           THEN <<"device", cmd.body.deviceId, cmd.body.channelIndex>>
           ELSE <<"device", cmd.body.deviceId>>
    [] cmd.path \notin ReadOnlyPaths /\ ~Has(cmd, "deviceId") ->
         LET keys == {k \in {"groupId", "ruleId", "userMessageId"} : Has(cmd, k)}
             home == Len(cmd.path) >= 3 /\ SubSeq(cmd.path, 1, 2) = <<"hmip", "home">>
         IN  CASE "groupId" \in keys -> <<"group", cmd.body.groupId>>
               [] "groupId" \notin keys /\ "ruleId" \in keys ->
                    <<"rule", cmd.body.ruleId>>
               [] keys = {"userMessageId"} -> <<"user_message", cmd.body.userMessageId>>
               [] keys = {} /\ home ->
                    IF Len(cmd.path) >= 4 THEN <<"home", cmd.path[3]>> ELSE <<"home">>
               [] OTHER -> <<"path", cmd.path>>

\* A light command that turns the light off, whatever else it carries.
LightsOff(cmd) ==
  /\ Action(cmd) \in LightActions
  /\ \/ BodyIs(cmd, "dimLevel", 0)
     \/ BodyIs(cmd, "opticalSignalBehaviour", "OFF")
     \/ BodyIs(cmd, "simpleRGBColorState", "BLACK")

CommandAspect(cmd) ==
  LET a == Action(cmd)
  IN  CASE LightsOff(cmd) -> "light_off"
        [] ~LightsOff(cmd) /\ a = "setDimLevel" -> "dim_level"
        [] ~LightsOff(cmd) /\ a = "setOpticalSignal" -> "optical_signal"
        [] ~LightsOff(cmd) /\ a \in LightColorActions -> "light_color"
        [] a \in SwitchActions -> "switch_state"
        [] a = "stop" -> "shading_stop"
        [] a \in ShadingLevelActions -> "shading_level"
        [] a \in ShadingTiltActions -> "shading_tilt"
        [] a \in HeatingModeActions -> "heating_control_mode"
        [] a \in DOMAIN ActionAspect -> ActionAspect[a]
        [] OTHER -> a

\* What a light command that leaves the light on overrides besides its aspect.
LightExtras(cmd) ==
  {"light_off", "switch_state"}
    \cup {x \in {"dim_level"} : Action(cmd) # "setDimLevel" /\ Has(cmd, "dimLevel")}
    \cup {x \in {"light_color"} : Action(cmd) = "setOpticalSignal"
                                   /\ Has(cmd, "simpleRGBColorState")}

SwitchExtras(cmd) ==
  {"light_off"} \cup {x \in {"dim_level", "light_color", "optical_signal"} :
                        BodyIs(cmd, "on", FALSE)}

\* Mutant: a stop leaves a pending tilt retry alone.
ShadingExtrasNoTilt(cmd) ==
  IF Action(cmd) = "stop" THEN {"shading_level"} ELSE {"shading_stop"}

ShadingExtras(cmd) ==
  CASE Action(cmd) = "stop" -> {"shading_level", "shading_tilt"}
    [] Action(cmd) = "setFavoriteShadingPosition" -> {"shading_stop", "shading_tilt"}
    [] OTHER -> {"shading_stop"}

HeatingExtras(cmd) ==
  LET key == IF Action(cmd) = "activatePartyMode"
               THEN "temperature" ELSE "setPointTemperature"
  IN  {x \in {"setSetPointTemperature"} : Has(cmd, key)}

\* The other aspects a command overrides while it replaces its own.
ExtraSupersededAspects(cmd) ==
  LET a == Action(cmd)
  IN  CASE LightsOff(cmd) ->
             {"dim_level", "light_color", "optical_signal", "switch_state"}
        [] ~LightsOff(cmd) /\ a \in LightActions -> LightExtras(cmd)
        [] a \in SwitchActions -> SwitchExtras(cmd)
        [] a \in {"stop"} \cup ShadingLevelActions \cup ShadingTiltActions ->
             ShadingExtras(cmd)
        [] a \in HeatingModeActions -> HeatingExtras(cmd)
        [] OTHER -> {}

\* The body keys that carry a shared field in a command that decides it.
DecidedBy(cmd) ==
  LET a == Action(cmd)
  IN  CASE a = "setShutterLevel" -> {<<"shutterLevel", "primary_level">>}
        [] a = "setPrimaryShadingLevel" -> {<<"primaryShadingLevel", "primary_level">>}
        [] a \in {"setSetPointTemperature", "setControlMode"} ->
             {<<"setPointTemperature", "setPointTemperature">>}
        [] a = "activatePartyMode" -> {<<"temperature", "setPointTemperature">>}
        [] a \in LightActions /\ ~LightsOff(cmd) ->
             {<<"dimLevel", "dimLevel">>}
               \cup {p \in {<<"simpleRGBColorState", "simpleRGBColorState">>} :
                       a \in {"setSimpleRGBColorDimLevel", "setOpticalSignal"}}
        [] OTHER -> {}

\* The shared fields whose value a command decides once it succeeded.
FieldUpdates(cmd) == {p[2] : p \in {q \in DecidedBy(cmd) : Has(cmd, q[1])}}

\* Mutant: a tilt retry keeps the shutter position it was first sent with.
RetryFieldMapNoShading(cmd) ==
  IF Action(cmd) \in ShadingTiltActions
    THEN {<<"primaryShadingLevel", "primary_level">>}
    ELSE DecidedBy(cmd)

\* The <<body key, shared field>> pairs refreshed before a retry.
RetryFieldMap(cmd) ==
  LET a == Action(cmd)
  IN  CASE a \in LightColorActions -> {<<"dimLevel", "dimLevel">>}
        [] a = "setOpticalSignal" ->
             {<<"dimLevel", "dimLevel">>,
              <<"simpleRGBColorState", "simpleRGBColorState">>}
        [] a \in ShadingTiltActions ->
             {<<"shutterLevel", "primary_level">>,
              <<"primaryShadingLevel", "primary_level">>}
        [] a = "activatePartyMode" -> {<<"temperature", "setPointTemperature">>}
        [] a = "setControlMode" -> {<<"setPointTemperature", "setPointTemperature">>}
        [] OTHER -> {}

\* A newer command makes a retry of an older one on the same target pointless.
Supersedes(newer, older) ==
  /\ TargetScope(newer) # <<>>
  /\ TargetScope(newer) = TargetScope(older)
  /\ CommandAspect(older) \in {CommandAspect(newer)} \cup ExtraSupersededAspects(newer)
=============================================================================
