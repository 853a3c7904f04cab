---------------------------- MODULE CommandStream ----------------------------
(***************************************************************************)
(* The commands the entities hand to HcuApiClient, two of them at a time:  *)
(* older is one that may still be sent again, newer one that was called    *)
(* after it.  What the tables of CommandAspects say about the two decides  *)
(* whether a retry undoes what the user asked for later.                   *)
(***************************************************************************)
EXTENDS CommandAspects

CONSTANT Commands  \* the commands the entities send

\* The commands that may carry each of the keys the tables look at.
KeyUsers ==
  [on |-> SwitchActions,
   dimLevel |-> LightActions,
   simpleRGBColorState |-> {"setSimpleRGBColorDimLevel", "setOpticalSignal"},
   shutterLevel |-> ShadingLevelActions \cup ShadingTiltActions,
   primaryShadingLevel |-> ShadingLevelActions \cup ShadingTiltActions,
   temperature |-> {"activatePartyMode", "activateVacation"},
   setPointTemperature |-> {"setSetPointTemperature", "setControlMode"}]

\* What the control methods put together: a key is sent by the commands that
\* know it, the set point of a room goes to its group and a vacation to the home.
ASSUME CommandsAssumption ==
  \A cmd \in Commands :
    /\ \A key \in DOMAIN KeyUsers : Has(cmd, key) => Action(cmd) \in KeyUsers[key]
    /\ Action(cmd) \in HeatingModeActions \cup {"setSetPointTemperature"}
         => TargetScope(cmd)[1] = "group"
    /\ Action(cmd) = "activateVacation" => TargetScope(cmd)[1] = "home"

VARIABLES older, newer

StreamInit == older \in Commands /\ newer \in Commands

\* Another command follows.
Follow(cmd) == older' = newer /\ newer' = cmd

\* The older command is still not through when the newer one is.
Outlast(cmd) == newer' = cmd /\ UNCHANGED older

StreamNext == \E cmd \in Commands : Follow(cmd) \/ Outlast(cmd)

StreamSpec == StreamInit /\ [][StreamNext]_<<older, newer>>

-----------------------------------------------------------------------------
StreamTypeOK == older \in Commands /\ newer \in Commands

\* Whether the user asked for the output to be on or off.
Power(cmd) ==
  CASE LightsOff(cmd) \/ BodyIs(cmd, "on", FALSE) -> "off"
    [] (~LightsOff(cmd) /\ Action(cmd) \in LightActions)
         \/ BodyIs(cmd, "on", TRUE) -> "on"
    [] OTHER -> "none"

\* Whether the user asked the shading to move or to stand still.
Motion(cmd) ==
  CASE Action(cmd) = "stop" -> "stop"
    [] Action(cmd) \in ShadingLevelActions \cup ShadingTiltActions -> "move"
    [] OTHER -> "none"

Opposed(a, b) == a # "none" /\ b # "none" /\ a # b
SameTarget == TargetScope(older) = TargetScope(newer) /\ TargetScope(older) # <<>>

\* Whatever command switched an output on or off, a newer command that asks
\* for the opposite makes a retry of it pointless: a busy "on" that is sent
\* again must not undo an "off" through another kind of command.  So does a stop
\* for every earlier move of a shading, and a move for an earlier stop.
OppositeSupersedes ==
  SameTarget /\ (Opposed(Power(older), Power(newer)) \/ Opposed(Motion(older), Motion(newer)))
    => Supersedes(newer, older)

\* The shared field each body key carries, as the device understands it.
CarriedField ==
  [dimLevel |-> "dimLevel", simpleRGBColorState |-> "simpleRGBColorState",
   shutterLevel |-> "primary_level", primaryShadingLevel |-> "primary_level",
   temperature |-> "setPointTemperature",
   setPointTemperature |-> "setPointTemperature"]

\* A value the newer command decided is never put back by a retry of the older
\* one: either the retry is pointless, or the key that carries the value is one
\* of those the retry brings up to date.
NoRetryCarriesAnOldValue ==
  SameTarget =>
    \A key \in DOMAIN older.body \cap DOMAIN CarriedField :
      CarriedField[key] \in FieldUpdates(newer) =>
        \/ Supersedes(newer, older)
        \/ <<key, CarriedField[key]>> \in RetryFieldMap(older)

-----------------------------------------------------------------------------
(* The tables as TargetTracking takes them: functions of a request that     *)
(* has a target.                                                            *)

Mutating == {cmd \in Commands : TargetScope(cmd) # <<>>}

ScopeTable == [cmd \in Mutating |-> TargetScope(cmd)]
AspectTable == [cmd \in Mutating |-> CommandAspect(cmd)]
ExtrasTable == [cmd \in Mutating |-> ExtraSupersededAspects(cmd)]
UpdatesTable == [cmd \in Mutating |-> FieldUpdates(cmd)]
NeedsTable == [cmd \in Mutating |-> {p[2] : p \in RetryFieldMap(cmd)}]

\* The shared fields a retry brings up to date: those of the map that are in its body.
Carried(cmd) == {p[2] : p \in {q \in RetryFieldMap(cmd) : Has(cmd, q[1])}}
CarriesTable == [cmd \in Mutating |-> Carried(cmd)]

\* What TargetTracking assumes of the tables (TablesAssumption): a command does
\* not override its own setting besides replacing it, and a retry brings up to
\* date no field but those it waits for.
TablesFit ==
  \A r \in Mutating :
    /\ AspectTable[r] \notin ExtrasTable[r]
    /\ CarriesTable[r] \subseteq NeedsTable[r]

\* What AppRestCommands assumes of them (DecidedAssumption): of two commands that
\* decide the same value the newer one replaces the older one, or the older one's
\* retry takes the newer value over.
DecidedByTheTables ==
  \A a, b \in Mutating :
    /\ ScopeTable[a] = ScopeTable[b]
    /\ (UpdatesTable[a] \cap UpdatesTable[b]) \ CarriesTable[b] # {}
    => AspectTable[b] \in {AspectTable[a]} \cup ExtrasTable[a]
=============================================================================
