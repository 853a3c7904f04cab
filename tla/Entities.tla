------------------------------ MODULE Entities ------------------------------
(***************************************************************************)
(* The entities of Home Assistant that show a guess of their own until     *)
(* reports confirm it, and what the bridge does for an entity of another   *)
(* integration.  They share the client but no state: each follows its own  *)
(* specification, whatever the others do.                                  *)
(***************************************************************************)
EXTENDS AlarmSiren, OptimisticState, Climate, Cover, BridgeAutoOff, BridgeStatus

EntitiesSpec ==
  /\ SirenSpec /\ OptimisticSpec /\ ClimateSpec /\ CoverSpec
  /\ AutoOffSpec /\ StatusSpec

\* Every variable has its type: stops are due only for what is on, and timers
\* run only for the call or request that armed them.
TypesOK ==
  /\ SirenTypeOK /\ OptimisticTypeOK /\ ClimateTypeOK /\ CoverTypeOK
  /\ AutoOffTypeOK /\ StatusTypeOK

\* A siren or a switched entity that shows a guess of its own ends up showing what
\* its device is, after commands that fail or end in any order and reports that
\* overtake them (_attr_assumed_state of their base classes).
ShownStatesSettle == ShownStateSettles /\ SettlesOnDevice
=============================================================================
