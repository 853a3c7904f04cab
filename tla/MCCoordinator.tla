---------------------------- MODULE MCCoordinator ----------------------------
(***************************************************************************)
(* Two views of the coordinator, of which an instance runs one: how its    *)
(* cache follows the HCU, with two devices that each change twice and two  *)
(* refreshes, and how devices and groups get their entities, with two      *)
(* devices on one platform and a group of both on another.                 *)
(***************************************************************************)
EXTENDS MCInclusion, StateSync

Symmetry == Permutations(MCDevice) \cup Permutations(Refresh)
              \cup Permutations(SyncDevice) \cup Permutations(SyncRefresh)

VARIABLE view

\* The view that does not run starts in one state only.
InclusionRests == exists = {} /\ ~autoReload
SyncRests == mode = "app"

MCInit ==
  /\ Init /\ InclusionInit
  /\ \/ view = "cache" /\ InclusionRests
     \/ view = "entities" /\ SyncRests
MCNext ==
  /\ UNCHANGED view
  /\ \/ view = "cache" /\ Next /\ UNCHANGED inclusionVars
     \/ view = "entities" /\ InclusionNext /\ UNCHANGED vars
MCSpec == MCInit /\ [][MCNext]_<<view, vars, inclusionVars>>
=============================================================================
