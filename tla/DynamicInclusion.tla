-------------------------- MODULE DynamicInclusion --------------------------
(***************************************************************************)
(* How devices and groups get their entities (HcuCoordinator in            *)
(* coordinator.py, async_setup_entry in __init__.py and the platforms):    *)
(* the initial discovery, the platforms set up one by one, the devices and *)
(* groups that events and refreshes bring later, and the groups held back  *)
(* until their members are known.  A device or a group stands for its      *)
(* entity, on one platform.                                                *)
(*                                                                         *)
(* StateSync models how the cache follows the HCU; here an event is        *)
(* handled as soon as the HCU sends it, and a snapshot is what the HCU has *)
(* when it is applied.                                                     *)
(***************************************************************************)
EXTENDS Naturals, FiniteSets

CONSTANTS
  Device, Group,
  MembersOf,     \* the devices of each group whose type depends on them
  Platform,
  PlatformOf,    \* the platform of the entity of a device or group
  Refresh,       \* the refreshes, one for each reconnect; bounds the reconnects
  MaxChanges     \* bound on the changes of the HCU

Item == Device \cup Group

ASSUME InclusionAssumption ==
  /\ Device \cap Group = {}
  /\ MembersOf \in [Group -> SUBSET Device]
  /\ PlatformOf \in [Item -> Platform]
  /\ MaxChanges \in Nat

VARIABLES
  autoReload,  \* the option to reload on removals; it never changes here
  exists,      \* the devices and groups of the HCU
  changes,     \* how often they changed
  connected,   \* the WebSocket is connected
  stage,       \* of the setup: "unloaded", "registering" or "loaded"
  known,       \* the devices and groups in the client's state
  entities,    \* those with an entity in the coordinator's entities
  pending,     \* _pending_group_ids
  registered,  \* the platforms in _platform_callbacks
  added,       \* how often each entity was given to its platform
  refresh,     \* each refresh: where it is, and its old_ids
  reloading,   \* a reload is scheduled
  unnoticed    \* history: what came without being looked at

hcuSide == <<autoReload, exists, changes, connected>>
discovery == <<entities, pending, added>>
inclusionVars == <<hcuSide, stage, known, discovery, registered, refresh, reloading,
                   unnoticed>>

NoRefresh == [at |-> "idle", old |-> {}]
Nowhere == [x \in Item |-> 0]
Loaded == stage = "loaded"

InclusionInit ==
  /\ autoReload \in BOOLEAN
  /\ exists \in SUBSET Item
  /\ changes = 0
  /\ connected = TRUE
  /\ stage = "unloaded"
  /\ known = {} /\ entities = {} /\ pending = {} /\ registered = {}
  /\ added = Nowhere
  /\ refresh = [r \in Refresh |-> NoRefresh]
  /\ reloading = FALSE
  /\ unnoticed = {}

-----------------------------------------------------------------------------
\* _has_unknown_members
HasUnknownMembers(g, devices) == ~(MembersOf[g] \subseteq devices)

\* Mutant: the groups held back are not tried again.
ToDiscoverOnce(included, kn) == included

\* The ids to look at: what was included and, with a new device, what was held
\* back before.
ToDiscover(included, kn) ==
  included \cup IF (included \cap Device) \cap kn # {} THEN pending ELSE {}

HeldBack(ids, kn) == {g \in (ids \cap Group) \cap kn : HasUnknownMembers(g, kn)}

\* _handle_dynamic_inclusions with the client's state kn: what is new gets an
\* entity, which goes to its platform if that is set up already.
HandleInclusions(included, kn) ==
  LET ids == ToDiscover(included, kn)
      held == HeldBack(ids, kn)
      fresh == ((ids \ held) \cap kn) \ entities
  IN  /\ pending' = (pending \cup held) \ (ids \ held)
      /\ entities' = entities \cup fresh
      /\ added' = [x \in Item |->
                     IF x \in fresh /\ PlatformOf[x] \in registered
                       THEN added[x] + 1 ELSE added[x]]

\* process_events and _handle_event_message: included holds what the client
\* did not know, and is looked at once the initial state is loaded.
HandleEvent(items, again) ==
  IF connected /\ stage # "unloaded"
    THEN /\ known' = known \cup items
         /\ IF Loaded
              THEN HandleInclusions((items \ known) \cup again, known')
              ELSE UNCHANGED discovery
    ELSE UNCHANGED <<known, discovery>>

\* Devices and groups are added on the HCU: DEVICE_ADDED, GROUP_ADDED, in one
\* message or several, the group first or last.
HcuAdds ==
  /\ changes < MaxChanges
  /\ changes' = changes + 1
  /\ \E items \in SUBSET (Item \ exists) \ {{}} :
       exists' = exists \cup items /\ HandleEvent(items, {})
  /\ UNCHANGED <<autoReload, connected, stage, registered, refresh, reloading, unnoticed>>

\* A known device changes, and may be included again because a channel of it
\* was assigned to a room.
HcuChanges ==
  /\ \E d \in exists \cap Device, again \in BOOLEAN :
       HandleEvent({d}, IF again /\ d \in known THEN {d} ELSE {})
  /\ UNCHANGED <<hcuSide, stage, registered, refresh, reloading, unnoticed>>

\* Something is removed: the integration reloads, or only forgets it.
HcuRemoves ==
  /\ changes < MaxChanges
  /\ changes' = changes + 1
  /\ \E x \in exists :
       /\ exists' = exists \ {x}
       /\ IF connected /\ stage # "unloaded"
            THEN /\ known' = known \ {x}
                 /\ reloading' = (reloading \/ (Loaded /\ autoReload))
            ELSE UNCHANGED <<known, reloading>>
  /\ UNCHANGED <<autoReload, connected, stage, discovery, registered, refresh, unnoticed>>

-----------------------------------------------------------------------------
Disconnect ==
  /\ connected
  /\ connected' = FALSE
  /\ UNCHANGED <<autoReload, exists, changes, stage, known, discovery, registered,
                 refresh, reloading, unnoticed>>

\* The connection is back, and a refresh starts once the initial state is loaded.
Reconnect ==
  /\ ~connected
  /\ connected' = TRUE
  /\ IF Loaded
       THEN \E r \in Refresh : /\ refresh[r].at = "idle"
                               /\ refresh' = [refresh EXCEPT ![r] = [at |-> "asked", old |-> known]]
       ELSE UNCHANGED refresh
  /\ UNCHANGED <<autoReload, exists, changes, stage, known, discovery, registered,
                 reloading, unnoticed>>

\* _async_refresh_state_after_reconnect: the snapshot replaces the state ...
RefreshApplies(r) ==
  /\ refresh[r].at = "asked" /\ connected
  /\ refresh' = [refresh EXCEPT ![r].at = "applied"]
  /\ known' = exists
  /\ UNCHANGED <<hcuSide, stage, discovery, registered, reloading, unnoticed>>

\* ... and the refresh goes on with what is new and what is gone.
RefreshEnds(r) ==
  /\ refresh[r].at = "applied"
  /\ refresh' = [refresh EXCEPT ![r].at = "done"]
  /\ HandleInclusions(known \ refresh[r].old, known)
  /\ reloading' = (reloading \/ (autoReload /\ refresh[r].old \ known # {}))
  /\ UNCHANGED <<hcuSide, stage, known, registered, unnoticed>>

\* It gives up.  What another refresh brings may have been new to this one only.
RefreshFails(r) ==
  /\ refresh[r].at = "asked"
  /\ refresh' = [refresh EXCEPT ![r].at = "done"]
  /\ unnoticed' = unnoticed \cup IF \E q \in Refresh \ {r} : refresh[q].at # "idle"
                                   THEN Item \ refresh[r].old ELSE {}
  /\ UNCHANGED <<hcuSide, stage, known, discovery, registered, reloading>>

\* _async_update_data, when somebody asks for an update of an entity: the state
\* is replaced, for an App User over HTTP even while the WebSocket is down.
UpdateData ==
  /\ Loaded
  /\ known' = exists
  /\ unnoticed' = unnoticed \cup (exists \ known)
  /\ UNCHANGED <<hcuSide, stage, discovery, registered, refresh, reloading>>

-----------------------------------------------------------------------------
\* async_setup loads the first snapshot, which has a device or the setup is
\* tried again later, and registers the HCU device ...
LoadState ==
  /\ stage = "unloaded" /\ connected /\ exists \cap Device # {}
  /\ stage' = "registering"
  /\ known' = exists
  /\ UNCHANGED <<hcuSide, discovery, registered, refresh, reloading, unnoticed>>

\* ... and the initial discovery follows without giving way to anything else.
DiscoverAll ==
  /\ stage = "registering"
  /\ stage' = "loaded"
  /\ entities' = known
  /\ UNCHANGED <<hcuSide, known, pending, added, registered, refresh, reloading,
                 unnoticed>>

\* Mutant: the entities are taken before the callback is there.
SetUpPlatformEarly(p) ==
  /\ Loaded /\ p \notin registered
  /\ registered' = registered \cup {p}
  /\ added' = [x \in Item |-> IF x \in entities /\ PlatformOf[x] = p /\ x \in exists
                                THEN added[x] + 1 ELSE added[x]]
  /\ UNCHANGED <<hcuSide, stage, known, entities, pending, refresh, reloading,
                 unnoticed>>

\* async_setup_entry of a platform: it registers its callback and takes what is
\* there already, including what was found while other platforms were set up.
SetUpPlatform(p) ==
  /\ Loaded /\ p \notin registered
  /\ registered' = registered \cup {p}
  /\ added' = [x \in Item |-> IF x \in entities /\ PlatformOf[x] = p
                                THEN added[x] + 1 ELSE added[x]]
  /\ UNCHANGED <<hcuSide, stage, known, entities, pending, refresh, reloading,
                 unnoticed>>

\* The reload: the entry is unloaded, and will be set up from nothing.
Unload ==
  /\ reloading /\ registered = Platform
  /\ stage' = "unloaded"
  /\ known' = {} /\ entities' = {} /\ pending' = {} /\ registered' = {}
  /\ added' = Nowhere
  /\ refresh' = [r \in Refresh |-> IF refresh[r].at = "idle" THEN NoRefresh
                                    ELSE [at |-> "done", old |-> {}]]
  /\ reloading' = FALSE
  /\ unnoticed' = {}
  /\ UNCHANGED hcuSide

InclusionNext ==
  \/ HcuAdds \/ HcuChanges \/ HcuRemoves \/ Disconnect \/ Reconnect
  \/ UpdateData \/ LoadState \/ DiscoverAll \/ Unload
  \/ \E r \in Refresh : RefreshApplies(r) \/ RefreshEnds(r) \/ RefreshFails(r)
  \/ \E p \in Platform : SetUpPlatform(p)

InclusionSpec == InclusionInit /\ [][InclusionNext]_inclusionVars

-----------------------------------------------------------------------------
InclusionTypeOK ==
  /\ known \subseteq Item /\ exists \subseteq Item /\ entities \subseteq Item
  /\ registered \subseteq Platform
  /\ added \in [Item -> Nat]
  /\ pending \subseteq Group
  /\ refresh \in [Refresh -> [at : {"idle", "asked", "applied", "done"}, old : SUBSET Item]]

\* Every entity goes to its platform exactly once, whether it was found before,
\* while or after the platforms were set up, and however often events and
\* refreshes bring the same device or group again.
AddedOnce ==
  \A x \in Item : added[x] = IF x \in entities /\ PlatformOf[x] \in registered THEN 1 ELSE 0

\* "Hold such groups back and retry them when new devices arrive"
\* (_handle_dynamic_inclusions): whatever arrives gets its entity, a group once
\* its members are known, in whatever order it and they arrive, are removed and
\* come back, over events and refreshes.  Left out is what an update of the
\* coordinator put into the state, or a refresh next to one that failed.
NothingForgotten ==
  Loaded /\ (\A r \in Refresh : refresh[r].at \in {"idle", "done"})
  => \A x \in known \ unnoticed :
       \/ x \in entities
       \/ x \in Group /\ (HasUnknownMembers(x, known) \/ MembersOf[x] \cap unnoticed # {})

\* "Devices and groups that appeared meanwhile get their entities"
\* (_async_refresh_state_after_reconnect).
RefreshFindsAll ==
  [][\A r \in Refresh :
       refresh[r].at = "applied" /\ refresh'[r].at = "done" /\ Loaded
       => \A x \in known \cap Device : x \in entities']_inclusionVars
=============================================================================
