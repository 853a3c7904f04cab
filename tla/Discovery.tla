------------------------------ MODULE Discovery ------------------------------
(***************************************************************************)
(* Which entities the devices and groups of the HCU get, on which platform *)
(* of Home Assistant, and what becomes of Home Assistant's entity registry *)
(* (discovery.py): the full discovery of a setup, which also cleans up the *)
(* registry, and the discovery of what events and a reconnect bring, which *)
(* does not, under the same options.  The same channel or group has the    *)
(* same unique id as a switch and as a light.                              *)
(*                                                                         *)
(* DynamicInclusion has the steps of one inclusion, EntryLifecycle those   *)
(* of a reload; here each is one step.  A device stands for one channel.   *)
(***************************************************************************)
EXTENDS Naturals, FiniteSets

CONSTANTS
  Device, Group,
  DeviceData,   \* [kind, room, maker] of the devices
  GroupType,
  Options,      \* [auto, onlyRooms, hideOthers, hideTypes] of the entry
  MaxHcuSteps   \* bound on the changes of the HCU

Item == Device \cup Group
Kinds == {"light", "switch", "siren"}
Makers == {"eQ-3", "other", "bridge"}

ASSUME DiscoveryAssumption ==
  /\ Device \cap Group = {}
  /\ DeviceData \subseteq [kind : Kinds, room : BOOLEAN, maker : Makers]
  /\ GroupType \subseteq {"SWITCHING", "EXTENDED_LINKED_SWITCHING", "ALARM_SWITCHING"}
  /\ Options \subseteq [auto : BOOLEAN, onlyRooms : BOOLEAN, hideOthers : BOOLEAN,
                       hideTypes : SUBSET GroupType]
  /\ MaxHcuSteps \in Nat

VARIABLES
  hardware,   \* what each device is, whether it is paired or not; never changes
  hcu,        \* the devices and groups of the HCU
  hcuSteps,   \* how often they changed
  coming,     \* new devices whose event the HCU has not sent yet
  settings,   \* of the entry, as far as discovery reads them
  connected,  \* the WebSocket is connected
  loaded,     \* the entry is set up
  seen,       \* the devices and groups in the client's state
  running,    \* the coordinator's entities
  held,       \* _pending_group_ids
  registry,   \* Home Assistant's entity registry, for this entry
  due,        \* a reload is under way
  countdown,  \* _pending_device_reload_task
  missed      \* history: the state was replaced, or not, after changes that
              \* an event would have led to a reload for

hcuVars == <<hardware, hcu, hcuSteps, coming>>
hassVars == <<seen, running, held, registry>>
discoveryVars == <<hcuVars, settings, connected, loaded, hassVars, due, countdown, missed>>

Absent == [kind |-> "none", room |-> FALSE, maker |-> "none"]
NoGroup == [type |-> "none", members |-> {}]
DeletedGroup == [type |-> "deleted", members |-> {}]  \* its id is not used again
GroupData == [type : GroupType, members : SUBSET Device]
EmptyState == [dev |-> [d \in Device |-> Absent], grp |-> [g \in Group |-> NoGroup]]

DevicesOf(s) == {d \in Device : s.dev[d] # Absent}
GroupsOf(s) == {g \in Group : s.grp[g].type \in GroupType}
Items(s) == DevicesOf(s) \cup GroupsOf(s)

States ==
  {s \in [dev : [Device -> DeviceData \cup {Absent}],
          grp : [Group -> GroupData \cup {NoGroup}]] :
     \A g \in Group : s.grp[g].members \subseteq DevicesOf(s)}

\* What does not depend on how the device is set up.
Hardware(x) == [siren |-> x.kind = "siren", maker |-> x.maker]
DataOf(d) == {x \in DeviceData : Hardware(x) = hardware[d]}

-----------------------------------------------------------------------------
\* An entity: what it is of, which of its entities (a unique id), and where.
Entity(of, part, platform) == [uid |-> <<of, part>>, platform |-> platform]

\* Devices the bridge contributed itself and hidden manufacturers are skipped.
Imported(x, o) ==
  x.maker = "eQ-3" \/ (x.maker = "other" /\ ~o.hideOthers)

\* _discover_entities_for_device: the entity of the channel, for which a room
\* may be needed.  A siren has only sensors of its own, which are left out.
DeviceEntities(d, s, o) ==
  LET x == s.dev[d]
  IN  {Entity(d, "on", x.kind) : k \in {x.kind} \cap {"light", "switch"}
         \cap (IF Imported(x, o) /\ (x.room \/ ~o.onlyRooms) THEN Kinds ELSE {})}

\* _is_switching_group_lights_only: every member is known and a light.
LightsOnly(g, s) ==
  /\ s.grp[g].members # {}
  /\ \A d \in s.grp[g].members : s.dev[d].kind = "light"

\* _alarm_group_has_siren
HasSiren(g, s) == \E d \in s.grp[g].members : s.dev[d].kind = "siren"

\* _discover_entities_for_group with its table of group types.
GroupEntities(g, s, o) ==
  LET type == s.grp[g].type
      main == Entity(g, "group", IF LightsOnly(g, s) THEN "light" ELSE "switch")
  IN  IF type \in o.hideTypes \/ s.grp[g].members = {} THEN {}
      ELSE IF type = "SWITCHING" THEN {main}
      ELSE IF type = "EXTENDED_LINKED_SWITCHING"
        THEN {main, Entity(g, "on_time", "sensor")}
      ELSE {Entity(g, "siren", "siren") : h \in {g} \cap {h \in Group : HasSiren(h, s)}}

\* What discovery creates for the items that s has.
Discovered(items, s, o) ==
  UNION ({DeviceEntities(d, s, o) : d \in items \cap DevicesOf(s)}
         \cup {GroupEntities(g, s, o) : g \in items \cap GroupsOf(s)})

Uids(entities) == {e.uid : e \in entities}

\* Mutant: only entries without an entity are removed.
CleanedOfOrphans(reg, found) == {e \in reg : e.uid \in Uids(found)}

\* The clean-up: entries without an entity go, and those of entities that moved
\* to another platform.
Cleaned(reg, found) ==
  {e \in reg : \E f \in found : f.uid = e.uid /\ f.platform = e.platform}

-----------------------------------------------------------------------------
\* What changed from the client's state s to t, as process_events and the
\* refresh after a reconnect see it.
NewRoom(s, t) ==
  {d \in DevicesOf(s) \cap DevicesOf(t) : t.dev[d].room /\ ~s.dev[d].room}
Included(s, t) == (Items(t) \ Items(s)) \cup NewRoom(s, t)
Excluded(s, t) == Items(s) \ Items(t)

\* Mutant: new members of a group need no reload.
NeedsReloadForDevices(s, t) ==
  \E d \in DevicesOf(s) \cap DevicesOf(t) : s.dev[d].kind # t.dev[d].kind

\* reload_required
NeedsReload(s, t) ==
  \/ \E d \in DevicesOf(s) \cap DevicesOf(t) : s.dev[d].kind # t.dev[d].kind
  \/ \E g \in GroupsOf(s) \cap GroupsOf(t) : s.grp[g].members # t.grp[g].members

\* _handle_dynamic_inclusions with the client's state s.
HandleIncluded(included, s) ==
  LET ids == included \cup (IF included \cap DevicesOf(s) # {} THEN held ELSE {})
      back == {g \in ids \cap GroupsOf(s) : ~(s.grp[g].members \subseteq DevicesOf(s))}
      fresh == {e \in Discovered(ids \ back, s, settings) : e.uid \notin Uids(running)}
  IN  /\ held' = (held \cup back) \ (ids \ back)
      /\ running' = running \cup fresh
      /\ registry' = registry \cup fresh

\* _handle_event_message: the events turn the client's state into s.
Receive(s) ==
  IF connected /\ loaded
    THEN LET gone == settings.auto /\ Excluded(seen, s) # {}
         IN  /\ seen' = s
             /\ HandleIncluded(Included(seen, s), s)
             /\ due' = (due \/ gone)
             /\ countdown' = (countdown \/ (settings.auto /\ ~gone /\ NeedsReload(seen, s)))
    ELSE UNCHANGED <<hassVars, due, countdown>>

HcuStep == hcuSteps < MaxHcuSteps /\ hcuSteps' = hcuSteps + 1
OutsideHcu == <<settings, connected, loaded, missed>>

\* A device is paired.
PairDevice ==
  /\ HcuStep
  /\ \E d \in Device \ DevicesOf(hcu) : \E x \in DataOf(d) :
       /\ hcu' = [hcu EXCEPT !.dev[d] = x]
       /\ Receive([seen EXCEPT !.dev[d] = x])
  /\ UNCHANGED <<hardware, coming, OutsideHcu>>

\* A group is made, of which some members were paired for it: their events
\* come later.
MakeGroup ==
  /\ HcuStep
  /\ \E g \in {g \in Group : hcu.grp[g] = NoGroup}, y \in GroupData,
        new \in SUBSET (Device \ DevicesOf(hcu)) :
     \E x \in [new -> DeviceData] :
       /\ \A d \in new : x[d] \in DataOf(d)
       /\ new \subseteq y.members /\ y.members \subseteq DevicesOf(hcu) \cup new
       /\ hcu' = [dev |-> [d \in Device |-> IF d \in new THEN x[d] ELSE hcu.dev[d]],
                  grp |-> [hcu.grp EXCEPT ![g] = y]]
       /\ coming' = IF connected THEN coming \cup new ELSE coming
       /\ Receive([seen EXCEPT !.grp[g] = y])
  /\ UNCHANGED <<hardware, OutsideHcu>>

DeviceComes(d) ==
  /\ d \in coming
  /\ coming' = coming \ {d}
  /\ Receive([seen EXCEPT !.dev[d] = hcu.dev[d]])
  /\ UNCHANGED <<hardware, hcu, hcuSteps, OutsideHcu>>

\* A channel is shown as a light or as a switch from now on (switchVisualization),
\* or gets or loses its room.
ChangeDevice ==
  /\ HcuStep
  /\ \E d \in DevicesOf(hcu) \ coming : \E x \in DataOf(d) \ {hcu.dev[d]} :
       /\ hcu' = [hcu EXCEPT !.dev[d] = x]
       /\ Receive([seen EXCEPT !.dev[d] = x])
  /\ UNCHANGED <<hardware, coming, OutsideHcu>>

\* The members of a group change.
ChangeGroup ==
  /\ HcuStep
  /\ \E g \in GroupsOf(hcu), members \in SUBSET (DevicesOf(hcu) \ coming) :
       /\ members # hcu.grp[g].members
       /\ hcu' = [hcu EXCEPT !.grp[g].members = members]
       /\ Receive([seen EXCEPT !.grp[g].members = members])
  /\ UNCHANGED <<hardware, coming, OutsideHcu>>

\* A device is removed, also from its groups.
RemoveDevice ==
  /\ HcuStep
  /\ \E d \in DevicesOf(hcu) \ coming :
       LET Without(s) ==
             [dev |-> [s.dev EXCEPT ![d] = Absent],
              grp |-> [g \in Group |-> [s.grp[g] EXCEPT !.members = @ \ {d}]]]
       IN  hcu' = Without(hcu) /\ Receive(Without(seen))
  /\ UNCHANGED <<hardware, coming, OutsideHcu>>

RemoveGroup ==
  /\ HcuStep
  /\ \E g \in GroupsOf(hcu) :
       /\ hcu' = [hcu EXCEPT !.grp[g] = DeletedGroup]
       /\ Receive([seen EXCEPT !.grp[g] = DeletedGroup])
  /\ UNCHANGED <<hardware, coming, OutsideHcu>>

-----------------------------------------------------------------------------
\* Events that were under way are lost.
LoseConnection ==
  /\ connected /\ connected' = FALSE
  /\ coming' = {}
  /\ UNCHANGED <<hardware, hcu, hcuSteps, settings, loaded, hassVars, due, countdown, missed>>

\* The WebSocket is back, and with it, unless the request for it fails, the whole
\* state.  The refresh looks for new and removed items and for new rooms only.
Reconnected ==
  /\ ~connected /\ connected' = TRUE
  /\ \E answered \in BOOLEAN :
       IF loaded /\ answered
         THEN /\ seen' = hcu
              /\ HandleIncluded(Included(seen, hcu), hcu)
              /\ due' = (due \/ (settings.auto /\ Excluded(seen, hcu) # {}))
              /\ missed' = (missed \/ NeedsReload(seen, hcu))
         ELSE /\ missed' = (missed \/ (loaded /\ seen # hcu))
              /\ UNCHANGED <<hassVars, due>>
  /\ UNCHANGED <<hcuVars, settings, loaded, countdown>>

\* _delayed_reload_cfg
CountdownEnds ==
  /\ countdown /\ countdown' = FALSE
  /\ due' = TRUE
  /\ UNCHANGED <<hcuVars, settings, connected, loaded, hassVars, missed>>

\* The settings are saved, which reloads the entry.
ChangeOptions ==
  /\ \E o \in Options \ {settings} : settings' = o
  /\ due' = TRUE
  /\ UNCHANGED <<hcuVars, connected, loaded, hassVars, countdown, missed>>

\* async_unload_entry
UnloadEntry ==
  /\ loaded /\ due
  /\ loaded' = FALSE /\ due' = FALSE /\ countdown' = FALSE /\ missed' = FALSE
  /\ seen' = EmptyState /\ running' = {} /\ held' = {}
  /\ UNCHANGED <<hcuVars, settings, connected, registry>>

\* async_setup_entry with async_discover_entities.
SetUpEntry ==
  /\ ~loaded /\ connected /\ DevicesOf(hcu) # {}
  /\ loaded' = TRUE
  /\ seen' = hcu
  /\ LET found == Discovered(Item, hcu, settings)
     IN  running' = found /\ registry' = Cleaned(registry, found) \cup found
  /\ coming' = {}
  /\ due' = FALSE
  /\ UNCHANGED <<hardware, hcu, hcuSteps, settings, connected, held, countdown, missed>>

\* async_remove_config_entry_device: the user deletes what the HCU no longer has,
\* or anything while the entry is not set up.
UserDeletes(i) ==
  /\ ~loaded \/ i \notin Items(seen)
  /\ registry' = {e \in registry : e.uid[1] # i}
  /\ registry' # registry
  /\ UNCHANGED <<hcuVars, settings, connected, loaded, seen, running, held, due,
                 countdown, missed>>

DiscoveryInit ==
  /\ hardware \in [Device -> {Hardware(x) : x \in DeviceData}]
  /\ hcu \in {s \in States : \A d \in DevicesOf(s) : s.dev[d] \in DataOf(d)}
  /\ hcuSteps = 0 /\ coming = {}
  /\ settings \in Options
  /\ connected = TRUE /\ loaded = FALSE
  /\ seen = EmptyState /\ running = {} /\ held = {} /\ registry = {}
  /\ due = FALSE /\ countdown = FALSE /\ missed = FALSE

DiscoveryNext ==
  \/ PairDevice \/ MakeGroup \/ ChangeDevice \/ ChangeGroup \/ RemoveDevice \/ RemoveGroup
  \/ \E d \in Device : DeviceComes(d)
  \/ LoseConnection \/ Reconnected \/ CountdownEnds \/ ChangeOptions
  \/ UnloadEntry \/ SetUpEntry
  \/ \E i \in Item : UserDeletes(i)

DiscoverySpec == DiscoveryInit /\ [][DiscoveryNext]_discoveryVars

-----------------------------------------------------------------------------
\* A channel or group is in the registry on one platform only, and while the
\* entry is set up, only with an entity behind it, through any series of reloads,
\* inclusions, changed settings and moves between the switch and light platforms.
OneEntityEach ==
  /\ \A e, f \in registry : e.uid = f.uid => e = f
  /\ loaded => registry \subseteq running

\* With automatic reloads, once none is due, the entities found one by one are
\* those that a full discovery of the HCU would create: on the same platforms,
\* whichever of a group and its members came first, and none is missing.  Only
\* channels that lost their room keep theirs until the next reload, and changes
\* made while the connection was down are not noticed.
FollowsTheHcu ==
  loaded /\ connected /\ settings.auto /\ ~due /\ ~countdown /\ ~missed /\ coming = {} =>
    LET found == Discovered(Item, hcu, settings)
    IN  /\ found \subseteq registry
        /\ \A e \in running \ found :
             e.uid[1] \in Device /\ ~hcu.dev[e.uid[1]].room /\ settings.onlyRooms

\* "New devices are added without a reload either way" (README.md, on automatic
\* reloads): every device that the client knows and discovery gives an entity to
\* has one in Home Assistant.
NewDevicesAppear ==
  loaded /\ connected /\ ~due /\ ~missed =>
    Uids(Discovered(Device, seen, settings)) \subseteq Uids(registry)
=============================================================================
