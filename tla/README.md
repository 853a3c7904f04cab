# TLA+ models of the Homematic IP HCU integration

This directory specifies the concurrent core of the Home Assistant integration in
`src/custom_components/hcu_integration/`: what happens when commands overlap, answers
are lost, connections die, tasks are cancelled, dialogs save over each other and devices
come and go. TLC checks the models on small instances; TLAPS proves the central results
for every size. File names below are relative to `custom_components/hcu_integration/`,
line numbers refer to the source the models were written from.

Check a run with `tlc -config <cfg> <module>`, a proof with `tlapm <module>.tla`.
`PROJECT.json` lists the runs, the source lines of every definition (`map`), one
deliberately broken definition per checked property (`mutants`; the broken forms stand
in the modules, marked "Mutant:"), the hazards, the findings and the theorems.

## 1. The system

The integration is a Python package that runs in Home Assistant's single asyncio event
loop. Nothing is preempted: code runs from one `await` to the next, and everything that
makes the system hard happens at those points. That is also the grain of the models: an
action is the code between two awaits (one exception, `Record` below, is explained).

There are three ways to authenticate. A *Plugin User* exchanges everything over one
WebSocket. An *App User* posts commands over HTTP and gets events over a WebSocket. A
*DualBridge* entry is an App User with a second, plugin WebSocket for the entity bridge.

### Inventory

| Component (source) | State it keeps | Operations | What is hard | What makes it correct |
| --- | --- | --- | --- | --- |
| Command tables (`api.py` 405-860) | none | which target, setting and fields a command concerns | commands that undo each other under different names | opposite commands override each other; a retry repeats no value a newer command decided |
| Overlapping commands (`api.py` 700-1045) | counts, generations, in-flight fields, recorded values and an event per target | enter, record, wait, refresh, leave | shared counters that come and go with the commands; waiting on replaced events | superseded iff replaced later; no lost wake-up; nothing left behind |
| REST commands (`api.py` 900-1045) | command lock | post, DEVICE_BUSY retry | the lock between the check and the post; cancellation; late execution | no stale retry; newer value kept; every call ends |
| WebSocket requests (`api.py` 1047-1500) | pending futures, hooks | attempts, back-offs, responses, clean-up when the listener stops | late, duplicate and lost answers; listener and caller out of step | no stale resend; resend carries acknowledged values; every call ends |
| State cache and connection (`api.py`, `coordinator.py` 200-300, 540-700) | the cached system state, the connection, setup stage | connect, snapshot, event, refresh, setup retry | snapshot and events race; refreshes overlap | the cache catches up and never goes back |
| Dynamic inclusion (`coordinator.py` 110-290, 575-640, `__init__.py`) | entities, groups held back, platform callbacks | discover, hold back, include, refresh, reload | platforms appear one by one while events arrive; groups need their members | each entity added exactly once, none forgotten |
| Entity discovery (`discovery.py`) | the entity registry | classify channels and groups, remove what is not wanted | a group changes its platform with its members; the registry outlives a reload | one entity each; what is found one by one is what a full discovery finds |
| Entity bridge, control (`ha_entity_bridge.py` 600-760, 820-850) | auto-off tasks | control requests feature by feature, timer, state listener, unload | requests, timers and state changes during a service call | the newest command decides; an off ends the timer; the HCU is told what it asked for |
| Entity bridge, status (`ha_entity_bridge.py` 100-600, 765-810) | discovered ids, last report | discovery, reports, throttle | a report noted but lost with the socket | the HCU ends up with the current value |
| DualBridge channel (`coordinator.py`, `api.py`) | second socket | connect, route, disconnect | the close of an old socket overlaps with a new one | see section 7 |
| Switch, light, group entities (`entity.py`, `switch.py`, `light.py`) | optimistic state | on, off, revert | failure of one of two overlapping calls | what is shown settles on the device |
| Alarm siren (`siren.py`) | optimistic state, lock, timer | on, timed on, off, timed stop | a due stop waits behind newer commands | a stop ends only its own alarm |
| Lock, alarm panel, valve (`lock.py`, `alarm_control_panel.py`, `valve.py`) | optimistic flags | commands | as for switches | as for switches |
| Covers (`cover.py`) | displayed direction with two windows of time | move, stop, reports, refresh | reports inside the windows; the HCU tells the direction late | never the wrong direction; the right one once settled |
| Climate (`climate.py`) | optimistic mode, target and preset | calls of up to three commands | the second step fails or is overtaken; reports between the steps | shows what the HCU has; a call by itself takes effect |
| Config flow (`config_flow.py` 143-1437) | the dialog's copy of the entry, tokens | discover, authorize, read the HCU, confirm an address, re-authenticate, reconfigure | several dialogs save one entry; HCUs swap addresses | credentials fit; no entry changes its HCU |
| Options flow (`config_flow.py` 1438-2080) | the options | bridge, settings, developer, vacation | every save writes all options | options are what was chosen last |
| Setup, unload and reload (`__init__.py`) | entry data | setup, retry, listener, reload, unload, migrate | saves during a setup; delayed reloads | runs what is stored; no change forgotten |
| Services (`services.py`) | none | fan out to several targets | one of several fails | not modelled, section 7 |
| Sensors, events, buttons, repairs, diagnostics, constants, scripts | none or presentation | pure functions, forms | - | not modelled, section 7 |

### How they interact

Entities call `HcuApiClient`, which sends the command over HTTP or the WebSocket and, in
both cases, brackets it with `_track_target_command`. The listener task of the client
reads the WebSocket: it settles the futures of callers, updates the cached state and
calls the coordinator back synchronously, which updates entities, includes new devices
and restarts the listener when a connection is lost. The entity bridge calls Home
Assistant services on behalf of the HCU and reports state changes to it over the same
client. Dialogs save the config entry; the update listener compares each save with the
last one and reloads the entry, as do the coordinator's own timers.

## 2. Modules

```
CommandAspects                     pure tables          <- CommandStream, EntityProofs;
      |                                                    MCCommandAspects (in MCEntities)
      |  (through MCRequests, as values of constants)
TargetTracking                     shared bookkeeping   <- MCTargetTracking
      |        \--implements--> Supersession (abstract)
      |        \--proved in---> TargetTrackingProofs
      +-- AppRestCommands          App User             <- MCAppRestCommands, RestProofs
      +-- PluginRequests           Plugin User          <- MCPluginRequests, PluginProofs
                 \--both implement--> Delivery (abstract), which extends Supersession
StateSync                          cache, connection    \  MCCoordinator (MCStateSync,
DynamicInclusion                   entities, groups     /  MCInclusion), CoordinatorProofs
AlarmSiren, OptimisticState,
Climate, Cover                     entities             \  Entities <- MCEntities;
BridgeAutoOff                                            } EntityProofs, which extends
BridgeFeatures <- BridgeStatus     entity bridge        /  BridgeProofs
EntryFlows, SetupFlow, OptionsFlow dialogs              \  MCConfigFlow,
EntryLifecycle                     setup and reload      } ConfigEntryProofs,
Discovery                          what gets an entity  /  DiscoveryProofs
```

* **CommandAspects** is a translation of `_command_target_scope`, `_command_aspect`,
  `_extra_superseded_aspects`, `_command_field_updates` and `_retry_field_map`. A command
  is a path and the keys of its body; only values the tables compare are kept.
  **CommandStream** takes two commands at a time, of which the older one may still be sent
  again when the newer one is called, from a constant set of commands; what the entities
  guarantee about the commands they send is its `CommandsAssumption`. It also states what
  the other modules assume of the tables (`TablesFit`, `DecidedByTheTables`).
* **TargetTracking** is `_track_target_command` and its helpers. Its tables are constants
  with the assumption `TablesAssumption`, so that it can be proved about for every table;
  **MCRequests** fills them from CommandAspects. Python's `asyncio.Event` objects become
  sets: `scopeEvent[s]` holds the commands that wait on the event *now* registered for
  `s`; replacing or setting the event empties the set. `Record` is an action of its own
  because the WebSocket listener records a response steps before its caller runs.
* **Supersession** is the abstract promise: a command becomes stale when, and only when,
  one that replaces it starts. It has no counters. **Delivery** adds the promise about
  sending that both channels make, without saying how they wait, lock or refresh: a command
  goes out only between its start and its end, a bounded number of times, and after the
  first time only while it is not stale.
* **AppRestCommands** and **PluginRequests** EXTEND TargetTracking and put its operators
  into the real order of sending: the command lock, posts, sleeps, DEVICE_BUSY, time-outs,
  cancellation. The HCU is modelled from how the code uses it: it may answer, refuse, stay
  silent, and carry out what its caller has given up on.
* **StateSync** keeps a version number per device on the HCU, in each message and in the
  cache. For a Plugin User, a snapshot is a message in line with the events and is applied
  by the listener (`on_success`); for an App User it is applied when the HTTP call
  resumes. An answer to a fetch that was given up does nothing.
* **DynamicInclusion** follows devices and groups from the HCU through the cached state
  to the platforms. Removals, additions, refreshes, the platforms set up one at a time,
  and reload are actions.
* **Discovery** is what an inclusion and a full discovery decide: which channels and
  groups are entities, on which platform, under which options; what `async_discover_entities`
  removes from the registry, when a change asks for a reload
  (`_needs_reload_for_device_change` and the group changes), and what the user may delete.
  It takes an inclusion and a reload as one step each, whose parts are in DynamicInclusion
  and EntryLifecycle.
* **BridgeAutoOff** is the switch of one bridged entity with any number of overlapping
  control requests and timers. **BridgeFeatures** holds the pure part of the bridge:
  announced features, their values, conversions of levels, and what a request means;
  **BridgeStatus** composes them with the connection, the throttle, and a control request
  from its first feature to its answer and report.
* **Entities** puts the entities and the bridge side by side, which share no state, so that
  a property and a theorem can speak about all of them.
* **AlarmSiren** models the siren's lock, timer and optimistic state; **OptimisticState**
  the three ways in which the other entities take an optimistic state back. **Climate** has
  every service call of a heating group with the commands it sends; which of them it sends
  is decided from the cache as the call gets there. **Cover** counts seconds in two
  saturating ages, for `_optimistic_direction` and `_processing_started_at`.
* **SetupFlow** has the flows that create entries, by address and by discovery, with the
  rules of Home Assistant about unique IDs; **EntryFlows** re-authentication and
  reconfiguration, where a token is a number and remembers the plugin ID it was issued for;
  **OptionsFlow** the options dialogs. **EntryLifecycle** takes their saves and decides
  about reloads.
* Some variables are *history*: they only remember what happened and no guard reads them.
  They are marked so in the VARIABLES comments.

## 3. What the runs check

State counts are distinct states.

| Run | Instance | What it shows |
| --- | --- | --- |
| `target_tracking` | 3 calls, each any of dim, color, off, on (one light) and mode (a heating group) | exact supersession, no lost wake-up, an idle target keeps nothing, recorded values carry their author's number; implements Supersession |
| `app_rest` | 3 calls; requests as in `Overlaps` | implements Delivery with two posts per command; `NewerValueKept`, `EveryCallEnds`; 108,550 states |
| `plugin_requests` | 2 calls, 2 attempts each | implements Delivery with `MaxAttempts + 1` messages per command; `ResendKeepsAcknowledged`, `EveryCallEnds`; 74,359 states |
| `coordinator` | cache: both modes, 2 devices, 2 refreshes, 3 versions; entities: 2 devices and a group of both, 2 platforms, 2 refreshes, 3 changes | the cache catches up after lost connections and never goes back; each entity added once, groups held back and not forgotten; 1,221,726 states |
| `entities` | a siren or an optimistic entity with 2 calls, a heating group with 2 calls, a cover with 3 moves, 3 control requests of an auto-off, a bridged lamp or contact, and every pair of commands of a light, switch, shading and heating group | 15 properties, see below; 1,154,524 states |
| `config_flow` | 2 dialogs of each kind, 4 tokens, 2 HCUs, addresses and entries, 2 bridged devices and 1 maker, 2 waiting reloads, 2 devices and a group with 2 changes of the HCU | 8 properties, see below; 954,249 states |
| `bridge_late_off`, `state_sync_app`, `switch_reverts`, `report_dropped`, `inclusion_missed`, `new_devices` | as above, most of them smaller | each a trace to a disagreement of section 6 |

`entities` checks, part by part: `StopEndsItsOwnAlarm` and `TimedStopStaysDue` of the siren;
`ShownStatesSettle` of the siren and of everything with an optimistic state; `ShowsTheRoom`
and `LoneCallTakesEffect` of a heating group; `DirectionIsReal` of a cover; the four
properties of the auto-off; `HcuUpToDate` and `OrderIsReported` of the bridge's reports and
requests; `OppositeSupersedes` and `NoRetryCarriesAnOldValue` of the tables; and the types
of all of them.

`config_flow` checks `CredentialsFit` (tokens, plugin ID and mode after any number of saves
by two dialogs), `RunsWhatIsStored` and `ChangesAreReloaded` (the decision to reload),
`EntriesKeepTheirHcu` and `AddressProven` (two setups, two HCUs that swap addresses),
`SavedAsChosen` (two options dialogs), and `OneEntityEach` and `FollowsTheHcu` (discovery).

### Why these bounds

* *Commands.* Every condition of the bookkeeping compares two commands (a retry and a
  newer one), and waiting can chain: a retry waits for a newer retry that waits itself.
  Three calls are the first number with a chain, and with a replacing command that comes
  and goes while an older one still runs. `app_rest` fixes two assignments, since all of
  them would not finish: the first (signal, color, dim) makes each command wait for the
  next one and be waited for; in the second (dim, color, off) the newest overrides both
  others. The calls may come in any order, so each assignment stands for its permutations.
  In `plugin_requests` the listener adds several steps per message; two calls are the pair
  every property speaks about, and chains are left to `target_tracking` and `app_rest`,
  which share the code.
* *Attempts.* `MaxAttempts` is 2 instead of 3: the second attempt is already a repeated
  one, and the first is then the one whose answer is late.
* *Changes of the HCU.* Three versions let a device change between a snapshot and its use
  and again after it. Two refreshes can overlap. Three changes are "add a member, remove
  it, add it again", the longest sequence in which something old could be remembered. In
  the discovery part of `config_flow` two changes suffice, as a change there takes any
  number of devices and groups at once.
* *Bridge.* Two requests race, the third is the one that comes later (`Req`). A bridged
  device has several entities of which any may become unavailable; requests of two and
  three features reach every branch of the feature loop that is modelled, with a level in
  the middle and the lowest one that has a brightness.
* *Entities.* Two calls overlap (`Cmd`, `Request`, `Visit`); `MaxReports`, `MaxNews` and
  `MaxClimate` reports of the device's own come between. A cover has positions 0 to 2 and
  three moves: one that turns another, and one that follows.
  As the calls may come in any order, what they ask for is given to them in one order
  only (`Sorted`). Two service calls of a heating group ask for different things in the
  heating season and for the same outside it; the service for a party, which sends the
  command of the preset, runs outside it.
* *Dialogs.* Two of each kind save over each other. Four tokens are the two an entry starts
  with and one more from each dialog. Two waiting reloads are one more than any property
  tells apart. One move of an address already swaps two HCUs.
* The bounds are guards on the environment (the HCU's own changes and reports, the number
  of calls and reconnects), never on the integration.

`SYMMETRY` permutes only interchangeable model values and only in runs without liveness
properties. `MCCoordinator`, `MCEntities` and `MCConfigFlow` run one of several parts that
share no state; the parts are a disjoint union there (a part that does not run rests in one
state), since a product would add states but no behaviour. Deadlock checking is off in
`coordinator`, `entities` and `config_flow`, and in their violation runs, because they
really may stop: all reconnects are used, all calls and dialogs over. The runs of the
commands have a `Terminated` step instead, whose guard says what a legal end is, so that
a deadlock of waiting commands would be reported.

### Fairness

Only `app_rest` and `plugin_requests` check liveness (`EveryCallEnds`). They assume weak
fairness of the client's own tasks, one call at a time: asyncio runs every task that can
continue, and each attempt is bounded by `API_REQUEST_TIMEOUT`, so a time-out is a step of
the client. Not assumed are an answer of the HCU, and the `max_wait` time limit of a
retry that waits for newer commands: the wake-ups alone must suffice. The other runs state
what must have happened once nothing is under way instead (`ShownStatesSettle`,
`ShowsTheRoom`, `HcuUpToDate`, `RunsWhatIsStored`, `FollowsTheHcu`), which needs no fairness.

## 4. What is proved

The theorems about commands hold for every set of calls, requests, targets, settings and
fields and every table that satisfies the assumptions below; those about the tables for
every set of commands of the entities; those about the entities for
any number of service calls and reports and, of a cover, any height; those about the bridge
for every set of control requests, configurations, states and orders; those about the
coordinator and the discovery for every set of devices, groups, platforms and refreshes;
those about the entry for every set of flows, dialogs, HCUs, addresses and values. The
bounds on versions, reports, changes, tokens and reloads occur only in guards and are
arbitrary.

| Theorem (module) | States |
| --- | --- |
| `TypeCorrect` (TargetTrackingProofs) | `TypeOK` |
| `SupersededIsExact` (TargetTrackingProofs) | `SupersededExact` |
| `TrackingKeepsPromise` (TargetTrackingProofs) | TargetTracking implements Supersession |
| `NobodyLeftAsleep`, `NothingLeftBehind`, `RecordsAreOwn` (TargetTrackingProofs) | `NoLostWakeup`, `IdleTargetForgotten`, `RecordedByItsAuthor` |
| `RestKeepsPromise`, `PluginKeepsPromise` (RestProofs, PluginProofs) | `ImplementsDelivery`: AppRestCommands and PluginRequests implement Delivery |
| `RestNeverBlocked`, `PluginNeverBlocked` (RestProofs, PluginProofs) | `NeverAllBlocked`: the calls never wait for each other in a circle |
| `RetriesAreNotStale`, `NewerValuesKept`, `RestTypes` (RestProofs) | `NoStaleRetry`, `NewerValueKept` and the types of the App User's commands |
| `ResendsAreNotStale`, `ResendsAreCurrent`, `RequestTypes` (PluginProofs) | `NoStaleResend`, `ResendKeepsAcknowledged` and the types of the Plugin User's |
| `OppositeIsReplaced`, `NoOldValueIsRetried` (EntityProofs) | `OppositeSupersedes`, `NoRetryCarriesAnOldValue` |
| `TablesFitTheTracking`, `TablesDecide` (EntityProofs) | the tables satisfy what TargetTracking and AppRestCommands assume of theirs |
| `CacheStaysCurrent`, `PluginCacheGoesForward`, `RefreshCovers`, `SyncTypes` (CoordinatorProofs) | `StaysCurrent`, `PluginCacheNeverGoesBack`, `RefreshCoversTheOutage`, types of StateSync |
| `EntitiesAddedOnce`, `NobodyForgotten`, `InclusionTypes` (CoordinatorProofs) | `AddedOnce`, `NothingForgotten`, types of DynamicInclusion |
| `OneEntity`, `Follows` (DiscoveryProofs) | `OneEntityEach`, `FollowsTheHcu` |
| `NewestDecides`, `TimersAreKept`, `OffEndsTimers`, `ElapsedTimersComplete`, `AutoOffTypes` (BridgeProofs) | all properties of the auto-off that hold |
| `HcuStaysUpToDate`, `OrdersReported`, `StatusTypes` (BridgeProofs) | `HcuUpToDate`, `OrderIsReported`, types of BridgeStatus |
| `StopsOwnAlarm`, `TimedStopsStay`, `SirenTypes` (EntityProofs) | `StopEndsItsOwnAlarm`, `TimedStopStaysDue`, types of AlarmSiren |
| `ShownStates`, from `SirenSettles` and `Settles` (EntityProofs) | `ShownStatesSettle` |
| `RoomShown`, `LoneCalls`, `ClimateTypes` (EntityProofs) | `ShowsTheRoom`, `LoneCallTakesEffect`, types of Climate |
| `DirectionShown`, `CoverTypes` (EntityProofs) | `DirectionIsReal`, types of Cover |
| `AllTypes` (EntityProofs) | `TypesOK`: the types of all entities and of the bridge |
| `RunsStored`, `ChangesRead` (ConfigEntryProofs) | `RunsWhatIsStored`, `ChangesAreReloaded` |
| `CredentialsAlwaysFit` (ConfigEntryProofs) | `CredentialsFit` |
| `HcusStay`, `HostsAreProven` (ConfigEntryProofs) | `EntriesKeepTheirHcu`, `AddressProven` |
| `SavesAreKept` (ConfigEntryProofs) | `SavedAsChosen` |

### What is assumed of the constants

`TablesAssumption` says only that the tables are functions on the right sets, that no
request names its own setting among those it overrides besides, and that the fields a body
carries are among those its retry refreshes.
`DecidedAssumption` of AppRestCommands adds what a retry relies on: of two commands that
decide the same field of a target, the newer one replaces the older one, or the body of the
older one carries that field, so that its retry refreshes it. Both are proved of the tables
themselves (`TablesFitTheTracking`, `TablesDecide`), for every set of commands that satisfies
`CommandsAssumption`; TLC evaluates them for the commands of `entities` as well. Nothing is
assumed to be finite: `CountsOK` carries the finiteness of the *running* commands through
the induction.

`CommandsAssumption` is what the control methods of the client (`api.py` 2032-2455) and the
few callers that put a body together themselves guarantee: a key that the tables look at is
sent only by the commands that know it, a heating command names its group, and a vacation
names nothing but the home. The service `send_api_command` (`services.py` 495-550) lets a
user send any path with any body; such commands are outside the assumption, and so outside
the four theorems about the tables. TLC evaluates the assumption for the commands of
`entities`.

The other assumptions fix types: that a bound is a number (`MaxNewsAssumption`,
`CoverAssumption`), that "nobody" is not one of the calls (`SirenAssumption`,
`ReqAssumption`, `SetupAssumption`), what a device, a group and an option are made of
(`DiscoveryAssumption`, `InclusionAssumption`, `ModeAssumption`), and of the bridge
(`StatusAssumption`) that a configuration is a non-empty sequence of known keys with
entities whose states are records of the attributes the code reads, and that a light comes
on when it is turned on, and (`OrderAssumption`) that a request has a feature and each
feature the value that its type calls for.

### The inductive invariant of the commands

`SupersededExact` (a running command's generation differs from that of its setting iff a
command that replaces it was called later) is not inductive. `IInv` adds:

* `TypeOK`;
* `SeqsOK`: sequence numbers are at most `commandSeq`, and 0 exactly for calls not made.
  Without it a command about to enter could already be "later" than a running one.
* `CountsOK`: the reference counts are the numbers of running commands. They decide
  whether entering bumps another setting's generation (`Overridden`) and whether leaving
  resets one.
* `GensOK`: a running command's generation is between 1 and that of its setting, and a
  setting without running commands is at generation 0. The first part makes a bump
  permanent (generations only grow while the command runs, so it never looks fresh again),
  the second makes the entry of a first command start from a clean setting.

Each kind of step has its lemma. `EnterStep` is the case that matters: a running command
becomes superseded exactly if its setting is that of the new command or among the ones
counted as overridden, and a setting with a running command is always counted. In
`LeaveStep` the counts show that a generation is reset only if nobody else is left on the
setting. All other steps are `Quiet`: they leave counters and the set of running commands
alone.

The second half of `TargetTrackingProofs` goes on to `FullInv`, which adds `NoLostWakeup` and `RecordedByItsAuthor`
and what they need: `LeftoversOK` (nothing is kept for an idle target, and whoever is
listed as in flight runs, so that the command a retry waits for cannot be one that is
called only now) and `SentOK` (a running command last sent its own value of a field, or
that of a newer command, which is then recorded, so that it can never record a value it
took over as its own).

### The two ways of sending

`TargetTrackingProofs` ends with what the two protocols share: waiting, going on and
recording keep `FullInv` in the form in which both use them. `RestProofs` and `PluginProofs` add `StagesOK`, which
ties the stage of a call to whether it is tracked, and show that a single kind of step
sends a command again (`OnlyChecked`, `OnlyRetries`), whose guard is that the command is
not superseded; `SupersededExact` turns that guard into `NoStaleRetry` and `NoStaleResend`.

Delivery asks for more, since it forbids everything else a channel could do: a send after
the end, a third post, a step that both sends and ends. How often a command went out is no
variable of the code, it follows from the stage of the call and whether it was refused
(`TimesPosted`), or from its attempts and whether it was refused (`TimesSent`). `RestSteps`
and `PluginSteps` sort the steps by what they do to the tracked commands and to this
number; `PostsMove` and `SendsMove` give the new number of each kind, and `DeliveryStep`
takes each kind to the step of Delivery, or to a stutter, that it is. What a stage says
about the number is in `StagesOK` for REST; for the WebSocket `SendInv` bounds the attempts
behind a refused message. That a step does not make a command stale by itself is
`TrackingKeepsPromise` again, since Delivery contains Supersession.

`NeverAllBlocked` is the safety half of `EveryCallEnds`. A call can wait for another one in
two ways, at the command lock and on the event of its target, and every wait could be part
of a circle. The newest running call (`Newest`) decides: what a call waits for on its target
was called later and still runs, by `NoLostWakeup` and `LeftoversOK`, so the newest one is
never held up there (`NewestRuns`); and if it queues for the lock, the head of the queue
posts or is about to (`LockOK`). `NeverAllBlocked` is no property of the cfg files; TLC finds
it to hold on both instances.

For
`ResendsAreCurrent`, `AcknowledgedRecorded` says that as long as an older command runs on
the target, the values of an acknowledged one are recorded: they outlive the command, but
not the last one that could still need them. `RequestTypes` bounds the messages without an
answer under one id by the attempts made (`Attempts`).

`NewerValuesKept` is about the order in which an App User's bodies reach the HCU, and needs
the most. `KeptInv` says of the lock (`LockOK`) that everybody who needs it stands in its
queue once, that whoever posts is at its head, and that calls not refused yet stand there in
the order they were made; so a newer call has posted nothing before the first POST of an
older one is over (`FirstOK`). A body never has a value older than its call (`SentNew`).
Once a command was acknowledged, an older one can only post as a retry, and a retry is
rebuilt from the recorded values, which hold the acknowledged value or a newer one as long
as an older command runs (`AcknowledgedRecorded`). Together they give `PostedOK` (what is on
its way is not older than what was acknowledged), and `AppliedOK` covers the moment between
a POST carried out and its acknowledgement. A body that the HCU carries out after its caller
gave up on it is outside the client's reach; the property marks the value as `late`.

### The tables

What the tables say of two commands is a matter of cases over their actions, and the proof
goes through them once: which aspect a command has (`CommandAspect` by its action), what it
overrides, and which keys it may carry, which is where `CommandsAssumption` is needed. The
sum of it is that a command that switches a light or an output off, whatever its name, has
the aspect `light_off` or `switch_state`, and every command that switches one on replaces
both, and the other way round (`OffReplacesOn`, `OnReplacesOff`); and that a command whose
body repeats a field which a newer one decides is replaced by it or has the key among those
its retry refreshes (`OldValueGoes`).

### The auto-off of the bridge

The invariant adds `CallsOK` (a request has a timer only after its service call) and
`TrackedOK` (the task that can be cancelled is asleep) to the properties. The second is
why the off state that an elapsed timer causes does not cancel the task that causes it.

### The timed stop of the siren

The properties need `StopsOK`: a call is over before it has a stop, a stop counts the
commands up to its own call, and whoever counted all accepted commands belongs to the last
one. So a stop that is not outdated when it gets the lock belongs to the last command, and
while it has the lock no other command is accepted. `QueueOK` (the tasks in the queue are
waiting, each at one place) is what makes the task at its head one that has not run.

### What the HCU is told

`HcuUpToDate` compares what the HCU holds with what the entities say now, although most
changes are never sent. `ReportInv` closes the gap with `NotedOK`: what was noted as sent is
what there is to report now, or there is nothing to report; it has reached the HCU unless it
was noted without a connection; and before the first report the answer to the discovery told
the HCU everything. The rest is about sequences: the features of a device and of a report
name each type once (`Once`), so that a value is found by its type, and the answer to a
discovery has the members of a report (`AnswerIsReport`), although it is put together in
another order. The types of BridgeStatus add `HandlingInv`: a service call that is awaited
belongs to a feature of the request, and a service leaves its entity on or off.

`OrderIsReported` speaks about the end of a request to a device that is one light, asked
for levels that have a brightness (those below 0.4 % have none). `OrderInv` says what the
features that have acted so far made of the light (`AsAsked`): on or off as the last of
them has it, and with the brightness and colour temperature of the last feature that set
one and after which nothing turned the light off. The timer follows one step later, when
the call returns, so `TimedAsAsked` tells the features whose call acted (`ActedOn`) from
those whose call returned (`Ended`): in between, a light may be off already whose timer was
just ended, or on without one. That the delay of the request goes before the configured one
is `DelayGiven`, about the sequence that `ControlOnTime` puts together; what a level loses
on its way to a brightness and back is `Levels`; and what the HCU holds then follows from
`HcuUpToDate`.

### What the entities show

Each of these properties says that something is right once everything is handled, and each
invariant says what holds *until* then.

* *Siren and switches.* `LastReport = device` (and `ReportedLast` of the siren): the last
  report, handled or not, tells the state of the device. `GuessOK`: with every report
  handled, what is shown is what the cache holds or what a running call asks for that the
  HCU has not carried out (`Explained`). A report after that ends the guess, a failure takes
  it back, and with no call left only the cache explains it. For the siren, whose running
  command remembers what to restore, `LockedOK` says the same of the remembered state.
* *Heating group.* `HeardOK` suffices for what is shown: once the group was reported,
  nothing is assumed. For `LoneCallTakesEffect`, `LoneInv` says what a call has reached after
  each of its steps (`Reached`), those it skipped included, and that the cache it decides the
  next step from agrees with the HCU in what that decision reads (`Alike`), although reports
  of the earlier steps may still be on their way.
* *Cover.* `ReportsOK` ties the last report to the move (the HCU tells the direction late),
  `AgesOK` orders the two windows: a command given for this move is at least as old as the
  move, so its window cannot outlive the other. `StandstillOK` says that as long as the
  direction of a move from a standstill was not corrected, the report that brings it comes
  after one of the standstill.

### The cache

`SyncInv` orders everything by age. `InOrder` says that the states at the last reconnect,
in the cache, along the channel and on the HCU never get older from one to the next (the
cache only for a Plugin User), `Answers` that what the newest refresh is told is not older
than the connection, and `OneAnswerEach` that a snapshot on the channel is one that is
still expected, so that the listener applies it. `Covered` carries `StaysCurrent`: for each
device, the cache or a message on the channel has the state of the HCU, as soon as no fetch
is still to be made. It is not inductive without `Stages`, which ties the fetches to the
setup and the connection: a lost connection empties the channel, and only the refresh that
the next one starts, or the snapshot of a setup that is tried again, makes up for it.

### The entities

`InclusionInv` adds to `AddedOnce` that an entry that is not loaded has no entities and no
platforms and that refreshes look for new devices only in a loaded one. Then an inclusion
hands over only what is new (`Inclusion`), and a platform that takes what is there is not
registered, so that nothing was handed to it.

`NobodyForgotten` goes the other way, from what the client knows to the entities.
`AllSettled` says of everything known that it has its entity, or a refresh that is under way
brings it, or it is a group held back for a member that is not known yet; `MissedIsAsked`
that what was missed during an outage is new to a refresh that was asked for and not applied
yet. That a held-back group is looked at when its last member comes, whichever way it comes,
is the case that matters (`LookedAt`).

### The discovery

`OneEntity` rests on `RegistryOK`: a registered entity is one of the running ones once the
entry is loaded, and no two have the same unique ID. `Follows` needs that inclusion one by
one is as good as a full discovery: the running entities are all that the known devices and
groups call for (`Complete`; a group without its members waits) and no others (`Sound`), as
long as no reload is due, and what is known is what the HCU has except for devices whose
events are still to come (`InStep`). An entity that was right once need not be looked at
again because a device keeps its maker (`FitsHardware`) and a group its type until it is gone
(`TypesKept`); what else changes the answer asks for the reload.

### The entry

`LifecycleInv` adds `ComparesWithUsed` to the two properties: the values the update
listener compares with are those the running setup was made from, unless a reload waits.
This is why a skipped change (PINs, the name of the HCU) cannot hide one that matters.
`FlowsInv` says where a dialog's tokens come from: while the draft of a dialog may still be
saved with the plugin token it copied, that token was issued for the plugin ID in the draft
(`DialogFits`), and the token that is being confirmed was issued for it as well;
`TokensOfMode` is the second half of the property, which the last step of a dialog restores
by dropping the tokens its mode has no use for.

`SetupInv` says what a unique ID stands for at each stage: a flow that may create an entry
has the hostname it was started for or the device ID of the HCU its token is of (`FlowUid`),
an entry likewise (`EntryUid`), and no entry has the one of an open flow (`UidsApart`), since
the flow would have ended. So when a flow finds its unique ID configured, it has met its own
HCU. For the options, `OptionsInv` compares what is stored with what was chosen last
(history), and says that neither the registry nor what a running setup is going to add to it
has a disabled device, unless the settings were saved while nothing was loaded (`blind`).

### The refinement

`TrackingKeepsPromise` maps `running` to `Active` and `stale` to the running commands for
which `_is_target_superseded` is true. By `SupersededExact` the stale commands are those
replaced by a later call, before and after each step, so `Enter` is `Start`, `Leave` is
`Finish` and quiet steps stutter.

## 5. What is only model-checked

* Liveness, which is out of the prover's reach: `EveryCallEnds` of both channels, with the
  fairness of section 3. Its safety half, that some call can always go on, is proved.
* What the conversions of BridgeFeatures compute beyond the bounds that `OrdersReported`
  needs, and that the commands listed in MCCommandAspects are those of the entities.

Every other property of a passing run is stated by a theorem.

## 6. Where code and documentation disagree

Each of these is a run whose trace shows it.

1. `bridge_late_off`: the auto-off timer is armed when the turn-on service returns
   (`ha_entity_bridge.py` 638), also if the entity went off while it was awaited. It then
   turns a later manual turn-on off, against the comment at 833.
2. `state_sync_app`: an App User's snapshot replaces the cache when the HTTP call resumes
   (`api.py` 485) and undoes events read since, against the docstring at 1719.
3. `switch_reverts`: a failed command sets a switch to the opposite of what was asked
   (`entity.py` 111 "Revert to previous state"). A switch that was on shows off.
4. `inclusion_missed`: an update of the coordinator (`coordinator.py` 287) replaces the
   state without looking for new devices; the refresh after a reconnect then takes them
   for old ones.
5. `report_dropped`: a report is noted as sent even if there was no connection
   (`ha_entity_bridge.py` 788). When the device has no value at its next discovery and then
   takes the noted one again, the throttle drops it, against
   `.docs/flows/ha_entity_bridge_flow.md:161`.
6. `new_devices`: a device that was removed from the HCU and deleted in Home Assistant gets
   no entity when it is paired again without a reload (`coordinator.py` 134), against
   `README.md:246`.

The following were met while modelling and are written down without a run, because no
document promises otherwise in so many words or because their effect passes:

* The listener takes a request's success hook out before it looks at the answer
  (`api.py` 1171), and a refusal is popped like a success. If the attempt's time-out fires
  in the same turn of the loop, the message is sent again under the same id without hook
  and may return a success whose hook never ran.
* `disconnect_plugin` of a DualBridge entry awaits the close of the old socket and then
  forgets whatever socket is registered (`api.py` 419-424); one that the connection loop
  (`coordinator.py` 711-770) opened meanwhile is lost from view.
* `.docs/flows/ha_entity_bridge_flow.md:179` lists as a known limitation what the code
  handles by now (a repeated turn-on replaces the timer).
* Building a discovery answer marks its devices as discovered (`ha_entity_bridge.py` 576)
  before it is delivered; if the socket dies, the next connection can get status reports
  for a device the HCU was not told about.
* A control request whose service call fails is answered as a success, and the report of
  the state that did not change may be throttled (`ha_entity_bridge.py` 776).
* A level restored from a report of brightness 1 is cut off to 0 and turns the light off
  (`ha_entity_bridge.py` 646). A dim feature of an older request that is carried out after
  a newer request overrides it.
* The turn-off call of an elapsed timer is not tried again when it fails.
* An App User's first snapshot does not wait for the connection (`coordinator.py` 234);
  changes between the two stay unknown until the device changes again.
* A reconnect while the setup still registers the HCU device is not followed by a refresh
  (`coordinator.py` 647).
* The refresh after a reconnect looks for new devices and rooms, but not for the changes
  that ask for a reload when an event brings them (`coordinator.py` 601).
* The delayed reload runs ten seconds after the *first* of a series of changes
  (`coordinator.py` 430), where `docs/how-it-works.md:74` speaks of debouncing; changes
  after the reload schedule another, so that none is forgotten.
* An entry saved while its setup runs, before the update listener is registered
  (`__init__.py` 201), runs with the old values until something else reloads it, except
  when the dialog asks for the reload itself.
* A report that a heating group is in MANUAL ends the optimistic state (`climate.py` 208)
  also in the middle of a call whose first command caused it; the room shows the
  unfinished state until the next report.
* Siren: a call cancelled while it runs leaves its optimistic state until the next report;
  an "off" report from before a timed turn-on that is handled after it cancels its timer
  (`siren.py` 98), which the code cannot tell apart; a call that ends after the removal of
  the entity still arms its timer.
* A group whose command fails restores the state it read before, also over a newer report,
  and shows it until the next one (`entity.py` 654).
* Of two overlapping refreshes of which one fails, the other can take a re-added device
  for an old one.
* A caller that is cancelled leaves its id among the pending requests (`api.py` 1379) until
  an answer comes or the listener stops.

Properties that would be false for one of these reasons say in their comment what they
leave out, and history variables (`gap`, `unnoticed`, `missed`, `unheard`, `loose`,
`blind`, `late`, `cancelled`, `undone`) mark exactly those situations.

## 7. What is not modelled

* Conversions and presentation: Home Assistant attributes, units, colours, names,
  translations, diagnostics, logging.
* Read-only entities (`sensor.py`, `binary_sensor.py`, `update.py`) and events: functions
  of the cached state, called synchronously.
* `button.py`, `number.py`, `select.py`, `text.py`, `repairs.py`: one command or one form
  each, without state that another step could disturb. The commands themselves are those
  of the tables.
* TLS, HTTP and WebSocket framing, JSON, aiohttp and Home Assistant itself, beyond what the
  code relies on.
* `process_events` merges partial events into a device; the models take an event as the
  new state of the device. The choice of the primary HCU device is left out.
* The routing of messages between the two sockets of a DualBridge entry, and the socket
  that is overwritten (section 6).
* Of the bridge: colours, the repair issue for devices no longer configured, and requests
  that overlap in more than the switch.
* Of the flows: forms and their validation, the removal of disabled devices, migrations
  (`async_migrate_entry`), the lock's PIN form.
* Of discovery: the entities of single features of a channel and the device registry.
* `services.py`: each service is a loop of the modelled commands that collects errors.

Abstractions worth knowing: payload values are the sequence number of the call that chose
them; a scope's payload fields are shared by all its commands as in the code; time passes
by steps of the environment, so a time-out may come at any moment after its start (Cover,
where the length of the two windows matters, counts seconds); the HCU keeps the order of
messages on one connection, and of nothing else.

## 8. Plan

Done: commands (tables, tracking, abstract promise, REST, WebSocket), the cache and the
connection, dynamic inclusion, discovery, the entity bridge, the entities with optimistic
state, climate, covers, the dialogs, setup and reload, and the theorems of section 4.

What is left, in this order:

1. *DualBridge*: routing (`api.py` 1284-1315) and the two sockets (`api.py` 324-424,
   `coordinator.py` 711-770), joined to the bridge's connection.
2. *Events as operators*: the merge of partial events and their order (`process_events`,
   `_events_in_order`, `api.py` 68-84, 1767-1951) and `_update_hcu_device_ids` (`api.py`
   202-315), each against a reference definition.
3. *Overlapping control requests* beyond the switch: two requests in BridgeStatus.
4. *Migrations*, the lock's PIN, and services with their partial failures.

Next theorems: those of whatever the steps above add, and `OrderIsReported` for a device
whose switch, brightness and colour belong to different entities.
