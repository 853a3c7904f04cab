---------------------------- MODULE OptionsFlow ----------------------------
(***************************************************************************)
(* The options dialogs of an entry (HcuOptionsFlowHandler): the devices    *)
(* bridged to the HCU, the settings with the disabled manufacturers, the   *)
(* developer settings, and the vacation mode, which awaits the HCU.        *)
(* Several dialogs may be open at once; each save writes all options.      *)
(* Saving reloads the entry, so that the dialogs go on while the entry is  *)
(* loaded, loading or not loaded, when there is no client to ask.          *)
(***************************************************************************)
EXTENDS Naturals, FiniteSets

CONSTANTS Dialog,      \* options dialogs that may be open at once
          Bridged,     \* IDs of bridged devices
          Maker        \* third-party manufacturers with a device at the HCU

VARIABLES
  options,     \* the options of the entry
  phase,       \* "unloaded", "loading" or "loaded"
  found,       \* the manufacturers whose devices the running setup adds
  registered,  \* the manufacturers whose devices are in the device registry
  page,        \* the form each dialog shows, "closed" when it is not open
  selected,    \* _editing_device_id
  offered,     \* the manufacturers the settings form offers
  chosen,      \* history: what the users chose last
  blind        \* history: the settings were last saved when nothing was loaded

optionsVars ==
  <<options, phase, found, registered, page, selected, offered, chosen, blind>>

NoDevice == "none"
Content == {"a", "b"}   \* what a bridged device is configured to

OptionsInit ==
  /\ options = [devices |-> [d \in {} |-> "a"], disabled |-> {}, developer |-> FALSE]
  /\ phase = "loaded" /\ found = Maker /\ registered = Maker
  /\ page = [x \in Dialog |-> "closed"]
  /\ selected = [x \in Dialog |-> NoDevice]
  /\ offered = [x \in Dialog |-> {}]
  /\ chosen = options /\ blind = FALSE

BridgedNow == DOMAIN options.devices
Show(x, p) == page' = [page EXCEPT ![x] = p]

\* async_create_entry: the options are replaced and the dialog is over.
SaveOptions(x, new, choice) ==
  /\ options' = new
  /\ chosen' = choice
  /\ page' = [page EXCEPT ![x] = "closed"]
  /\ selected' = [selected EXCEPT ![x] = NoDevice]
  /\ offered' = [offered EXCEPT ![x] = {}]
  /\ UNCHANGED <<phase, found>>

OptionsUnchanged == UNCHANGED <<options, phase, found, registered, chosen, blind>>

\* async_step_init: the menu.  What the settings form offers is what the client
\* knows; without a client it offers no manufacturers.
OpenPage(x, p) ==
  /\ page[x] = "closed"
  /\ p \in {"edit", "remove"} => BridgedNow # {}
  /\ Show(x, p)
  /\ offered' = [offered EXCEPT ![x] = IF p = "settings" /\ phase # "unloaded"
                                       THEN Maker ELSE {}]
  /\ OptionsUnchanged /\ UNCHANGED selected

\* The dialog is closed unsaved.
ClosePage(x) ==
  /\ page[x] # "closed"
  /\ Show(x, "closed")
  /\ selected' = [selected EXCEPT ![x] = NoDevice]
  /\ offered' = [offered EXCEPT ![x] = {}]
  /\ OptionsUnchanged

-----------------------------------------------------------------------------
Assign(d, c) == [e \in BridgedNow \cup {d} |-> IF e = d THEN c ELSE options.devices[e]]
Remaining(ds) == [e \in BridgedNow \ ds |-> options.devices[e]]

\* _save_ha_devices
SaveDevices(x, devices, choice) ==
  /\ SaveOptions(x, [options EXCEPT !.devices = devices], [chosen EXCEPT !.devices = choice])
  /\ UNCHANGED <<registered, blind>>

\* async_step_ha_devices_add: the list is read when the form is submitted.
AddDevice(x, d, c) ==
  /\ page[x] = "add" /\ d \notin BridgedNow
  /\ SaveDevices(x, Assign(d, c),
       [e \in DOMAIN chosen.devices \cup {d} |-> IF e = d THEN c ELSE chosen.devices[e]])

\* async_step_ha_devices_edit: a device is selected ...
SelectDevice(x, d) ==
  /\ page[x] = "edit" /\ d \in BridgedNow
  /\ Show(x, "editing") /\ selected' = [selected EXCEPT ![x] = d]
  /\ OptionsUnchanged /\ UNCHANGED offered

\* ... and edited ...
\* Mutant: a device another dialog removed is saved again.
EditDeviceBack(x, c) ==
  /\ page[x] = "editing"
  /\ SaveDevices(x, Assign(selected[x], c),
       [e \in DOMAIN chosen.devices |-> IF e = selected[x] THEN c ELSE chosen.devices[e]])

EditDevice(x, c) ==
  /\ page[x] = "editing" /\ selected[x] \in BridgedNow
  /\ SaveDevices(x, Assign(selected[x], c),
       [e \in DOMAIN chosen.devices |-> IF e = selected[x] THEN c ELSE chosen.devices[e]])

\* ... unless it was removed meanwhile: the selection is shown again, or the menu
\* when no device is left.
EditedDeviceGone(x) ==
  /\ page[x] = "editing" /\ selected[x] \notin BridgedNow
  /\ Show(x, IF BridgedNow = {} THEN "closed" ELSE "edit")
  /\ selected' = [selected EXCEPT ![x] = NoDevice]
  /\ OptionsUnchanged /\ UNCHANGED offered

\* async_step_ha_devices_remove: of the devices the form listed.
RemoveDevices(x, ds) ==
  /\ page[x] = "remove" /\ BridgedNow # {}
  /\ SaveDevices(x, Remaining(ds),
       [e \in DOMAIN chosen.devices \ ds |-> chosen.devices[e]])

-----------------------------------------------------------------------------
\* async_step_global_settings, with _handle_device_removal: the devices of the
\* manufacturers disabled now leave the registry, if there is a client.
SaveSettings(x, disabled) ==
  /\ page[x] = "settings" /\ disabled \subseteq offered[x]
  /\ SaveOptions(x, [options EXCEPT !.disabled = disabled],
                 [chosen EXCEPT !.disabled = disabled])
  /\ registered' = IF phase = "unloaded" THEN registered ELSE registered \ disabled
  /\ blind' = (phase # "loaded" \/ offered[x] = {})

\* async_step_developer_settings
SaveDeveloper(x, on) ==
  /\ page[x] = "developer"
  /\ SaveOptions(x, [options EXCEPT !.developer = on], [chosen EXCEPT !.developer = on])
  /\ UNCHANGED <<registered, blind>>

\* async_step_vacation: the HCU is asked ...
RequestVacation(x) ==
  /\ page[x] = "vacation" /\ phase # "unloaded"
  /\ Show(x, "awaiting")
  /\ OptionsUnchanged /\ UNCHANGED <<selected, offered>>

\* ... and answers: the options are saved as they are by now, ...
VacationActive(x) ==
  /\ page[x] = "awaiting"
  /\ SaveOptions(x, options, chosen)
  /\ UNCHANGED <<registered, blind>>

\* ... or refuses, and the form is shown again.
VacationFails(x) ==
  /\ page[x] = "awaiting"
  /\ Show(x, "vacation")
  /\ OptionsUnchanged /\ UNCHANGED <<selected, offered>>

-----------------------------------------------------------------------------
\* A setup discovers the devices of the enabled manufacturers, and then adds them
\* to the registry.
Load ==
  /\ phase = "unloaded" /\ phase' = "loading"
  /\ found' = Maker \ options.disabled
  /\ UNCHANGED <<options, registered, page, selected, offered, chosen, blind>>

Loaded ==
  /\ phase = "loading" /\ phase' = "loaded"
  /\ registered' = registered \cup found
  /\ UNCHANGED <<options, found, page, selected, offered, chosen, blind>>

Unload ==
  /\ phase = "loaded" /\ phase' = "unloaded"
  /\ UNCHANGED <<options, found, registered, page, selected, offered, chosen, blind>>

Page == {"add", "edit", "remove", "settings", "developer", "vacation"}

OptionsNext ==
  \/ \E x \in Dialog :
       \/ ClosePage(x) \/ EditedDeviceGone(x)
       \/ RequestVacation(x) \/ VacationActive(x) \/ VacationFails(x)
       \/ \E p \in Page : OpenPage(x, p)
       \/ \E d \in Bridged : SelectDevice(x, d) \/ \E c \in Content : AddDevice(x, d, c)
       \/ \E c \in Content : EditDevice(x, c)
       \/ \E ds \in SUBSET Bridged : ds # {} /\ RemoveDevices(x, ds)
       \/ \E disabled \in SUBSET Maker : SaveSettings(x, disabled)
       \/ \E on \in BOOLEAN : SaveDeveloper(x, on)
  \/ Load \/ Loaded \/ Unload

OptionsSpec == OptionsInit /\ [][OptionsNext]_optionsVars

-----------------------------------------------------------------------------
\* The options are what the users chose last, page by page: a dialog that was
\* open, or awaited the HCU, while others saved takes none of their changes back
\* and brings no removed device back.  And no device of a disabled manufacturer
\* stays in the registry or returns to it, unless the settings were saved while
\* the entry was not loaded.
SavedAsChosen ==
  /\ options = chosen
  /\ ~blind => registered \cap options.disabled = {}
=============================================================================
