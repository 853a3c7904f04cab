--------------------------- MODULE EntryLifecycle ---------------------------
(***************************************************************************)
(* How a config entry is set up and kept up to date: the setup and its     *)
(* retry (async_setup_entry, HcuCoordinator.async_setup), the update       *)
(* listener that decides whether a change of the entry needs a reload      *)
(* (async_reload_entry), and the reloads the coordinator asks for when the *)
(* HCU changed: at once for removed devices, ten seconds later for changes *)
(* of a device's configuration.                                            *)
(* Home Assistant runs setup, unload and reload of an entry under one lock *)
(* and calls the update listener in the step that changes the entry; the   *)
(* listener is registered by the setup's last step and removed by the      *)
(* unload.                                                                 *)
(***************************************************************************)
EXTENDS Naturals

CONSTANTS Config,      \* values of the data and options that matter to a setup
          Detail,      \* values of the zeroconf name and of the device PINs
          MaxReloads   \* bound on the reloads that wait for the lock

VARIABLES
  entry,       \* what Home Assistant stores: data and options of the entry
  entryState,  \* "connecting", "adding" (both setting up), "loaded" or "retry"
  used,        \* the entry as it was when the client of this setup was created
  previous,    \* _previous_data and _previous_options of the coordinator
  reloads,     \* how many reloads wait for the lock
  timer,       \* _pending_device_reload_task
  unseen,      \* history: a reported change that no setup has read
  unheard      \* history: the entry was saved while a setup was under way by a
               \* step that asks for no reload itself

changeVars == <<timer, unseen>>
saveVars == <<entry, previous, reloads, unheard>>
lifecycleVars == <<entryState, used, saveVars, changeVars>>

Entries == [config : Config, auto : BOOLEAN, name : Detail, pins : Detail]

LifecycleInit ==
  /\ entry \in Entries
  /\ entryState = "connecting" /\ used = entry /\ previous = entry
  /\ reloads = 0 /\ timer = FALSE
  /\ unseen = FALSE /\ unheard = FALSE

\* The part of the entry whose change needs a reload: everything but the
\* zeroconf name and the PINs.
Relevant(e) == <<e.config, e.auto>>

\* Mutant: a changed PIN hides whatever else changed.
OnlyQuietPins(p, e) == p.pins # e.pins \/ p.name # e.name

\* async_reload_entry: whether the change from p to e is skipped.
OnlyQuiet(p, e) ==
  /\ Relevant(p) = Relevant(e)
  /\ p.name # e.name \/ p.pins # e.pins

Setting == {"connecting", "adding"}

\* async_update_entry with the data e.  The update listener compares e with what
\* it saw last; asking says whether the caller asks for a reload itself.
Save(e, asking) ==
  LET heard == entryState = "loaded" /\ e # entry
      asked == \/ heard /\ ~OnlyQuiet(previous, e)
               \/ asking
  IN  /\ entry' = e
      /\ previous' = IF heard THEN e ELSE previous
      /\ reloads' = IF asked THEN reloads + 1 ELSE reloads
      /\ unheard' = (unheard \/ (entryState \in Setting /\ ~asking
                                 /\ Relevant(e) # Relevant(used)))
      /\ UNCHANGED <<entryState, used, changeVars>>

\* _update_entry_and_reload_if_needed of a reauthentication or reconfiguration.
SaveAndReload(e) == reloads < MaxReloads /\ Save(e, entryState # "loaded")

\* async_step_confirm_new_address: an entry that waits to be set up again is not
\* told by a listener.
SaveAndRetry(e) == reloads < MaxReloads /\ Save(e, entryState = "retry")

\* The options dialog, _async_store_zeroconf_name and the PIN of a text entity
\* leave the reload to the listener.
SaveOnly(e) == reloads < MaxReloads /\ Save(e, FALSE)

-----------------------------------------------------------------------------
\* A setup begins: async_setup_entry creates the client and the coordinator.
BeginSetup ==
  /\ entryState' = "connecting"
  /\ used' = entry
  /\ previous' = entry
  /\ unheard' = FALSE

\* A reload gets the lock: the entry is unloaded, which cancels its background
\* tasks, and set up again.
Reload ==
  /\ reloads > 0 /\ entryState \notin Setting
  /\ reloads' = reloads - 1
  /\ BeginSetup
  /\ timer' = FALSE
  /\ UNCHANGED <<entry, unseen>>

\* Home Assistant tries a failed setup again.
RetrySetup ==
  /\ entryState = "retry"
  /\ BeginSetup
  /\ UNCHANGED <<entry, reloads, changeVars>>

\* The state was loaded (_initial_state_loaded); the entities are still added.
StateLoaded ==
  /\ entryState = "connecting"
  /\ entryState' = "adding"
  /\ unseen' = FALSE
  /\ UNCHANGED <<used, saveVars, timer>>

\* No connection or no valid state: ConfigEntryNotReady.
SetupFails ==
  /\ entryState = "connecting"
  /\ entryState' = "retry"
  /\ UNCHANGED <<used, saveVars, changeVars>>

\* The platforms are set up and the update listener is registered.
SetupEnds ==
  /\ entryState = "adding"
  /\ entryState' = "loaded"
  /\ UNCHANGED <<used, saveVars, changeVars>>

-----------------------------------------------------------------------------
\* The listener of a setup whose state was loaded hears of the HCU's changes.
Listening == entryState \in {"adding", "loaded"} /\ reloads < MaxReloads

\* Mutant: only a loaded entry starts the timer.
DeviceChangedWhenLoaded ==
  /\ Listening
  /\ timer' = (timer \/ (entry.auto /\ entryState = "loaded"))
  /\ unseen' = (unseen \/ entry.auto)
  /\ UNCHANGED <<entryState, used, saveVars>>

\* A configuration change of a device (reload_required): one timer at a time.
DeviceChanged ==
  /\ Listening
  /\ timer' = (timer \/ entry.auto)
  /\ unseen' = (unseen \/ entry.auto)
  /\ UNCHANGED <<entryState, used, saveVars>>

\* A removed device (excluded): the reload is asked for at once.
DeviceRemoved ==
  /\ Listening
  /\ reloads' = IF entry.auto THEN reloads + 1 ELSE reloads
  /\ unseen' = (unseen \/ entry.auto)
  /\ UNCHANGED <<entryState, used, entry, previous, unheard, timer>>

\* _delayed_reload_cfg: the ten seconds are over.
TimerFires ==
  /\ timer /\ timer' = FALSE
  /\ reloads' = reloads + 1
  /\ UNCHANGED <<entryState, used, entry, previous, unheard, unseen>>

LifecycleNext ==
  \/ \E e \in Entries : SaveAndReload(e) \/ SaveAndRetry(e) \/ SaveOnly(e)
  \/ Reload \/ RetrySetup \/ StateLoaded \/ SetupFails \/ SetupEnds
  \/ DeviceChanged \/ DeviceRemoved \/ TimerFires

LifecycleSpec == LifecycleInit /\ [][LifecycleNext]_lifecycleVars

-----------------------------------------------------------------------------
\* Once nothing is under way, the integration runs with the entry as it is
\* stored: every save was compared with what the running setup used, across
\* saves by several flows, setups that fail, and PIN and zeroconf changes that
\* are skipped in between.  Left out is an entry saved during a setup by a step
\* that leaves the reload to the listener, which is not registered yet.
RunsWhatIsStored ==
  entryState = "loaded" /\ reloads = 0 /\ ~unheard =>
    Relevant(used) = Relevant(entry)

\* A reported change of the HCU is never forgotten: until a setup has read the
\* state again, a timer runs, a reload waits, or a setup is about to read.
ChangesAreReloaded ==
  unseen => timer \/ reloads > 0 \/ entryState \in {"connecting", "retry"}

LifecycleTypeOK ==
  /\ {entry, used, previous} \subseteq Entries
  /\ entryState \in Setting \cup {"loaded", "retry"}
  /\ reloads \in Nat /\ timer \in BOOLEAN
  /\ unseen \in BOOLEAN /\ unheard \in BOOLEAN
=============================================================================
