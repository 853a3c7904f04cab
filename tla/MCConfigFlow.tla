---------------------------- MODULE MCConfigFlow ----------------------------
(***************************************************************************)
(* The life of a config entry in five parts that an instance runs one of:  *)
(* two dialogs that renew its authorization, its setups and reloads, two   *)
(* flows that create entries for two HCUs, two options dialogs, and the    *)
(* entities that its setups and the events between them discover.  The     *)
(* parts meet in the entry only, whose saves the second part takes from    *)
(* all the others.                                                         *)
(***************************************************************************)
EXTENDS EntryFlows, EntryLifecycle, SetupFlow, OptionsFlow, Discovery, TLC

VARIABLE part

partVars == <<part, flowVars, lifecycleVars, setupVars, optionsVars, discoveryVars>>

\* A part that does not run starts in one state only.
FlowsRest == data.mode = "app" /\ data.pluginId = 0 /\ ~data.dev
LifecycleRests == entry = CHOOSE e \in Entries : TRUE
SetupRests == at = CHOOSE a \in [Hcu -> Addr] : \A g, h \in Hcu : a[g] = a[h] => g = h
DiscoveryRests ==
  /\ hcu = EmptyState /\ hardware = [d \in Device |-> [siren |-> TRUE, maker |-> "eQ-3"]]
  /\ settings = [auto |-> TRUE, onlyRooms |-> TRUE, hideOthers |-> FALSE, hideTypes |-> {}]

\* A channel of another maker's device as light, switch, and switch in no room, a
\* siren, and a light that the bridge contributed.
MCDeviceData ==
  {[kind |-> "light", room |-> TRUE, maker |-> "other"],
   [kind |-> "switch", room |-> TRUE, maker |-> "other"],
   [kind |-> "switch", room |-> FALSE, maker |-> "other"],
   [kind |-> "siren", room |-> TRUE, maker |-> "eQ-3"],
   [kind |-> "light", room |-> TRUE, maker |-> "bridge"]}

\* The defaults; everything shown or hidden that is not by default; and the same
\* without automatic reloads.
MCOptions ==
  {[auto |-> TRUE, onlyRooms |-> TRUE, hideOthers |-> FALSE, hideTypes |-> {}],
   [auto |-> TRUE, onlyRooms |-> FALSE, hideOthers |-> TRUE, hideTypes |-> {}],
   [auto |-> FALSE, onlyRooms |-> TRUE, hideOthers |-> FALSE,
    hideTypes |-> {"ALARM_SWITCHING"}]}

MCInit ==
  /\ FlowsInit /\ LifecycleInit /\ SetupInit /\ OptionsInit /\ DiscoveryInit
  /\ part \in {"flows", "lifecycle", "setup", "options", "discovery"}
  /\ part # "flows" => FlowsRest
  /\ part # "lifecycle" => LifecycleRests
  /\ part # "setup" => SetupRests
  /\ part # "discovery" => DiscoveryRests

MCNext ==
  /\ UNCHANGED part
  /\ \/ part = "flows" /\ FlowsNext
        /\ UNCHANGED <<lifecycleVars, setupVars, optionsVars, discoveryVars>>
     \/ part = "lifecycle" /\ LifecycleNext
        /\ UNCHANGED <<flowVars, setupVars, optionsVars, discoveryVars>>
     \/ part = "setup" /\ SetupNext
        /\ UNCHANGED <<flowVars, lifecycleVars, optionsVars, discoveryVars>>
     \/ part = "options" /\ OptionsNext
        /\ UNCHANGED <<flowVars, lifecycleVars, setupVars, discoveryVars>>
     \/ part = "discovery" /\ DiscoveryNext
        /\ UNCHANGED <<flowVars, lifecycleVars, setupVars, optionsVars>>

MCSpec == MCInit /\ [][MCNext]_partVars

Symmetry == Permutations(Flow) \cup Permutations(SetupDialog) \cup Permutations(Hcu)
              \cup Permutations(Device)
=============================================================================
