-------------------------- MODULE ConfigEntryProofs -------------------------
(***************************************************************************)
(* Theorems about a config entry for every number of dialogs, tokens and   *)
(* waiting reloads, and every set of values the entry can have: the setup  *)
(* that runs uses what is stored, reported changes are read, the           *)
(* credentials that several dialogs save fit together, the options dialog  *)
(* saves what was chosen, and an entry stays with its HCU.                 *)
(***************************************************************************)
EXTENDS EntryFlows, EntryLifecycle, SetupFlow, OptionsFlow, TLAPS

\* What the listener compares with is what the running setup was made from.
ComparesWithUsed ==
  entryState # "retry" /\ reloads = 0 /\ ~unheard =>
    Relevant(used) = Relevant(entry) /\ Relevant(previous) = Relevant(used)

LifecycleInv == LifecycleTypeOK /\ ComparesWithUsed /\ ChangesAreReloaded

\* A changed entry asks for a reload, or nothing that matters changed.
LEMMA SaveKeeps ==
  ASSUME LifecycleInv, NEW e \in Entries, NEW asking \in BOOLEAN, Save(e, asking)
  PROVE  LifecycleInv'
<1> USE DEF LifecycleInv, LifecycleTypeOK
<1> DEFINE told == entryState = "loaded" /\ e # entry
           asked == (told /\ ~OnlyQuiet(previous, e)) \/ asking
<1>1. /\ entry' = e
      /\ previous' = IF told THEN e ELSE previous
      /\ reloads' = IF asked THEN reloads + 1 ELSE reloads
      /\ unheard' = (unheard \/ (entryState \in Setting /\ ~asking
                                 /\ Relevant(e) # Relevant(used)))
      /\ UNCHANGED <<entryState, used, timer, unseen>>
  BY DEF Save, changeVars
<1>2. LifecycleTypeOK'
  BY <1>1
<1>3. ChangesAreReloaded'
  BY <1>1 DEF ChangesAreReloaded
<1>4. ComparesWithUsed'
  <2> SUFFICES ASSUME entryState # "retry", reloads' = 0, ~unheard'
               PROVE  Relevant(used) = Relevant(e) /\ Relevant(previous') = Relevant(used)
    BY <1>1 DEF ComparesWithUsed, Relevant
  <2>1. reloads = 0 /\ ~asked /\ ~unheard
    BY <1>1
  <2>2. Relevant(used) = Relevant(entry) /\ Relevant(previous) = Relevant(used)
    BY <2>1 DEF ComparesWithUsed
  <2>3. CASE entryState = "loaded"
    <3>1. CASE e = entry
      BY <1>1, <2>2, <3>1
    <3>2. CASE e # entry
      BY <1>1, <2>1, <2>2, <2>3, <3>2 DEF OnlyQuiet
    <3> QED
      BY <3>1, <3>2
  <2>4. CASE entryState # "loaded"
    BY <1>1, <2>1, <2>2, <2>4
  <2> QED
    BY <2>3, <2>4
<1> QED
  BY <1>2, <1>3, <1>4

LEMMA LifecycleStep ==
  ASSUME LifecycleInv, [LifecycleNext]_lifecycleVars
  PROVE  LifecycleInv'
<1> USE DEF LifecycleInv, LifecycleTypeOK, Setting
<1>1. ASSUME NEW e \in Entries, SaveAndReload(e) \/ SaveAndRetry(e) \/ SaveOnly(e)
      PROVE  LifecycleInv'
  BY <1>1, SaveKeeps DEF SaveAndReload, SaveAndRetry, SaveOnly
<1>2. ASSUME Reload \/ RetrySetup
      PROVE  LifecycleInv'
  <2>1. /\ entryState' = "connecting" /\ used' = entry /\ previous' = entry /\ entry' = entry
        /\ reloads' \in Nat /\ unseen' = unseen
    BY <1>2 DEF Reload, RetrySetup, BeginSetup, changeVars
  <2>4. unheard' \in BOOLEAN /\ timer' \in BOOLEAN
    BY <1>2, Zenon DEF Reload, RetrySetup, BeginSetup, changeVars
  <2>2. LifecycleTypeOK' /\ ChangesAreReloaded'
    BY <2>1, <2>4 DEF ChangesAreReloaded
  <2>3. ComparesWithUsed'
    BY <2>1 DEF ComparesWithUsed
  <2> QED
    BY <2>2, <2>3
<1>3. ASSUME UNCHANGED <<entry, used, previous, unheard>>,
             reloads' \in Nat, reloads' = 0 => reloads = 0,
             entryState' \in Setting \cup {"loaded", "retry"},
             entryState' # "retry" => entryState # "retry",
             timer' \in BOOLEAN, unseen' \in BOOLEAN, ChangesAreReloaded'
      PROVE  LifecycleInv'
  <2>1. LifecycleTypeOK'
    BY <1>3
  <2>2. ComparesWithUsed'
    BY <1>3 DEF ComparesWithUsed
  <2> QED
    BY <1>3, <2>1, <2>2
<1>4. CASE StateLoaded \/ SetupFails \/ SetupEnds
  BY <1>3, <1>4 DEF StateLoaded, SetupFails, SetupEnds, ChangesAreReloaded, saveVars, changeVars
<1>5. CASE DeviceChanged \/ DeviceRemoved \/ TimerFires
  <2>1. entry.auto \in BOOLEAN
    BY DEF Entries
  <2>2. UNCHANGED <<entry, used, previous, unheard, entryState>>
    BY <1>5, Zenon DEF DeviceChanged, DeviceRemoved, TimerFires, saveVars
  <2>3. timer' \in BOOLEAN /\ unseen' \in BOOLEAN
    BY <1>5, <2>1, Zenon DEF DeviceChanged, DeviceRemoved, TimerFires, saveVars
  <2>4. reloads' \in Nat /\ (reloads' = 0 => reloads = 0)
    BY <1>5 DEF DeviceChanged, DeviceRemoved, TimerFires, saveVars
  <2>5. ChangesAreReloaded'
    <3>1. CASE DeviceChanged
      <4>1. reloads' = reloads
        BY <3>1 DEF DeviceChanged, saveVars
      <4> QED
        BY <2>2, <3>1, <4>1, Zenon DEF DeviceChanged, ChangesAreReloaded
    <3>2. CASE DeviceRemoved
      <4>1. (reloads > 0 => reloads' > 0) /\ (entry.auto => reloads' > 0)
        BY <3>2 DEF DeviceRemoved
      <4> QED
        BY <2>2, <3>2, <4>1, Zenon DEF DeviceRemoved, ChangesAreReloaded
    <3>3. CASE TimerFires
      BY <3>3 DEF TimerFires, ChangesAreReloaded
    <3> QED
      BY <1>5, <3>1, <3>2, <3>3
  <2> QED
    BY <1>3, <2>2, <2>3, <2>4, <2>5
<1>6. CASE UNCHANGED lifecycleVars
  BY <1>3, <1>6 DEF lifecycleVars, saveVars, changeVars, ChangesAreReloaded
<1> QED
  BY <1>1, <1>2, <1>3, <1>4, <1>5, <1>6 DEF LifecycleNext

LEMMA LifecycleInvariant == LifecycleSpec => []LifecycleInv
<1>1. LifecycleInit => LifecycleInv
  <2> SUFFICES ASSUME LifecycleInit PROVE LifecycleInv
    OBVIOUS
  <2>1. /\ entry \in Entries /\ used = entry /\ previous = entry
        /\ entryState = "connecting" /\ reloads = 0
    BY DEF LifecycleInit
  <2>2. timer \in BOOLEAN /\ unseen \in BOOLEAN /\ unheard \in BOOLEAN /\ ~unseen
    BY Zenon DEF LifecycleInit
  <2> QED
    BY <2>1, <2>2 DEF LifecycleInv, LifecycleTypeOK, ComparesWithUsed, ChangesAreReloaded, Setting
<1> QED
  BY <1>1, LifecycleStep, PTL DEF LifecycleSpec

\* For every set of values of the entry and any number of waiting reloads, a
\* loaded entry for which no reload waits runs what is stored (async_setup_entry,
\* async_reload_entry), unless it was saved while its setup was under way.
THEOREM RunsStored == LifecycleSpec => []RunsWhatIsStored
<1>1. LifecycleInv => RunsWhatIsStored
  BY DEF LifecycleInv, ComparesWithUsed, RunsWhatIsStored
<1> QED
  BY <1>1, LifecycleInvariant, PTL

\* No reported change of the HCU is forgotten (_handle_event_message and the
\* delayed reload), for any number of waiting reloads.
THEOREM ChangesRead == LifecycleSpec => []ChangesAreReloaded
<1>1. LifecycleInv => ChangesAreReloaded
  BY DEF LifecycleInv
<1> QED
  BY <1>1, LifecycleInvariant, PTL

-----------------------------------------------------------------------------
(* The credentials of several dialogs *)

Steps ==
  {"new", "gone", "mode", "options", "appInit", "button", "acknowledged", "unconfirmed",
   "pressed", "plugin", "confirming"}
DraftType == [mode : Mode, app : Nat, plugin : Nat, pluginId : Nat]
DataType == [mode : Mode, app : Nat, plugin : Nat, pluginId : Nat, dev : BOOLEAN]

FlowsTypeOK ==
  /\ issued \in Seq(Nat)
  /\ data \in DataType
  /\ step \in [Flow -> Steps]
  /\ draft \in [Flow -> DraftType]
  /\ keep \in [Flow -> SUBSET {"app", "plugin"}]
  /\ obtained \in [Flow -> Nat]

\* A token, if it is one, was issued for this plugin ID.
IssuedFor(token, id) == token # 0 => token \in 1 .. Len(issued) /\ issued[token] = id

\* What a dialog relies on at its step.
DialogFits(f) ==
  /\ step[f] \in {"mode", "options"} => IssuedFor(draft[f].plugin, draft[f].pluginId)
  /\ step[f] \in {"unconfirmed", "pressed", "confirming"} => obtained[f] \in 1 .. Len(issued)
  /\ step[f] = "confirming" => issued[obtained[f]] = draft[f].pluginId
  /\ step[f] \in {"plugin", "confirming"} /\ draft[f].mode = "dual" /\ "app" \notin keep[f] =>
       draft[f].app # 0

\* The data holds a token exactly for the connections of its mode.
TokensOfMode ==
  /\ data.app # 0 <=> HasApp(data.mode)
  /\ data.plugin # 0 <=> HasPlugin(data.mode)

FlowsInv ==
  /\ FlowsTypeOK
  /\ IssuedFor(data.plugin, data.pluginId)
  /\ \A f \in Flow : DialogFits(f)
  /\ ~loose => TokensOfMode

LEMMA CopyOfData ==
  ASSUME NEW e \in DataType
  PROVE  CopyOf(e) = [mode |-> e.mode, app |-> e.app, plugin |-> e.plugin,
                      pluginId |-> e.pluginId]
BY DEF CopyOf, NoDraft, DataType

\* The tokens issued so far keep the plugin ID they were issued for.
TokensStay ==
  /\ issued' \in Seq(Nat)
  /\ \A t \in 1 .. Len(issued) : t \in 1 .. Len(issued') /\ issued'[t] = issued[t]

LEMMA IssuingKeeps ==
  ASSUME issued \in Seq(Nat),
         issued' = issued \/ \E id \in Nat : issued' = Append(issued, id)
  PROVE  TokensStay
<1>1. CASE issued' = issued
  BY <1>1 DEF TokensStay
<1>2. ASSUME NEW id \in Nat, issued' = Append(issued, id)
      PROVE  TokensStay
  BY <1>2 DEF TokensStay
<1> QED
  BY <1>1, <1>2

\* Only the dialog f moves, to a step s with a draft d.
Moved(f, s, d, k, o) ==
  /\ step' = [step EXCEPT ![f] = s]
  /\ draft' = [draft EXCEPT ![f] = d]
  /\ keep' = [keep EXCEPT ![f] = k]
  /\ obtained' = [obtained EXCEPT ![f] = o]

LEMMA MovedTo ==
  ASSUME FlowsTypeOK, NEW f \in Flow, NEW s, NEW d, NEW k, NEW o, Moved(f, s, d, k, o)
  PROVE  step'[f] = s /\ draft'[f] = d /\ keep'[f] = k /\ obtained'[f] = o
BY DEF Moved, FlowsTypeOK

\* A dialog that moves on, closes or saves disturbs no other dialog.
LEMMA OnlyOneMoves ==
  ASSUME FlowsInv, NEW f \in Flow, NEW s \in Steps, NEW d \in DraftType,
         NEW k \in SUBSET {"app", "plugin"}, NEW o \in Nat,
         Moved(f, s, d, k, o), TokensStay,
         DialogFits(f)', data' \in DataType,
         IssuedFor(data.plugin, data.pluginId)', (~loose => TokensOfMode)'
  PROVE  FlowsInv'
<1> USE DEF FlowsInv
<1>1. FlowsTypeOK'
  BY DEF FlowsTypeOK, Moved, TokensStay
<1>2. ASSUME NEW g \in Flow, g # f
      PROVE  DialogFits(g)'
  <2>1. /\ step'[g] = step[g] /\ draft'[g] = draft[g]
        /\ keep'[g] = keep[g] /\ obtained'[g] = obtained[g]
    BY <1>2 DEF FlowsTypeOK, Moved
  <2>2. DialogFits(g)
    OBVIOUS
  <2> QED
    BY <2>1, <2>2 DEF DialogFits, IssuedFor, TokensStay
<1> QED
  BY <1>1, <1>2

\* A dialog that saves nothing leaves the entry's data as it fits.
LEMMA MovesOn ==
  ASSUME FlowsInv, NEW f \in Flow, NEW s \in Steps, NEW d \in DraftType,
         NEW k \in SUBSET {"app", "plugin"}, NEW o \in Nat,
         Moved(f, s, d, k, o), TokensStay, NothingSaved, DialogFits(f)'
  PROVE  FlowsInv'
<1>1. data' \in DataType /\ IssuedFor(data.plugin, data.pluginId)'
  BY DEF FlowsInv, FlowsTypeOK, NothingSaved, IssuedFor, TokensStay
<1>2. (~loose => TokensOfMode)'
  BY DEF FlowsInv, NothingSaved, TokensOfMode
<1> QED
  BY <1>1, <1>2, OnlyOneMoves

\* A dialog that closes leaves nothing to rely on.
LEMMA GoneFits ==
  ASSUME FlowsTypeOK, NEW f \in Flow, Gone(f)
  PROVE  Moved(f, "gone", NoDraft, {}, 0) /\ NoDraft \in DraftType /\ DialogFits(f)'
<1>1. step'[f] = "gone"
  BY DEF Gone, Goto, FlowsTypeOK
<1> QED
  BY <1>1 DEF Gone, Goto, Drafted, Moved, NoDraft, DraftType, Mode, DialogFits

\* A dialog ends with data that fits.
LEMMA FinishFits ==
  ASSUME FlowsInv, NEW f \in Flow, NEW d, NEW kept,
         d.mode \in Mode, d.app \in Nat, d.plugin \in Nat, d.pluginId \in Nat,
         Finish(f, d, kept), issued' = issued, IssuedFor(d.plugin, d.pluginId),
         ("app" \in kept => d.app # 0) /\ ("plugin" \in kept => d.plugin # 0) =>
           (d.app # 0 <=> HasApp(d.mode)) /\ (d.plugin # 0 <=> HasPlugin(d.mode))
  PROVE  FlowsInv'
<1>1. /\ data' = [mode |-> d.mode, app |-> d.app, plugin |-> d.plugin,
                  pluginId |-> d.pluginId, dev |-> data.dev]
  BY DEF Finish, FlowsInv, FlowsTypeOK, DataType, DraftType
<1>2. data' \in DataType
  BY <1>1 DEF DataType, DraftType, FlowsInv, FlowsTypeOK
<1>3. IssuedFor(data.plugin, data.pluginId)'
  BY <1>1 DEF IssuedFor
<1>4. (~loose => TokensOfMode)'
  <2>1. ~loose' => ("app" \in kept => d.app # 0) /\ ("plugin" \in kept => d.plugin # 0)
    BY Zenon DEF Finish
  <2> QED
    BY <1>1, <2>1 DEF TokensOfMode, HasApp, HasPlugin
<1>5. TokensStay
  BY DEF FlowsInv, FlowsTypeOK, TokensStay
<1>6. Moved(f, "gone", NoDraft, {}, 0) /\ NoDraft \in DraftType /\ DialogFits(f)'
  BY GoneFits DEF Finish, FlowsInv
<1>7. "gone" \in Steps /\ {} \in SUBSET {"app", "plugin"} /\ 0 \in Nat
  BY DEF Steps
<1> HIDE DEF FlowsInv
<1> QED
  BY <1>2, <1>3, <1>4, <1>5, <1>6, <1>7, OnlyOneMoves

\* The steps of a dialog that saves nothing, up to a new token.
LEMMA DialogSteps ==
  ASSUME FlowsInv, NEW f \in Flow,
         \/ Open(f) \/ RequestConnection(f) \/ ButtonPressed(f) \/ IssueAppToken(f)
         \/ ConfirmAppToken(f) \/ ButtonTimeout(f) \/ RequestPluginToken(f)
         \/ PluginFails(f) \/ Close(f)
  PROVE  FlowsInv'
<1>types. /\ FlowsTypeOK /\ data \in DataType /\ draft[f] \in DraftType
          /\ keep[f] \in SUBSET {"app", "plugin"} /\ obtained[f] \in Nat
          /\ issued \in Seq(Nat) /\ DialogFits(f)
  BY DEF FlowsInv, FlowsTypeOK
<1>same. /\ draft = [draft EXCEPT ![f] = draft[f]] /\ keep = [keep EXCEPT ![f] = keep[f]]
         /\ obtained = [obtained EXCEPT ![f] = obtained[f]]
  BY DEF FlowsInv, FlowsTypeOK
<1>old. issued' = issued => TokensStay
  BY <1>types, IssuingKeeps
<1>1. CASE Open(f)
  <2>1. Moved(f, "mode", CopyOf(data), keep[f], obtained[f]) /\ issued' = issued
    BY <1>1, <1>same DEF Open, Goto, Drafted, Moved
  <2>2. CopyOf(data) \in DraftType /\ "mode" \in Steps
    BY <1>types, CopyOfData DEF DataType, DraftType, Steps
  <2>3. DialogFits(f)'
    <3>1. step'[f] = "mode" /\ draft'[f] = CopyOf(data)
      BY <2>1, <1>types, MovedTo
    <3> QED
      BY <3>1, <2>1, <1>types, CopyOfData DEF DialogFits, IssuedFor, FlowsInv
  <2> QED
    BY <1>1, <1>old, <1>types, <2>1, <2>2, <2>3, MovesOn DEF Open
<1>2. ASSUME NEW s \in {"button", "acknowledged", "pressed", "plugin"},
             step' = [step EXCEPT ![f] = s], UNCHANGED <<draft, keep, obtained, issued>>,
             NothingSaved,
             s = "pressed" => step[f] = "unconfirmed", s = "plugin" => step[f] = "confirming"
      PROVE  FlowsInv'
  <2>1. Moved(f, s, draft[f], keep[f], obtained[f]) /\ s \in Steps
    BY <1>2, <1>same DEF Moved, Steps
  <2>2. DialogFits(f)'
    <3>1. step'[f] = s /\ draft'[f] = draft[f] /\ keep'[f] = keep[f] /\ obtained'[f] = obtained[f]
      BY <2>1, <1>types, MovedTo
    <3> QED
      BY <3>1, <1>2, <1>types DEF DialogFits
  <2> QED
    BY <1>2, <1>old, <1>types, <2>1, <2>2, MovesOn
<1>3. CASE RequestConnection(f) \/ ButtonPressed(f) \/ ConfirmAppToken(f) \/ PluginFails(f)
  BY <1>2, <1>3 DEF RequestConnection, ButtonPressed, ConfirmAppToken, PluginFails, Goto
<1>4. CASE IssueAppToken(f)
  <2>1. /\ Moved(f, "unconfirmed", draft[f], keep[f], Len(issued'))
        /\ issued' = Append(issued, 0) /\ NothingSaved
    BY <1>4, <1>same DEF IssueAppToken, Goto, Moved
  <2>2. TokensStay /\ Len(issued') \in Nat /\ Len(issued') > 0 /\ "unconfirmed" \in Steps
    BY <2>1, <1>types, IssuingKeeps DEF Steps
  <2>3. DialogFits(f)'
    <3>1. step'[f] = "unconfirmed" /\ obtained'[f] = Len(issued')
      BY <2>1, <1>types, MovedTo
    <3> QED
      BY <3>1, <2>2 DEF DialogFits
  <2> QED
    BY <1>types, <2>1, <2>2, <2>3, MovesOn
<1>5. CASE RequestPluginToken(f)
  <2> DEFINE id == NewPluginId(f)
             d == [draft[f] EXCEPT !.pluginId = id]
  <2>1. /\ Moved(f, "confirming", d, keep[f], Len(issued'))
        /\ issued' = Append(issued, id) /\ NothingSaved /\ step[f] = "plugin"
    BY <1>5, <1>same DEF RequestPluginToken, NewPluginId, Goto, Drafted, Moved
  <2>2. id \in Nat /\ "confirming" \in Steps
    BY <1>types DEF NewPluginId, Steps
  <2>3. d \in DraftType /\ d.pluginId = id /\ d.mode = draft[f].mode /\ d.app = draft[f].app
    BY <1>types, <2>2 DEF DraftType
  <2> HIDE DEF id, d
  <2>4. /\ TokensStay /\ Len(issued') \in Nat /\ Len(issued') \in 1 .. Len(issued')
        /\ issued'[Len(issued')] = id
    BY <2>1, <2>2, <1>types, IssuingKeeps
  <2>5. DialogFits(f)'
    <3>1. /\ step'[f] = "confirming" /\ draft'[f] = d /\ keep'[f] = keep[f]
          /\ obtained'[f] = Len(issued')
      BY <2>1, <1>types, MovedTo
    <3> QED
      BY <3>1, <2>1, <2>3, <2>4, <1>types DEF DialogFits
  <2> QED
    BY <1>types, <2>1, <2>2, <2>3, <2>4, <2>5, MovesOn
<1>6. CASE ButtonTimeout(f) \/ Close(f)
  <2>1. Gone(f) /\ NothingSaved /\ TokensStay
    BY <1>6, <1>old DEF ButtonTimeout, Close
  <2>2. Moved(f, "gone", NoDraft, {}, 0) /\ NoDraft \in DraftType /\ DialogFits(f)'
    BY <2>1, <1>types, GoneFits
  <2>3. "gone" \in Steps /\ {} \in SUBSET {"app", "plugin"} /\ 0 \in Nat
    BY DEF Steps
  <2> QED
    BY <2>1, <2>2, <2>3, MovesOn
<1> QED
  BY <1>1, <1>3, <1>4, <1>5, <1>6

\* The mode is chosen, and the stored tokens forgotten or kept.
LEMMA ModeSteps ==
  ASSUME FlowsInv, NEW f \in Flow, NEW mode \in Mode,
         ForgetTokens(f, mode) \/ KeepTokens(f, mode)
  PROVE  FlowsInv'
<1>types. /\ FlowsTypeOK /\ draft[f] \in DraftType
          /\ keep[f] \in SUBSET {"app", "plugin"} /\ obtained[f] \in Nat
          /\ issued \in Seq(Nat) /\ DialogFits(f)
  BY DEF FlowsInv, FlowsTypeOK
<1>same. /\ keep = [keep EXCEPT ![f] = keep[f]]
         /\ obtained = [obtained EXCEPT ![f] = obtained[f]]
  BY DEF FlowsInv, FlowsTypeOK
<1>old. issued' = issued => TokensStay
  BY <1>types, IssuingKeeps
<1>1. CASE ForgetTokens(f, mode)
  <2> DEFINE d == [WithoutApp(WithoutPlugin(draft[f])) EXCEPT !.mode = mode]
             s == IF HasApp(mode) THEN "appInit" ELSE "plugin"
  <2>1. Moved(f, s, d, {}, obtained[f]) /\ issued' = issued /\ NothingSaved
    BY <1>1, <1>same DEF ForgetTokens, Goto, Drafted, Moved
  <2>2. d \in DraftType /\ d.mode = mode /\ s \in Steps /\ (s = "plugin" => mode # "dual")
    BY <1>types DEF WithoutApp, WithoutPlugin, DraftType, Steps, HasApp
  <2> HIDE DEF d
  <2>3. DialogFits(f)'
    <3>1. step'[f] = s /\ draft'[f] = d
      BY <2>1, <1>types, MovedTo
    <3> QED
      BY <3>1, <2>2 DEF DialogFits
  <2> QED
    BY <1>old, <1>types, <2>1, <2>2, <2>3, MovesOn
<1>2. CASE KeepTokens(f, mode)
  <2> DEFINE d == [draft[f] EXCEPT !.mode = mode]
  <2>1. /\ Moved(f, "options", d, keep[f], obtained[f]) /\ issued' = issued /\ NothingSaved
        /\ step[f] = "mode"
    BY <1>2, <1>same DEF KeepTokens, Goto, Drafted, Moved
  <2>2. /\ d \in DraftType /\ d.plugin = draft[f].plugin /\ d.pluginId = draft[f].pluginId
        /\ "options" \in Steps
    BY <1>types DEF DraftType, Steps
  <2> HIDE DEF d
  <2>3. DialogFits(f)'
    <3>1. step'[f] = "options" /\ draft'[f] = d
      BY <2>1, <1>types, MovedTo
    <3> QED
      BY <3>1, <2>1, <2>2, <1>types DEF DialogFits, IssuedFor
  <2> QED
    BY <1>old, <1>types, <2>1, <2>2, <2>3, MovesOn
<1> QED
  BY <1>1, <1>2

\* The user submits which tokens to fetch again.
LEMMA OptionsStep ==
  ASSUME FlowsInv, NEW f \in Flow, NEW refresh \in SUBSET {"app", "plugin"},
         SubmitOptions(f, refresh)
  PROVE  FlowsInv'
<1> DEFINE mode == draft[f].mode
           needed == {k \in {"app", "plugin"} :
                        IF k = "app" THEN HasApp(mode) ELSE HasPlugin(mode)}
           d1 == IF HasApp(mode) THEN draft[f] ELSE WithoutApp(draft[f])
           d2 == IF HasPlugin(mode) THEN d1 ELSE WithoutPlugin(d1)
           s == IF "app" \in refresh THEN "appInit" ELSE "plugin"
<1>types. /\ FlowsTypeOK /\ draft[f] \in DraftType
          /\ keep[f] \in SUBSET {"app", "plugin"} /\ obtained[f] \in Nat
          /\ issued \in Seq(Nat) /\ DialogFits(f)
  BY DEF FlowsInv, FlowsTypeOK
<1>1. /\ step[f] = "options" /\ refresh \subseteq needed /\ issued' = issued
      /\ \/ /\ refresh # {} /\ NothingSaved /\ keep' = [keep EXCEPT ![f] = needed \ refresh]
            /\ Goto(f, s) /\ Drafted(f, d2) /\ obtained' = obtained
         \/ refresh = {} /\ Finish(f, d2, needed)
  BY DEF SubmitOptions
<1>2. d1 \in DraftType /\ d1.mode = mode /\ d1.plugin = draft[f].plugin
      /\ d1.pluginId = draft[f].pluginId /\ (~HasApp(mode) => d1.app = 0)
  BY <1>types DEF DraftType, WithoutApp
<1>3. /\ d2 \in DraftType /\ d2.mode = mode /\ (~HasApp(mode) => d2.app = 0)
      /\ (~HasPlugin(mode) => d2.plugin = 0)
      /\ d2.plugin \in {0, draft[f].plugin} /\ d2.pluginId = draft[f].pluginId
  <2> HIDE DEF d1
  <2> QED
    BY <1>2 DEF DraftType, WithoutPlugin
<1>4. /\ "app" \in needed <=> HasApp(mode)
      /\ "plugin" \in needed <=> HasPlugin(mode)
      /\ needed \in SUBSET {"app", "plugin"}
  OBVIOUS
<1>5. IssuedFor(d2.plugin, d2.pluginId)
  BY <1>1, <1>3, <1>types DEF IssuedFor, DialogFits
<1>6. TokensStay
  BY <1>1, <1>types, IssuingKeeps
<1> HIDE DEF d2, needed
<1>7. CASE refresh = {} /\ Finish(f, d2, needed)
  <2>1. d2.mode \in Mode /\ d2.app \in Nat /\ d2.plugin \in Nat /\ d2.pluginId \in Nat
    BY <1>3 DEF DraftType
  <2>2. ("app" \in needed => d2.app # 0) /\ ("plugin" \in needed => d2.plugin # 0) =>
           (d2.app # 0 <=> HasApp(d2.mode)) /\ (d2.plugin # 0 <=> HasPlugin(d2.mode))
    BY <1>3, <1>4
  <2> QED
    BY <1>1, <1>5, <1>7, <2>1, <2>2, FinishFits
<1>8. CASE refresh # {} /\ NothingSaved /\ keep' = [keep EXCEPT ![f] = needed \ refresh]
           /\ Goto(f, s) /\ Drafted(f, d2) /\ obtained' = obtained
  <2>1. Moved(f, s, d2, needed \ refresh, obtained[f])
    BY <1>8, <1>types DEF Moved, Goto, Drafted, FlowsTypeOK
  <2>2. s \in Steps /\ needed \ refresh \in SUBSET {"app", "plugin"}
    BY <1>4 DEF Steps
  <2>3. DialogFits(f)'
    <3>1. step'[f] = s /\ draft'[f] = d2 /\ keep'[f] = needed \ refresh
      BY <2>1, <1>types, MovedTo
    <3> QED
      BY <3>1, <1>3, <1>4 DEF DialogFits, HasApp
  <2> QED
    BY <1>3, <1>6, <1>8, <1>types, <2>1, <2>2, <2>3, MovesOn
<1> QED
  BY <1>1, <1>7, <1>8

\* A new App User token leads to the plugin's, or ends the dialog.
LEMMA AppConfirmedStep ==
  ASSUME FlowsInv, NEW f \in Flow, AppConfirmed(f)
  PROVE  FlowsInv'
<1>types. /\ FlowsTypeOK /\ data \in DataType /\ draft[f] \in DraftType
          /\ keep[f] \in SUBSET {"app", "plugin"} /\ obtained[f] \in Nat
          /\ issued \in Seq(Nat) /\ DialogFits(f)
          /\ IssuedFor(data.plugin, data.pluginId)
  BY DEF FlowsInv, FlowsTypeOK
<1>1. issued' = issued /\ TokensStay /\ obtained[f] # 0
  BY <1>types, IssuingKeeps DEF AppConfirmed, DialogFits
<1>2. CASE /\ Goto(f, "plugin") /\ NothingSaved
           /\ Drafted(f, [draft[f] EXCEPT !.app = obtained[f]])
           /\ UNCHANGED <<keep, obtained>>
  <2> DEFINE d == [draft[f] EXCEPT !.app = obtained[f]]
  <2>1. Moved(f, "plugin", d, keep[f], obtained[f])
    BY <1>2, <1>types DEF Moved, Goto, Drafted, FlowsTypeOK
  <2>2. d \in DraftType /\ d.app # 0 /\ "plugin" \in Steps
    BY <1>1, <1>types DEF DraftType, Steps
  <2> HIDE DEF d
  <2>3. DialogFits(f)'
    <3>1. step'[f] = "plugin" /\ draft'[f] = d
      BY <2>1, <1>types, MovedTo
    <3> QED
      BY <3>1, <2>2 DEF DialogFits
  <2> QED
    BY <1>1, <1>2, <1>types, <2>1, <2>2, <2>3, MovesOn
<1>3. CASE /\ Finish(f, AppData(f), keep[f])
           /\ ~(draft[f].mode = "dual" /\ "plugin" \notin keep[f])
  <2> DEFINE d == AppData(f)
             isDual == draft[f].mode = "dual"
  <2>1. /\ d.mode = IF isDual THEN "dual" ELSE "app"
        /\ d.app = obtained[f] /\ d.pluginId = data.pluginId
        /\ d.plugin = IF isDual /\ "plugin" \in keep[f] THEN data.plugin ELSE 0
    BY <1>types DEF AppData, DataType
  <2> HIDE DEF d
  <2>2. d.mode \in Mode /\ d.app \in Nat /\ d.plugin \in Nat /\ d.pluginId \in Nat
    BY <2>1, <1>types DEF DataType, Mode
  <2>3. IssuedFor(d.plugin, d.pluginId)
    BY <2>1, <1>types DEF IssuedFor
  <2>4. ("app" \in keep[f] => d.app # 0) /\ ("plugin" \in keep[f] => d.plugin # 0) =>
           (d.app # 0 <=> HasApp(d.mode)) /\ (d.plugin # 0 <=> HasPlugin(d.mode))
    BY <1>1, <1>3, <2>1 DEF HasApp, HasPlugin
  <2>5. Finish(f, d, keep[f])
    BY <1>3 DEF d
  <2> QED
    BY <1>1, <2>2, <2>3, <2>4, <2>5, FinishFits
<1> QED
  BY <1>2, <1>3 DEF AppConfirmed

\* A confirmed plugin token ends the dialog.
LEMMA PluginConfirmedStep ==
  ASSUME FlowsInv, NEW f \in Flow, PluginConfirmed(f)
  PROVE  FlowsInv'
<1> DEFINE d == PluginData(f)
           isDual == draft[f].mode = "dual"
<1>types. /\ data \in DataType /\ draft[f] \in DraftType /\ obtained[f] \in Nat
          /\ issued \in Seq(Nat) /\ DialogFits(f)
  BY DEF FlowsInv, FlowsTypeOK
<1>1. /\ step[f] = "confirming" /\ issued' = issued /\ Finish(f, d, keep[f])
      /\ obtained[f] \in 1 .. Len(issued) /\ issued[obtained[f]] = draft[f].pluginId
  BY <1>types DEF PluginConfirmed, DialogFits
<1>2. /\ d.mode = IF isDual THEN "dual" ELSE "plugin"
      /\ d.plugin = obtained[f] /\ d.pluginId = draft[f].pluginId
      /\ d.app = IF isDual THEN draft[f].app ELSE 0
  BY <1>types DEF PluginData, DataType
<1> HIDE DEF d
<1>3. d.mode \in Mode /\ d.app \in Nat /\ d.plugin \in Nat /\ d.pluginId \in Nat
  BY <1>2, <1>types DEF DraftType, Mode
<1>4. IssuedFor(d.plugin, d.pluginId)
  BY <1>1, <1>2 DEF IssuedFor
<1>5. isDual /\ "app" \notin keep[f] => draft[f].app # 0
  BY <1>1, <1>types DEF DialogFits
<1>6. ("app" \in keep[f] => d.app # 0) /\ ("plugin" \in keep[f] => d.plugin # 0) =>
         (d.app # 0 <=> HasApp(d.mode)) /\ (d.plugin # 0 <=> HasPlugin(d.mode))
  BY <1>1, <1>2, <1>5 DEF HasApp, HasPlugin
<1> QED
  BY <1>1, <1>3, <1>4, <1>6, FinishFits

LEMMA FlowsInvariant == FlowsSpec => []FlowsInv
<1>1. FlowsInit => FlowsInv
  <2> SUFFICES ASSUME FlowsInit PROVE FlowsInv
    OBVIOUS
  <2>1. PICK m \in Mode, id \in {0, 2}, dev \in BOOLEAN :
          data = [mode |-> m, app |-> IF HasApp(m) THEN 1 ELSE 0,
                  plugin |-> IF HasPlugin(m) THEN 2 ELSE 0, pluginId |-> id, dev |-> dev]
    BY DEF FlowsInit
  <2>2. issued = <<0, id>> /\ data.plugin \in {0, 2} /\ data.pluginId = id
    BY <2>1 DEF FlowsInit
  <2>3. FlowsTypeOK
    BY <2>1, <2>2 DEF FlowsInit, FlowsTypeOK, DataType, DraftType, NoDraft, Mode, Steps
  <2>4. IssuedFor(data.plugin, data.pluginId)
    BY <2>2 DEF IssuedFor
  <2>5. TokensOfMode
    BY <2>1 DEF TokensOfMode
  <2>6. \A f \in Flow : DialogFits(f)
    BY DEF FlowsInit, DialogFits
  <2> QED
    BY <2>3, <2>4, <2>5, <2>6 DEF FlowsInv
<1>2. FlowsInv /\ [FlowsNext]_flowVars => FlowsInv'
  <2> SUFFICES ASSUME FlowsInv, [FlowsNext]_flowVars PROVE FlowsInv'
    OBVIOUS
  <2>1. CASE UNCHANGED flowVars
    BY <2>1 DEF flowVars, FlowsInv, FlowsTypeOK, IssuedFor, DialogFits, TokensOfMode
  <2>2. CASE FlowsNext
    BY <2>2, DialogSteps, ModeSteps, OptionsStep, AppConfirmedStep, PluginConfirmedStep
    DEF FlowsNext
  <2> QED
    BY <2>1, <2>2
<1> QED
  BY <1>1, <1>2, PTL DEF FlowsSpec

\* For any number of dialogs and tokens, the stored plugin token was issued for
\* the stored plugin ID, and the entry holds a token exactly for the connections
\* of its mode (HcuConfigFlow's reauthentication and reconfiguration), unless
\* the user kept a token that was not there.
THEOREM CredentialsAlwaysFit == FlowsSpec => []CredentialsFit
<1>1. FlowsInv => CredentialsFit
  BY DEF FlowsInv, IssuedFor, TokensOfMode, CredentialsFit
<1> QED
  BY <1>1, FlowsInvariant, PTL

-----------------------------------------------------------------------------
(* Options dialogs *)

\* What a running setup is going to add to the registry is not disabled.
OptionsInv ==
  /\ options = chosen
  /\ blind \in BOOLEAN
  /\ blind = FALSE =>
       /\ registered \cap options.disabled = {}
       /\ phase = "loading" => found \cap options.disabled = {}
  /\ options = [devices |-> options.devices, disabled |-> options.disabled,
                developer |-> options.developer]

LEMMA DevicesSaved ==
  ASSUME OptionsInv, NEW x, NEW devices, SaveDevices(x, devices, devices)
  PROVE  OptionsInv'
<1>1. /\ options' = [options EXCEPT !.devices = devices]
      /\ chosen' = [chosen EXCEPT !.devices = devices]
      /\ UNCHANGED <<phase, found, registered, blind>>
  BY DEF SaveDevices, SaveOptions
<1>2. /\ options' = [devices |-> devices, disabled |-> options.disabled,
                     developer |-> options.developer]
      /\ chosen' = options'
  BY <1>1 DEF OptionsInv
<1> QED
  BY <1>1, <1>2 DEF OptionsInv

LEMMA DialogKeeps ==
  ASSUME OptionsInv, OptionsUnchanged
  PROVE  OptionsInv'
BY DEF OptionsInv, OptionsUnchanged

LEMMA OptionsDialogStep ==
  ASSUME OptionsInv, [OptionsNext]_optionsVars
  PROVE  OptionsInv'
<1> USE DEF OptionsInv
<1>1. ASSUME NEW x \in Dialog,
             ClosePage(x) \/ EditedDeviceGone(x) \/ RequestVacation(x) \/ VacationFails(x)
               \/ (\E p \in Page : OpenPage(x, p)) \/ (\E d \in Bridged : SelectDevice(x, d))
      PROVE  OptionsInv'
  <2>1. OptionsUnchanged
    BY <1>1 DEF ClosePage, EditedDeviceGone, RequestVacation, VacationFails, OpenPage,
                SelectDevice
  <2> QED
    BY <2>1, DialogKeeps
<1>2. ASSUME NEW x \in Dialog, VacationActive(x) PROVE OptionsInv'
  BY <1>2 DEF VacationActive, SaveOptions
<1>3. ASSUME NEW x \in Dialog, NEW d \in Bridged, NEW c \in Content, AddDevice(x, d, c)
      PROVE  OptionsInv'
  <2>1. Assign(d, c) = [e \in DOMAIN chosen.devices \cup {d} |->
                          IF e = d THEN c ELSE chosen.devices[e]]
    BY DEF Assign, BridgedNow
  <2> QED
    BY <1>3, <2>1, DevicesSaved DEF AddDevice
<1>4. ASSUME NEW x \in Dialog, NEW c \in Content, EditDevice(x, c) PROVE OptionsInv'
  <2>1. BridgedNow \cup {selected[x]} = DOMAIN chosen.devices
    BY <1>4 DEF EditDevice, BridgedNow
  <2>2. Assign(selected[x], c) = [e \in DOMAIN chosen.devices |->
                                    IF e = selected[x] THEN c ELSE chosen.devices[e]]
    BY <2>1 DEF Assign
  <2> QED
    BY <1>4, <2>2, DevicesSaved DEF EditDevice
<1>5. ASSUME NEW x \in Dialog, NEW ds \in SUBSET Bridged, RemoveDevices(x, ds)
      PROVE  OptionsInv'
  <2>1. Remaining(ds) = [e \in DOMAIN chosen.devices \ ds |-> chosen.devices[e]]
    BY DEF Remaining, BridgedNow
  <2> QED
    BY <1>5, <2>1, DevicesSaved DEF RemoveDevices
<1>6. ASSUME NEW x \in Dialog, NEW disabled \in SUBSET Maker, SaveSettings(x, disabled)
      PROVE  OptionsInv'
  <2>1. /\ options' = [options EXCEPT !.disabled = disabled]
        /\ chosen' = [chosen EXCEPT !.disabled = disabled]
        /\ registered' = IF phase = "unloaded" THEN registered ELSE registered \ disabled
        /\ blind' = (phase # "loaded" \/ offered[x] = {})
        /\ UNCHANGED <<phase, found>>
    BY <1>6 DEF SaveSettings, SaveOptions
  <2>2. /\ options' = [devices |-> options.devices, disabled |-> disabled,
                       developer |-> options.developer]
        /\ chosen' = options'
    BY <2>1
  <2>3. blind' \in BOOLEAN /\ (blind' = FALSE => phase = "loaded")
    BY <2>1, Zenon
  <2>4. blind' = FALSE => registered' \cap disabled = {}
    <3>1. SUFFICES ASSUME blind' = FALSE PROVE registered' \cap disabled = {}
      OBVIOUS
    <3>2. registered' = registered \ disabled
      BY <2>1, <2>3, <3>1
    <3> QED
      BY <3>2
  <2>5. phase' # "loading" \/ blind' = TRUE
    BY <2>1, <2>3
  <2>6. options'.disabled = disabled
    BY <2>2
  <2> QED
    BY <2>2, <2>3, <2>4, <2>5, <2>6
<1>7. ASSUME NEW x \in Dialog, NEW on \in BOOLEAN, SaveDeveloper(x, on) PROVE OptionsInv'
  <2>1. /\ options' = [options EXCEPT !.developer = on]
        /\ chosen' = [chosen EXCEPT !.developer = on]
        /\ UNCHANGED <<phase, found, registered, blind>>
    BY <1>7 DEF SaveDeveloper, SaveOptions
  <2>2. /\ options' = [devices |-> options.devices, disabled |-> options.disabled,
                       developer |-> on]
        /\ chosen' = options'
    BY <2>1
  <2> QED
    BY <2>1, <2>2
<1>8. CASE Load \/ Loaded \/ Unload
  BY <1>8 DEF Load, Loaded, Unload
<1>9. CASE UNCHANGED optionsVars
  BY <1>9 DEF optionsVars
<1> QED
  BY <1>1, <1>2, <1>3, <1>4, <1>5, <1>6, <1>7, <1>8, <1>9 DEF OptionsNext

\* For any number of options dialogs and devices: the options are what was chosen
\* last, page by page, although every save writes all of them (HcuOptionsFlowHandler),
\* and no device of a disabled manufacturer stays in the registry or returns to it,
\* unless the settings were saved while the entry was not loaded.
THEOREM SavesAreKept == OptionsSpec => []SavedAsChosen
<1>1. ASSUME OptionsInit PROVE OptionsInv
  <2> DEFINE none == [d \in {} |-> "a"]
  <2>1. /\ options = [devices |-> none, disabled |-> {}, developer |-> FALSE]
        /\ phase = "loaded" /\ chosen = options /\ blind = FALSE
    BY <1>1 DEF OptionsInit
  <2> HIDE DEF none
  <2>2. options.devices = none /\ options.disabled = {} /\ options.developer = FALSE
    BY <2>1
  <2> QED
    BY <2>1, <2>2 DEF OptionsInv
<1>2. OptionsInv => SavedAsChosen
  BY DEF OptionsInv, SavedAsChosen
<1> QED
  BY <1>1, <1>2, OptionsDialogStep, PTL DEF OptionsSpec

-----------------------------------------------------------------------------
(* Setup dialogs *)

EntryShape(x) == x = [uid |-> x.uid, host |-> x.host, name |-> x.name, of |-> x.of]
FlowShape(x) ==
  x = [step |-> x.step, uid |-> x.uid, host |-> x.host, name |-> x.name,
       entry |-> x.entry, token |-> x.token]

SetupShape ==
  /\ \A e \in EntryIds : EntryShape(entries[e])
  /\ \A f \in OpenFlows : FlowShape(flows[f])

\* A flow that may create an entry has the hostname of the HCU it was started for,
\* and once it has read the HCU the device ID of the one its token is of ...
FlowUid(x) ==
  /\ x.uid[1] = "hostname" => x.uid = <<"hostname", x.name>> /\ x.name \in Hcu
  /\ x.uid[1] = "device" => x.uid = <<"device", x.token>> /\ x.step = "form"

\* ... and so have the entries.
EntryUid(x) ==
  /\ x.uid[1] = "hostname" => x.uid = <<"hostname", x.name>> /\ x.name \in Hcu
  /\ x.uid[1] = "device" => x.uid = <<"device", x.of>>

\* No entry of an HCU has the unique ID of a flow that may create one.
UidsApart(fl, ens) ==
  \A f \in DOMAIN fl, e \in DOMAIN ens :
    fl[f].step # "confirmAddress" /\ ens[e].of # Nothing => ens[e].uid # fl[f].uid

SetupInv ==
  /\ SetupShape
  /\ \A f \in OpenFlows : flows[f].step # "confirmAddress" => FlowUid(flows[f])
  /\ \A e \in Configured : EntryUid(entries[e])
  /\ UidsApart(flows, entries)

\* What a step never does to the entries.
EntriesStay ==
  \A e \in Configured :
    /\ e \in DOMAIN entries' /\ entries'[e].of = entries[e].of
    /\ entries[e].name # Nothing => entries'[e].name = entries[e].name
HostsProven ==
  \A e \in Configured \cap DOMAIN entries' :
    entries'[e].host # entries[e].host =>
      \/ \E f \in OpenFlows : flows[f].step = "confirmAddress" /\ flows[f].entry = e
      \/ entries[e].of \in HcuAt(entries'[e].host)
SetupResult == SetupInv' /\ EntriesStay /\ HostsProven

LEMMA HostReplaced ==
  ASSUME NEW x, EntryShape(x), NEW v
  PROVE  [x EXCEPT !.host = v] = [uid |-> x.uid, host |-> v, name |-> x.name, of |-> x.of]
<1>1. PICK a, b, c, d : x = [uid |-> a, host |-> b, name |-> c, of |-> d]
  BY DEF EntryShape
<1> QED
  BY <1>1

LEMMA FlowReplaced ==
  ASSUME NEW x, FlowShape(x)
  PROVE  /\ \A s, t : [x EXCEPT !.step = s, !.token = t] =
              [step |-> s, uid |-> x.uid, host |-> x.host, name |-> x.name,
               entry |-> x.entry, token |-> t]
         /\ \A s, u : [x EXCEPT !.step = s, !.uid = u] =
              [step |-> s, uid |-> u, host |-> x.host, name |-> x.name,
               entry |-> x.entry, token |-> x.token]
<1>1. ASSUME NEW s
      PROVE  [x EXCEPT !.step = s] =
               [step |-> s, uid |-> x.uid, host |-> x.host, name |-> x.name,
                entry |-> x.entry, token |-> x.token]
  BY DEF FlowShape
<1>2. ASSUME NEW s, NEW y, y = [x EXCEPT !.step = s]
      PROVE  /\ FlowShape(y) /\ y.step = s /\ y.uid = x.uid /\ y.host = x.host
             /\ y.name = x.name /\ y.entry = x.entry /\ y.token = x.token
  <2>1. y = [step |-> s, uid |-> x.uid, host |-> x.host, name |-> x.name,
             entry |-> x.entry, token |-> x.token]
    BY <1>1, <1>2
  <2> QED
    BY <2>1 DEF FlowShape
<1>3. ASSUME NEW s, NEW t
      PROVE  [x EXCEPT !.step = s, !.token = t] =
               [step |-> s, uid |-> x.uid, host |-> x.host, name |-> x.name,
                entry |-> x.entry, token |-> t]
  <2> DEFINE y == [x EXCEPT !.step = s]
  <2>1. [x EXCEPT !.step = s, !.token = t] = [y EXCEPT !.token = t]
    OBVIOUS
  <2>2. /\ FlowShape(y) /\ y.step = s /\ y.uid = x.uid /\ y.host = x.host
        /\ y.name = x.name /\ y.entry = x.entry
    BY <1>2
  <2> HIDE DEF y
  <2>3. [y EXCEPT !.token = t] = [step |-> y.step, uid |-> y.uid, host |-> y.host,
                                  name |-> y.name, entry |-> y.entry, token |-> t]
    BY <2>2 DEF FlowShape
  <2> QED
    BY <2>1, <2>2, <2>3
<1>4. ASSUME NEW s, NEW u
      PROVE  [x EXCEPT !.step = s, !.uid = u] =
               [step |-> s, uid |-> u, host |-> x.host, name |-> x.name,
                entry |-> x.entry, token |-> x.token]
  <2> DEFINE y == [x EXCEPT !.step = s]
  <2>1. [x EXCEPT !.step = s, !.uid = u] = [y EXCEPT !.uid = u]
    OBVIOUS
  <2>2. /\ FlowShape(y) /\ y.step = s /\ y.host = x.host
        /\ y.name = x.name /\ y.entry = x.entry /\ y.token = x.token
    BY <1>2
  <2> HIDE DEF y
  <2>3. [y EXCEPT !.uid = u] = [step |-> y.step, uid |-> u, host |-> y.host,
                                name |-> y.name, entry |-> y.entry, token |-> y.token]
    BY <2>2 DEF FlowShape
  <2> QED
    BY <2>1, <2>2, <2>3
<1> QED
  BY <1>3, <1>4

\* What becomes of the open flows.
Closed(fs) ==
  /\ OpenFlows' = OpenFlows \ fs
  /\ \A g \in OpenFlows' : flows'[g] = flows[g]
Opened(f, x) ==
  /\ OpenFlows' = OpenFlows \cup {f} /\ flows'[f] = x
  /\ \A g \in OpenFlows : g # f => flows'[g] = flows[g]

LEMMA WithoutCloses ==
  /\ \A fs : flows' = Without(fs) => Closed(fs)
  /\ \A f, x : flows' = With(f, x) => Opened(f, x)
  /\ flows' = flows => Closed({})
BY DEF Closed, Opened, Without, With, OpenFlows

LEMMA FlowsClosed ==
  ASSUME SetupInv, NEW fs, Closed(fs), entries' = entries
  PROVE  SetupResult
BY DEF SetupInv, SetupShape, Closed, OpenFlows, EntryIds, Configured, UidsApart,
       SetupResult, EntriesStay, HostsProven

\* A flow starts, or goes on, with a unique ID no entry of an HCU has.
LEMMA FlowOpened ==
  ASSUME SetupInv, NEW f, NEW x, Opened(f, x), entries' = entries,
         FlowShape(x), x.step # "confirmAddress" => FlowUid(x),
         \A e \in Configured : x.step # "confirmAddress" => entries[e].uid # x.uid
  PROVE  SetupResult
BY DEF Opened, SetupInv, SetupShape, OpenFlows, EntryIds, Configured, UidsApart,
              SetupResult, EntriesStay, HostsProven

LEMMA FlowGoesOn ==
  ASSUME SetupInv, NEW f \in OpenFlows, NEW x, Advance(f, x),
         flows[f].step # "confirmAddress",
         x = [step |-> x.step, uid |-> flows[f].uid, host |-> flows[f].host,
              name |-> flows[f].name, entry |-> flows[f].entry, token |-> x.token],
         flows[f].step # "form"
  PROVE  SetupResult
<1>1. flows' = With(f, x) /\ entries' = entries
  BY DEF Advance
<1>2. x.uid = flows[f].uid /\ x.name = flows[f].name
  OBVIOUS
<1>3. FlowShape(x)
  BY DEF FlowShape
<1>4. FlowUid(flows[f])
  BY DEF SetupInv
<1>5. FlowUid(x)
  BY <1>2, <1>4 DEF FlowUid
<1>6. \A e \in Configured : entries[e].uid # x.uid
  BY <1>2 DEF SetupInv, UidsApart, Configured, OpenFlows, EntryIds
<1> QED
  BY <1>1, <1>3, <1>5, <1>6, FlowOpened, WithoutCloses

\* The entry a flow creates replaces none of an HCU.
LEMMA EntryCreated ==
  ASSUME SetupInv, NEW f \in OpenFlows, NEW uid,
         CreateEntry(f, flows[f], uid),
         \A e \in Configured : entries[e].uid # uid,
         flows[f].step # "confirmAddress",
         uid[1] = "hostname" => uid = <<"hostname", flows[f].name>> /\ flows[f].name \in Hcu,
         uid[1] = "device" => uid = <<"device", flows[f].token>>
  PROVE  SetupResult
<1> DEFINE same == {e \in EntryIds : entries[e].uid = uid}
           rest == EntryIds \ same
           new == NewId(rest)
           x == [uid |-> uid, host |-> flows[f].host, name |-> flows[f].name,
                 of |-> flows[f].token]
           gone == {f} \cup {g \in OpenFlows : flows[g].uid = uid}
<1>1. /\ entries' = [e \in rest \cup {new} |-> IF e \in rest THEN entries[e] ELSE x]
      /\ flows' = Without(gone)
  BY DEF CreateEntry
<1>2. x.uid = uid /\ EntryShape(x) /\ EntryUid(x)
  BY DEF EntryShape, EntryUid
<1>3. Configured \subseteq rest
  BY DEF Configured
<1>4. /\ OpenFlows' = OpenFlows \ gone
      /\ \A g \in OpenFlows' : flows'[g] = flows[g] /\ flows[g].uid # uid
  BY <1>1 DEF Without, OpenFlows
<1> HIDE DEF x, rest, gone, new
<1>5. /\ DOMAIN entries' = rest \cup {new} /\ rest \subseteq EntryIds
      /\ \A e \in rest : entries'[e] = entries[e]
      /\ new \notin rest => entries'[new] = x
  BY <1>1 DEF rest
<1>6. SetupShape'
  BY <1>2, <1>4, <1>5 DEF SetupInv, SetupShape, EntryIds, OpenFlows
<1>7. \A g \in OpenFlows' : flows'[g].step # "confirmAddress" => FlowUid(flows'[g])
  BY <1>4 DEF SetupInv
<1>8. \A e \in Configured' : EntryUid(entries'[e])
  BY <1>2, <1>5 DEF SetupInv, Configured, EntryIds
<1>9. UidsApart(flows', entries')
  BY <1>2, <1>4, <1>5 DEF SetupInv, UidsApart, EntryIds, OpenFlows
<1>10. EntriesStay /\ HostsProven
  BY <1>3, <1>5 DEF EntriesStay, HostsProven
<1> QED
  BY <1>6, <1>7, <1>8, <1>9, <1>10 DEF SetupResult, SetupInv

\* Entries get another host, or a name when they had none.
LEMMA EntriesUpdated ==
  ASSUME SetupInv, NEW fs, Closed(fs), DOMAIN entries' = EntryIds,
         \A e \in EntryIds :
           /\ EntryShape(entries'[e])
           /\ entries'[e].uid = entries[e].uid /\ entries'[e].of = entries[e].of
           /\ entries'[e].name # entries[e].name =>
                entries[e].of # Nothing /\ entries[e].name = Nothing,
         HostsProven
  PROVE  SetupResult
<1>1. /\ Configured' = Configured /\ EntryIds' = EntryIds
      /\ OpenFlows' = OpenFlows \ fs
      /\ \A g \in OpenFlows' : flows'[g] = flows[g]
  BY DEF Configured, EntryIds, Closed
<1>2. SetupShape'
  BY <1>1 DEF SetupInv, SetupShape
<1>3. \A g \in OpenFlows' : flows'[g].step # "confirmAddress" => FlowUid(flows'[g])
  BY <1>1 DEF SetupInv
<1>4. ASSUME NEW e \in Configured PROVE EntryUid(entries'[e])
  <2>1. EntryUid(entries[e]) /\ e \in EntryIds
    BY DEF SetupInv, Configured
  <2>2. CASE entries'[e].name = entries[e].name
    BY <2>1, <2>2 DEF EntryUid
  <2>3. CASE entries'[e].name # entries[e].name
    BY <2>1, <2>3, SetupAssumption DEF EntryUid
  <2> QED
    BY <2>2, <2>3
<1>5. UidsApart(flows', entries')
  BY <1>1 DEF SetupInv, UidsApart, EntryIds, OpenFlows
<1>6. EntriesStay
  BY <1>1 DEF EntriesStay, Configured, EntryIds
<1> QED
  BY <1>1, <1>2, <1>3, <1>4, <1>5, <1>6 DEF SetupResult, SetupInv

\* _abort_if_unique_id_configured changes a host at most.
LEMMA HostUpdated ==
  ASSUME SetupInv, NEW uid, NEW host, entries' = Updated(uid, host)
  PROVE  /\ DOMAIN entries' = EntryIds
         /\ \A e \in EntryIds :
              /\ EntryShape(entries'[e])
              /\ entries'[e].uid = entries[e].uid /\ entries'[e].of = entries[e].of
              /\ entries'[e].name = entries[e].name
              /\ entries'[e].host # entries[e].host =>
                   entries[e].uid = uid /\ entries'[e].host = host
<1>1. DOMAIN entries' = EntryIds
  BY DEF Updated
<1>2. ASSUME NEW e \in EntryIds
      PROVE  /\ EntryShape(entries'[e])
             /\ entries'[e].uid = entries[e].uid /\ entries'[e].of = entries[e].of
             /\ entries'[e].name = entries[e].name
             /\ entries'[e].host # entries[e].host =>
                  entries[e].uid = uid /\ entries'[e].host = host
  <2> DEFINE x == entries[e]
             y == [uid |-> x.uid, host |-> host, name |-> x.name, of |-> x.of]
  <2>1. EntryShape(x)
    BY DEF SetupInv, SetupShape
  <2>2. [x EXCEPT !.host = host] = y
    BY <2>1, HostReplaced
  <2>3. entries'[e] = IF x.uid = uid THEN y ELSE x
    BY <2>2 DEF Updated
  <2>4. /\ EntryShape(y) /\ y.uid = x.uid /\ y.of = x.of /\ y.name = x.name
        /\ y.host = host
    BY DEF EntryShape
  <2> HIDE DEF y
  <2> QED
    BY <2>1, <2>3, <2>4
<1> QED
  BY <1>1, <1>2

LEMMA UserOpens ==
  ASSUME SetupInv, NEW f, NEW host, User(f, host) PROVE SetupResult
<1> DEFINE x == NewFlow("mode", Uid("host", host), host, Nothing, Nothing)
<1>1. flows' = With(f, x) /\ entries' = entries /\ ~HasEntry(Uid("host", host))
  BY DEF User
<1>2. x.uid = <<"host", host>> /\ x.step = "mode" /\ FlowShape(x)
  BY DEF NewFlow, FlowShape, Uid
<1> HIDE DEF x
<1>3. FlowUid(x)
  BY <1>2 DEF FlowUid
<1>4. \A e \in Configured : entries[e].uid # x.uid
  BY <1>1, <1>2 DEF HasEntry, Configured, Uid
<1> QED
  BY <1>1, <1>2, <1>3, <1>4, FlowOpened, WithoutCloses

LEMMA DiscoveryOpens ==
  ASSUME SetupInv, NEW f, NEW h \in Hcu, DiscoverNew(f, h) PROVE SetupResult
<1> DEFINE uid == Uid("hostname", h)
           x == NewFlow("mode", uid, at[h], h, Nothing)
<1>1. KnownEntries(h, at[h]) = {} /\ at' = at
  BY DEF DiscoverNew
<1>2. CASE ~HasEntry(uid) /\ flows' = With(f, x) /\ entries' = entries
  <2>1. x.uid = <<"hostname", h>> /\ x.name = h /\ x.step = "mode" /\ FlowShape(x)
    BY DEF NewFlow, FlowShape, Uid
  <2> HIDE DEF x
  <2>2. FlowUid(x)
    BY <2>1 DEF FlowUid
  <2>3. \A e \in Configured : entries[e].uid # x.uid
    BY <1>2, <2>1 DEF HasEntry, Configured, Uid
  <2> QED
    BY <1>2, <2>1, <2>2, <2>3, FlowOpened, WithoutCloses
<1>3. CASE entries' = Updated(uid, at[h]) /\ flows' = flows
  <2>1. \A e \in Configured : entries[e].uid # uid
    <3>1. SUFFICES ASSUME NEW e \in Configured, entries[e].uid = uid PROVE FALSE
      OBVIOUS
    <3>2. entries[e].name = h
      BY <3>1 DEF SetupInv, EntryUid, Uid
    <3> QED
      BY <1>1, <3>2 DEF KnownEntries
  <2>2. /\ DOMAIN entries' = EntryIds
        /\ \A e \in EntryIds :
             /\ EntryShape(entries'[e])
             /\ entries'[e].uid = entries[e].uid /\ entries'[e].of = entries[e].of
             /\ entries'[e].name = entries[e].name
             /\ entries'[e].host # entries[e].host => entries[e].uid = uid
    BY <1>3, HostUpdated
  <2>3. HostsProven
    BY <2>1, <2>2 DEF HostsProven, Configured
  <2>4. Closed({})
    BY <1>3, WithoutCloses
  <2> QED
    BY <2>2, <2>3, <2>4, EntriesUpdated, WithoutCloses
<1> QED
  BY <1>2, <1>3 DEF DiscoverNew

LEMMA MoveAsked ==
  ASSUME SetupInv, NEW f, NEW h \in Hcu, DiscoverMoved(f, h) PROVE SetupResult
<1>1. PICK e : flows' = With(f, NewFlow("confirmAddress", Uid("hostname", h), at[h], h, e))
               /\ entries' = entries
  BY DEF DiscoverMoved
<1> DEFINE x == NewFlow("confirmAddress", Uid("hostname", h), at[h], h, e)
<1>2. FlowShape(x) /\ x.step = "confirmAddress"
  BY DEF NewFlow, FlowShape
<1> HIDE DEF x
<1> QED
  BY <1>1, <1>2, FlowOpened, WithoutCloses DEF x

LEMMA FoundInPlace ==
  ASSUME SetupInv, NEW h \in Hcu, DiscoverInPlace(h) PROVE SetupResult
<1>1. PICK e \in KnownEntries(h, at[h]) :
        /\ entries[e].host = at[h] /\ entries[e].name # h
        /\ entries' = [entries EXCEPT ![e].name = h]
        /\ flows' = flows
  BY DEF DiscoverInPlace
<1>2. e \in Configured /\ entries[e].name = Nothing
  BY <1>1 DEF KnownEntries
<1>3. /\ DOMAIN entries' = EntryIds
      /\ \A d \in EntryIds :
           /\ EntryShape(entries'[d])
           /\ entries'[d].uid = entries[d].uid /\ entries'[d].of = entries[d].of
           /\ entries'[d].host = entries[d].host
           /\ entries'[d].name # entries[d].name => d = e
  BY <1>1 DEF SetupInv, SetupShape, EntryIds, EntryShape
<1>4. Closed({})
  BY <1>1, WithoutCloses
<1>5. HostsProven
  BY <1>3 DEF HostsProven, Configured
<1> QED
  BY <1>2, <1>3, <1>4, <1>5, EntriesUpdated DEF Configured

LEMMA AddressConfirmed ==
  ASSUME SetupInv, NEW f, ConfirmNewAddress(f) PROVE SetupResult
<1>1. /\ f \in OpenFlows /\ flows[f].step = "confirmAddress"
      /\ entries' = [e \in EntryIds |-> IF e = flows[f].entry
                                       THEN [entries[e] EXCEPT !.host = flows[f].host]
                                       ELSE entries[e]]
      /\ flows' = Without({f})
  BY DEF ConfirmNewAddress
<1>2. /\ DOMAIN entries' = EntryIds
      /\ \A e \in EntryIds :
           /\ EntryShape(entries'[e])
           /\ entries'[e].uid = entries[e].uid /\ entries'[e].of = entries[e].of
           /\ entries'[e].name = entries[e].name
           /\ entries'[e].host # entries[e].host => e = flows[f].entry
  <2>1. DOMAIN entries' = EntryIds
    BY <1>1
  <2>2. ASSUME NEW e \in EntryIds
        PROVE  /\ EntryShape(entries'[e])
               /\ entries'[e].uid = entries[e].uid /\ entries'[e].of = entries[e].of
               /\ entries'[e].name = entries[e].name
               /\ entries'[e].host # entries[e].host => e = flows[f].entry
    <3> DEFINE x == entries[e]
               y == [uid |-> x.uid, host |-> flows[f].host, name |-> x.name, of |-> x.of]
    <3>1. EntryShape(x)
      BY DEF SetupInv, SetupShape
    <3>2. [x EXCEPT !.host = flows[f].host] = y
      BY <3>1, HostReplaced
    <3>3. entries'[e] = IF e = flows[f].entry THEN y ELSE x
      BY <1>1, <3>2
    <3>4. EntryShape(y) /\ y.uid = x.uid /\ y.of = x.of /\ y.name = x.name
      BY DEF EntryShape
    <3> HIDE DEF y
    <3> QED
      BY <3>1, <3>3, <3>4
  <2> QED
    BY <2>1, <2>2
<1>3. HostsProven
  BY <1>1, <1>2 DEF HostsProven, Configured
<1> QED
  BY <1>1, <1>2, <1>3, EntriesUpdated, WithoutCloses

LEMMA HcuRead ==
  ASSUME SetupInv, NEW f, Read(f) PROVE SetupResult
<1> DEFINE h == flows[f].token
           uid == Uid("device", h)
<1>1. /\ f \in OpenFlows /\ flows[f].step \in {"oems", "form"}
      /\ h \in HcuAt(flows[f].host) /\ at' = at
  BY DEF Read
<1>2. uid = <<"device", h>>
  BY DEF Uid
<1>3. CASE HasEntry(uid) /\ entries' = Updated(uid, flows[f].host) /\ flows' = Without({f})
  <2>1. /\ DOMAIN entries' = EntryIds
        /\ \A e \in EntryIds :
             /\ EntryShape(entries'[e])
             /\ entries'[e].uid = entries[e].uid /\ entries'[e].of = entries[e].of
             /\ entries'[e].name = entries[e].name
             /\ entries'[e].host # entries[e].host =>
                  entries[e].uid = uid /\ entries'[e].host = flows[f].host
    BY <1>3, HostUpdated
  <2>2. \A e \in Configured : entries[e].uid = uid => entries[e].of = h
    BY <1>2 DEF SetupInv, EntryUid
  <2>3. HostsProven
    BY <1>1, <2>1, <2>2 DEF HostsProven, Configured
  <2> QED
    BY <1>3, <2>1, <2>3, EntriesUpdated, WithoutCloses
<1>4. CASE ~HasEntry(uid) /\ CreateEntry(f, flows[f], uid)
  <2>1. \A e \in Configured : entries[e].uid # uid
    BY <1>4 DEF HasEntry, Configured
  <2> QED
    BY <1>1, <1>2, <1>4, <2>1, EntryCreated
<1>5. CASE /\ ~HasEntry(uid) /\ entries' = entries
           /\ flows' = [flows EXCEPT ![f].step = "form", ![f].uid = uid]
  <2> DEFINE x == [step |-> "form", uid |-> uid, host |-> flows[f].host,
                   name |-> flows[f].name, entry |-> flows[f].entry, token |-> h]
  <2>1. Opened(f, x)
    <3>1. FlowShape(flows[f])
      BY <1>1 DEF SetupInv, SetupShape
    <3>2. [flows[f] EXCEPT !.step = "form", !.uid = uid] = x
      BY <3>1, FlowReplaced
    <3>3. flows' = [flows EXCEPT ![f] = [flows[f] EXCEPT !.step = "form", !.uid = uid]]
      BY <1>5
    <3> HIDE DEF x
    <3> QED
      BY <1>1, <3>2, <3>3 DEF Opened, OpenFlows
  <2>2. x.uid = uid /\ x.token = h /\ x.step = "form" /\ FlowShape(x)
    BY DEF FlowShape
  <2> HIDE DEF x
  <2>3. FlowUid(x)
    BY <1>2, <2>2 DEF FlowUid
  <2>4. \A e \in Configured : entries[e].uid # x.uid
    BY <1>5, <2>2 DEF HasEntry, Configured
  <2> QED
    BY <1>5, <2>1, <2>2, <2>3, <2>4, FlowOpened, WithoutCloses
<1> QED
  BY <1>3, <1>4, <1>5 DEF Read

LEMMA CreatedUnread ==
  ASSUME SetupInv, NEW f, CreateUnread(f) PROVE SetupResult
<1>1. /\ f \in OpenFlows /\ flows[f].step # "confirmAddress"
      /\ CreateEntry(f, flows[f], flows[f].uid)
  BY DEF CreateUnread
<1>2. FlowUid(flows[f]) /\ \A e \in Configured : entries[e].uid # flows[f].uid
  BY <1>1 DEF SetupInv, UidsApart, Configured, OpenFlows, EntryIds
<1> QED
  BY <1>1, <1>2, EntryCreated DEF FlowUid

LEMMA Authorizes ==
  ASSUME SetupInv, NEW f,
         AppAuthorized(f) \/ PluginAuthorized(f)
           \/ (\E app, plugin \in BOOLEAN : ChooseMode(f, app, plugin))
  PROVE  SetupResult
<1>1. PICK s, t :
        /\ f \in OpenFlows /\ flows[f].step \in {"mode", "app", "both", "auth"}
        /\ Advance(f, [flows[f] EXCEPT !.step = s, !.token = t])
  <2>1. CASE AppAuthorized(f)
    <3>1. PICK h \in HcuAt(flows[f].host) :
            Advance(f, [flows[f] EXCEPT !.token = h,
                                        !.step = IF @ = "both" THEN "auth" ELSE "oems"])
      BY <2>1 DEF AppAuthorized
    <3>2. f \in OpenFlows /\ flows[f].step \in {"app", "both"}
      BY <2>1 DEF AppAuthorized, At
    <3>3. [flows[f] EXCEPT !.token = h, !.step = IF @ = "both" THEN "auth" ELSE "oems"] =
          [flows[f] EXCEPT !.step = IF flows[f].step = "both" THEN "auth" ELSE "oems",
                           !.token = h]
      BY <3>2 DEF SetupInv, SetupShape, FlowShape
    <3> QED
      BY <3>1, <3>2, <3>3
  <2>2. CASE PluginAuthorized(f)
    <3>1. PICK h \in HcuAt(flows[f].host) :
            Advance(f, [flows[f] EXCEPT !.token = IF @ = Nothing THEN h ELSE @,
                                        !.step = "oems"])
      BY <2>2 DEF PluginAuthorized
    <3>2. f \in OpenFlows /\ flows[f].step = "auth"
      BY <2>2 DEF PluginAuthorized, At
    <3>3. [flows[f] EXCEPT !.token = IF @ = Nothing THEN h ELSE @, !.step = "oems"] =
          [flows[f] EXCEPT !.step = "oems",
                           !.token = IF flows[f].token = Nothing THEN h ELSE flows[f].token]
      BY <3>2 DEF SetupInv, SetupShape, FlowShape
    <3> QED
      BY <3>1, <3>2, <3>3
  <2>3. CASE \E app, plugin \in BOOLEAN : ChooseMode(f, app, plugin)
    <3>1. PICK app, plugin \in BOOLEAN :
            At(f, "mode") /\ Advance(f, [flows[f] EXCEPT
              !.step = IF app /\ plugin THEN "both" ELSE IF app THEN "app" ELSE "auth"])
      BY <2>3 DEF ChooseMode
    <3> DEFINE s == IF app /\ plugin THEN "both" ELSE IF app THEN "app" ELSE "auth"
    <3>2. f \in OpenFlows /\ flows[f].step = "mode"
      BY <3>1 DEF At
    <3>3. Advance(f, [flows[f] EXCEPT !.step = s])
      BY <3>1
    <3> HIDE DEF s
    <3>4. [flows[f] EXCEPT !.step = s] =
          [flows[f] EXCEPT !.step = s, !.token = flows[f].token]
      BY <3>2 DEF SetupInv, SetupShape, FlowShape
    <3> QED
      BY <3>2, <3>3, <3>4
  <2> QED
    BY <2>1, <2>2, <2>3
<1> DEFINE x == [flows[f] EXCEPT !.step = s, !.token = t]
<1>2. x = [step |-> s, uid |-> flows[f].uid, host |-> flows[f].host,
           name |-> flows[f].name, entry |-> flows[f].entry, token |-> t]
  <2>1. FlowShape(flows[f])
    BY <1>1 DEF SetupInv, SetupShape
  <2> QED
    BY <2>1, FlowReplaced
<1>3. x.step = s /\ x.token = t
  BY <1>2
<1>4. Advance(f, x)
  BY <1>1
<1> HIDE DEF x
<1> QED
  BY <1>1, <1>2, <1>3, <1>4, FlowGoesOn

LEMMA Ignored ==
  ASSUME SetupInv, NEW f, Ignore(f) PROVE SetupResult
<1> DEFINE new == NewId(EntryIds)
           x == [uid |-> flows[f].uid, host |-> Nothing, name |-> Nothing, of |-> Nothing]
<1>1. /\ entries' = [e \in EntryIds \cup {new} |-> IF e \in EntryIds THEN entries[e] ELSE x]
      /\ flows' = Without({f})
  BY DEF Ignore
<1>2. x.of = Nothing /\ EntryShape(x)
  BY DEF EntryShape
<1> HIDE DEF new, x
<1>3. /\ DOMAIN entries' = EntryIds \cup {new}
      /\ \A e \in EntryIds : entries'[e] = entries[e]
      /\ new \notin EntryIds => entries'[new] = x
  BY <1>1
<1>4. /\ OpenFlows' = OpenFlows \ {f}
      /\ \A g \in OpenFlows' : flows'[g] = flows[g]
  BY <1>1 DEF Without, OpenFlows
<1>5. SetupShape'
  BY <1>2, <1>3, <1>4 DEF SetupInv, SetupShape, EntryIds
<1>6. Configured' = Configured
  BY <1>2, <1>3 DEF Configured, EntryIds
<1>7. \A e \in Configured' : EntryUid(entries'[e])
  BY <1>3, <1>6 DEF SetupInv, Configured
<1>8. \A g \in OpenFlows' : flows'[g].step # "confirmAddress" => FlowUid(flows'[g])
  BY <1>4 DEF SetupInv
<1>9. UidsApart(flows', entries')
  BY <1>2, <1>3, <1>4 DEF SetupInv, UidsApart, EntryIds, OpenFlows
<1>10. EntriesStay /\ HostsProven
  BY <1>3 DEF EntriesStay, HostsProven, Configured
<1> QED
  BY <1>5, <1>7, <1>8, <1>9, <1>10 DEF SetupResult, SetupInv

LEMMA SetupStep ==
  ASSUME SetupInv, [SetupNext]_setupVars PROVE SetupResult
<1>1. ASSUME entries' = entries, flows' = flows PROVE SetupResult
  <2>1. Closed({})
    BY <1>1, WithoutCloses
  <2> QED
    BY <1>1, <2>1, FlowsClosed
<1>2. ASSUME NEW f \in SetupDialog, CloseSetup(f) PROVE SetupResult
  BY <1>2, FlowsClosed, WithoutCloses DEF CloseSetup
<1>3. ASSUME NEW h \in Hcu, NEW addr \in Addr, Move(h, addr) PROVE SetupResult
  BY <1>1, <1>3 DEF Move
<1>4. CASE UNCHANGED setupVars
  BY <1>1, <1>4 DEF setupVars
<1> QED
  BY <1>2, <1>3, <1>4, Authorizes, CreatedUnread, HcuRead, AddressConfirmed, Ignored,
     UserOpens, DiscoveryOpens, MoveAsked, FoundInPlace DEF SetupNext


LEMMA SetupInvAlways == SetupSpec => []SetupInv
<1>1. SetupInit => SetupInv
  BY DEF SetupInit, SetupInv, SetupShape, EntryIds, OpenFlows, Configured, UidsApart
<1> QED
  BY <1>1, SetupStep, PTL DEF SetupSpec, SetupResult

\* For any number of dialogs and HCUs: an entry stays, of its HCU, and a name it
\* learned is never exchanged, while flows by address and by discovery overlap and
\* HCUs swap their addresses under them (HcuConfigFlow).
THEOREM HcusStay == SetupSpec => EntriesKeepTheirHcu
<1>1. SetupInv /\ [SetupNext]_setupVars =>
        [\A e \in Configured :
           /\ e \in DOMAIN entries' /\ entries'[e].of = entries[e].of
           /\ entries[e].name # Nothing => entries'[e].name = entries[e].name]_setupVars
  BY SetupStep DEF SetupResult, EntriesStay
<1> QED
  BY <1>1, SetupInvAlways, PTL DEF SetupSpec, EntriesKeepTheirHcu

\* For any number of dialogs and HCUs: a saved token is taken to another address only
\* when the user confirmed it or the HCU of the entry answered there (HcuConfigFlow).
THEOREM HostsAreProven == SetupSpec => AddressProven
<1>1. SetupInv /\ [SetupNext]_setupVars =>
        [\A e \in Configured \cap DOMAIN entries' :
           entries'[e].host # entries[e].host =>
             \/ \E f \in OpenFlows : flows[f].step = "confirmAddress" /\ flows[f].entry = e
             \/ entries[e].of \in HcuAt(entries'[e].host)]_setupVars
  BY SetupStep DEF SetupResult, HostsProven
<1> QED
  BY <1>1, SetupInvAlways, PTL DEF SetupSpec, AddressProven
=============================================================================
