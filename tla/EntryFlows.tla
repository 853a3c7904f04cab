----------------------------- MODULE EntryFlows -----------------------------
(***************************************************************************)
(* The dialogs that renew the authorization of an existing entry:          *)
(* reauthentication and reconfiguration (HcuConfigFlow).  A dialog works on*)
(* its own copy of the entry's data (_config_data) while other dialogs     *)
(* save the entry.  An action is what the flow does from one form, or one  *)
(* request to the HCU, to the next.                                        *)
(*   The address, which no authorization depends on, is left to SetupFlow. *)
(*   Tokens are numbered in the order in which the HCU issues them; 0 is   *)
(* none.  A plugin ID is 0 for PLUGIN_ID and the number of the token it    *)
(* was made for otherwise.                                                 *)
(***************************************************************************)
EXTENDS Naturals, Sequences

CONSTANTS Flow,       \* the dialogs, each opened at most once
          MaxTokens   \* bound on the tokens the HCU issues

VARIABLES
  data,      \* the data of the entry, and its developer mode option
  step,      \* where each dialog is; "new" and "gone" are not open
  draft,     \* _config_data; its mode "dual" is _is_dual_setup
  keep,      \* _keep_app_token and _keep_plugin_token, as a set
  obtained,  \* _app_new_token, or the plugin token being confirmed
  issued,    \* history: the plugin ID each token was issued for ("app" tokens 0)
  loose      \* history: the last save of a dialog kept a token that was not there

flowVars == <<data, step, draft, keep, obtained, issued, loose>>

Mode == {"app", "plugin", "dual"}
HasApp(mode) == mode \in {"app", "dual"}
HasPlugin(mode) == mode \in {"plugin", "dual"}

\* A dialog that is not open.
NoDraft == [mode |-> "app", app |-> 0, plugin |-> 0, pluginId |-> 0]

\* The data of the entry, which a dialog copies.
CopyOf(e) == [k \in DOMAIN NoDraft |-> e[k]]

\* The data without the tokens of one kind.
WithoutApp(d) == [d EXCEPT !.app = 0]
WithoutPlugin(d) == [d EXCEPT !.plugin = 0]

\* The entry starts out with the tokens of its mode, issued for its plugin ID.
FlowsInit ==
  /\ data \in
       {[mode |-> m,
         app |-> IF HasApp(m) THEN 1 ELSE 0,
         plugin |-> IF HasPlugin(m) THEN 2 ELSE 0,
         pluginId |-> id, dev |-> dev] :
          m \in Mode, id \in {0, 2}, dev \in BOOLEAN}
  /\ issued = <<0, data.pluginId>>
  /\ step = [f \in Flow |-> "new"]
  /\ draft = [f \in Flow |-> NoDraft]
  /\ keep = [f \in Flow |-> {}]
  /\ obtained = [f \in Flow |-> 0]
  /\ loose = FALSE

-----------------------------------------------------------------------------
\* A dialog moves on without saving anything.
Goto(f, s) == step' = [step EXCEPT ![f] = s]
Drafted(f, d) == draft' = [draft EXCEPT ![f] = d]
NothingSaved == UNCHANGED <<data, loose>>

\* A dialog is over, and its flow object with it.
Gone(f) ==
  /\ Goto(f, "gone")
  /\ Drafted(f, NoDraft)
  /\ keep' = [keep EXCEPT ![f] = {}]
  /\ obtained' = [obtained EXCEPT ![f] = 0]

\* async_step_reauth, or async_step_reconfigure submitted with an address: the
\* dialog copies the data of the entry.
Open(f) ==
  /\ step[f] = "new"
  /\ Goto(f, "mode") /\ Drafted(f, CopyOf(data))
  /\ NothingSaved /\ UNCHANGED <<keep, obtained, issued>>

\* async_step_reconfigure_auth_type_selection without keep_tokens ...
ForgetTokens(f, mode) ==
  /\ step[f] = "mode"
  /\ Drafted(f, [WithoutApp(WithoutPlugin(draft[f])) EXCEPT !.mode = mode])
  /\ keep' = [keep EXCEPT ![f] = {}]
  /\ Goto(f, IF HasApp(mode) THEN "appInit" ELSE "plugin")
  /\ NothingSaved /\ UNCHANGED <<obtained, issued>>

\* ... and with it.
KeepTokens(f, mode) ==
  /\ step[f] = "mode"
  /\ Drafted(f, [draft[f] EXCEPT !.mode = mode])
  /\ Goto(f, "options")
  /\ NothingSaved /\ UNCHANGED <<keep, obtained, issued>>

\* _update_entry_and_reload_if_needed: the dialog ends with the data d, in which
\* it kept the tokens of the kinds in kept.
Finish(f, d, kept) ==
  /\ data' = [k \in DOMAIN data |-> IF k = "dev" THEN data.dev ELSE d[k]]
  /\ Gone(f)
  /\ loose' = \/ "app" \in kept /\ d.app = 0
              \/ "plugin" \in kept /\ d.plugin = 0

\* async_step_reconfigure_token_options: the tokens of the kinds in refresh are
\* fetched again, the others kept.
SubmitOptions(f, refresh) ==
  LET mode == draft[f].mode
      needed == {k \in {"app", "plugin"} :
                   IF k = "app" THEN HasApp(mode) ELSE HasPlugin(mode)}
      d1 == IF HasApp(mode) THEN draft[f] ELSE WithoutApp(draft[f])
      d2 == IF HasPlugin(mode) THEN d1 ELSE WithoutPlugin(d1)
  IN  /\ step[f] = "options" /\ refresh \subseteq needed
      /\ issued' = issued
      /\ \/ refresh # {} /\ NothingSaved
            /\ keep' = [keep EXCEPT ![f] = needed \ refresh]
            /\ Goto(f, IF "app" \in refresh THEN "appInit" ELSE "plugin")
            /\ Drafted(f, d2) /\ obtained' = obtained
         \/ refresh = {} /\ Finish(f, d2, needed)

-----------------------------------------------------------------------------
\* App User: connectionRequest is accepted, and _wait_for_button is started; a
\* refused request shows the form again.
RequestConnection(f) ==
  /\ step[f] = "appInit"
  /\ Goto(f, "button")
  /\ NothingSaved /\ UNCHANGED <<draft, keep, obtained, issued>>

\* _wait_for_button: the button was pressed (isRequestAcknowledged), ...
ButtonPressed(f) ==
  /\ step[f] = "button"
  /\ Goto(f, "acknowledged")
  /\ NothingSaved /\ UNCHANGED <<draft, keep, obtained, issued>>

\* ... the HCU issues a token (requestAuthToken) ...
IssueAppToken(f) ==
  /\ step[f] = "acknowledged" /\ Len(issued) < MaxTokens
  /\ issued' = Append(issued, 0)
  /\ obtained' = [obtained EXCEPT ![f] = Len(issued')]
  /\ Goto(f, "unconfirmed")
  /\ NothingSaved /\ UNCHANGED <<draft, keep>>

\* ... and confirms it (confirmAuthToken).
ConfirmAppToken(f) ==
  /\ step[f] = "unconfirmed"
  /\ Goto(f, "pressed")
  /\ NothingSaved /\ UNCHANGED <<draft, keep, obtained, issued>>

\* Not pressed in time, or a request failed: reconfigure_button_timeout.
ButtonTimeout(f) ==
  /\ step[f] \in {"button", "acknowledged", "unconfirmed"}
  /\ Gone(f)
  /\ NothingSaved /\ UNCHANGED issued

\* Mutant: the plugin token stays whatever the new mode is.
AppDataKeeping(f) ==
  [data EXCEPT !.app = obtained[f],
                !.mode = IF draft[f].mode = "dual" THEN "dual" ELSE "app"]

\* async_step_reconfigure_app_auth_finalize: the data is built from the entry as
\* it is now.
AppData(f) ==
  LET isDual == draft[f].mode = "dual"
  IN  [data EXCEPT !.app = obtained[f],
                    !.mode = IF isDual THEN "dual" ELSE "app",
                    !.plugin = IF isDual /\ "plugin" \in keep[f] THEN @ ELSE 0]

\* async_step_reconfigure_app_auth_confirm, once the button was pressed.
AppConfirmed(f) ==
  LET pluginNext == draft[f].mode = "dual" /\ "plugin" \notin keep[f]
  IN  /\ step[f] = "pressed"
      /\ issued' = issued
      /\ \/ pluginNext /\ Goto(f, "plugin") /\ NothingSaved
            /\ Drafted(f, [draft[f] EXCEPT !.app = obtained[f]])
            /\ UNCHANGED <<keep, obtained>>
         \/ ~pluginNext /\ Finish(f, AppData(f), keep[f])

\* The plugin ID a new authorization uses: one of its own in developer mode.
NewPluginId(f) == IF data.dev THEN Len(issued) + 1 ELSE 0

\* async_step_reconfigure_auth: the HCU issues a token for an activation key ...
RequestPluginToken(f) ==
  /\ step[f] = "plugin" /\ Len(issued) < MaxTokens
  /\ Drafted(f, [draft[f] EXCEPT !.pluginId = NewPluginId(f)])
  /\ issued' = Append(issued, IF data.dev THEN Len(issued) + 1 ELSE 0)
  /\ obtained' = [obtained EXCEPT ![f] = Len(issued')]
  /\ Goto(f, "confirming")
  /\ NothingSaved /\ UNCHANGED keep

\* The data after a plugin authorization, built from the entry as it is now.
PluginData(f) ==
  LET isDual == draft[f].mode = "dual"
  IN  [data EXCEPT !.plugin = obtained[f],
                    !.pluginId = draft[f].pluginId,
                    !.mode = IF isDual THEN "dual" ELSE "plugin",
                    !.app = IF isDual THEN draft[f].app ELSE 0]

\* ... and confirms it ...
PluginConfirmed(f) ==
  /\ step[f] = "confirming"
  /\ issued' = issued
  /\ Finish(f, PluginData(f), keep[f])

\* ... or does not, and the form is shown again.
PluginFails(f) ==
  /\ step[f] = "confirming"
  /\ Goto(f, "plugin")
  /\ NothingSaved /\ UNCHANGED <<draft, keep, obtained, issued>>

\* The user closes the dialog; a running _confirm_task is cancelled.
Close(f) ==
  /\ step[f] \notin {"new", "gone"}
  /\ Gone(f)
  /\ NothingSaved /\ UNCHANGED issued

-----------------------------------------------------------------------------
FlowsNext ==
  \/ \E f \in Flow :
       \/ Open(f) \/ RequestConnection(f) \/ ButtonPressed(f) \/ IssueAppToken(f)
       \/ ConfirmAppToken(f) \/ ButtonTimeout(f)
       \/ AppConfirmed(f) \/ RequestPluginToken(f) \/ PluginConfirmed(f)
       \/ PluginFails(f) \/ Close(f)
       \/ \E mode \in Mode : ForgetTokens(f, mode) \/ KeepTokens(f, mode)
       \/ \E refresh \in SUBSET {"app", "plugin"} : SubmitOptions(f, refresh)

FlowsSpec == FlowsInit /\ [][FlowsNext]_flowVars

-----------------------------------------------------------------------------
\* The credentials of the entry fit together: the plugin token was issued for
\* the plugin ID the next setup will use, and the entry holds a token exactly
\* for the connections of its mode.  Several dialogs, each with a copy of its
\* own, change the mode, drop tokens and fetch new ones; a dialog may end
\* anywhere, and others may save in between.  Left out of the second part are
\* tokens the user kept although they were not there.
CredentialsFit ==
  /\ data.plugin # 0 => issued[data.plugin] = data.pluginId
  /\ ~loose => /\ data.app # 0 <=> HasApp(data.mode)
               /\ data.plugin # 0 <=> HasPlugin(data.mode)
=============================================================================
