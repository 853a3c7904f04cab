----------------------------- MODULE SetupFlow -----------------------------
(***************************************************************************)
(* How entries come into being (HcuConfigFlow): an HCU is discovered by    *)
(* zeroconf or added by its address, the user authorizes the integration,  *)
(* and the HCU is read to learn its ID.  HCUs move to other addresses      *)
(* meanwhile, also to each other's, and a new address of a known HCU is    *)
(* taken over once the user confirms it.                                   *)
(*   Home Assistant aborts a flow whose unique ID another open flow has    *)
(* (unless the flow says otherwise), aborts the others when a flow creates *)
(* its entry, and lets that entry replace one with the same unique ID.     *)
(***************************************************************************)
EXTENDS Naturals

CONSTANTS Hcu,        \* the HCUs; also their names, hostnames and device IDs
          Addr,       \* addresses
          EntryId,    \* bound on the entries
          SetupDialog, \* the flows that may be open at once
          MaxMoves    \* bound on the changes of address

VARIABLES
  at,       \* at[h]: the address of an HCU
  entries,  \* the entries that exist: a function from some EntryIds; one that
            \* stands for an ignored discovery is of no HCU (of = "none")
  flows,    \* the open flows: a function from some dialogs
  moves     \* how often an HCU changed its address

setupVars == <<at, entries, flows, moves>>

Nothing == "none"

ASSUME SetupAssumption == Nothing \notin Hcu

\* What a flow starts with.  Its token is the HCU that issued the token the state
\* is read with: the App User's if there is one.
NewFlow(first, uid, host, name, known) ==
  [step |-> first, uid |-> uid, host |-> host, name |-> name, entry |-> known,
   token |-> Nothing]

\* Unique IDs: an address, the hostname of an HCU, or its device ID.
Uid(kind, of) == <<kind, of>>

EntryIds == DOMAIN entries
Configured == {e \in EntryIds : entries[e].of # Nothing}
OpenFlows == DOMAIN flows
HcuAt(host) == {h \in Hcu : at[h] = host}

SetupInit ==
  /\ at \in [Hcu -> Addr] /\ \A g, h \in Hcu : at[g] = at[h] => g = h
  /\ entries = [e \in {} |-> Nothing]
  /\ flows = [f \in {} |-> Nothing]
  /\ moves = 0

-----------------------------------------------------------------------------
\* Home Assistant's parts.
HasEntry(uid) == \E e \in EntryIds : entries[e].uid = uid
InProgress(f, uid) == \E g \in OpenFlows \ {f} : flows[g].uid = uid
Without(fs) == [g \in OpenFlows \ fs |-> flows[g]]
With(f, flow) == [g \in OpenFlows \cup {f} |-> IF g = f THEN flow ELSE flows[g]]

\* _abort_if_unique_id_configured: the entry with this unique ID gets the host.
Updated(uid, host) ==
  [e \in EntryIds |-> IF entries[e].uid = uid THEN [entries[e] EXCEPT !.host = host]
                      ELSE entries[e]]

\* An ID no entry has.
NewId(used_) == CHOOSE e \in EntryId \ used_ : TRUE

\* The user ignores a discovered HCU: an entry with the unique ID only.
Ignore(f) ==
  /\ f \in OpenFlows /\ flows[f].uid[1] = "hostname" /\ ~HasEntry(flows[f].uid)
  /\ EntryIds # EntryId
  /\ entries' = [x \in EntryIds \cup {NewId(EntryIds)} |->
       IF x \in EntryIds THEN entries[x]
       ELSE [uid |-> flows[f].uid, host |-> Nothing, name |-> Nothing, of |-> Nothing]]
  /\ flows' = Without({f})
  /\ UNCHANGED <<at, moves>>

\* async_create_entry
CreateEntry(f, flow, uid) ==
  LET same == {e \in EntryIds : entries[e].uid = uid}
      rest == EntryIds \ same
  IN  /\ rest # EntryId
      /\ entries' = [x \in rest \cup {NewId(rest)} |->
             IF x \in rest THEN entries[x]
             ELSE [uid |-> uid, host |-> flow.host, name |-> flow.name, of |-> flow.token]]
      /\ flows' = Without({f} \cup {g \in OpenFlows : flows[g].uid = uid})

-----------------------------------------------------------------------------
\* async_step_user: the address host is entered.
User(f, host) ==
  LET uid == Uid("host", host)
  IN  /\ f \notin OpenFlows
      /\ ~InProgress(f, uid) /\ ~HasEntry(uid)
      /\ flows' = With(f, NewFlow("mode", uid, host, Nothing, Nothing))
      /\ UNCHANGED <<at, entries, moves>>

\* _async_entry_for_discovered_hcu: the entries the discovered HCU may be.
KnownEntries(name, host) ==
  LET named == {e \in Configured : entries[e].name = name}
  IN  IF named # {} THEN named
      ELSE {e \in Configured : entries[e].name = Nothing /\ entries[e].host = host}

\* async_step_zeroconf for an HCU no entry is known for.
DiscoverNew(f, h) ==
  LET uid == Uid("hostname", h)
  IN  /\ f \notin OpenFlows
      /\ KnownEntries(h, at[h]) = {} /\ ~InProgress(f, uid)
      /\ \/ HasEntry(uid) /\ entries' = Updated(uid, at[h]) /\ flows' = flows
         \/ ~HasEntry(uid)
            /\ flows' = With(f, NewFlow("mode", uid, at[h], h, Nothing))
            /\ entries' = entries
      /\ UNCHANGED <<at, moves>>

\* _async_store_zeroconf_name: a known HCU at its address.
DiscoverInPlace(h) ==
  \E e \in KnownEntries(h, at[h]) :
    /\ entries[e].host = at[h] /\ entries[e].name # h
    /\ entries' = [entries EXCEPT ![e].name = h]
    /\ UNCHANGED <<at, flows, moves>>

\* Mutant: the new address is taken over without asking.
DiscoverMovedUnasked(f, h) ==
  \E e \in KnownEntries(h, at[h]) :
    /\ f \notin OpenFlows
    /\ entries[e].host # at[h]
    /\ entries' = [entries EXCEPT ![e].host = at[h]]
    /\ UNCHANGED <<at, flows, moves>>

\* A known HCU at a new address: the user is asked (async_step_confirm_new_address).
DiscoverMoved(f, h) ==
  LET uid == Uid("hostname", h)
  IN  \E e \in KnownEntries(h, at[h]) :
        /\ f \notin OpenFlows
        /\ entries[e].host # at[h]
        /\ ~InProgress(f, uid)
        /\ \A d \in EntryIds : entries[d].uid = uid => d = e
        /\ flows' = With(f, NewFlow("confirmAddress", uid, at[h], h, e))
        /\ UNCHANGED <<at, entries, moves>>

\* The user confirms the address; the entry may be gone.
ConfirmNewAddress(f) ==
  /\ f \in OpenFlows /\ flows[f].step = "confirmAddress"
  /\ entries' = [e \in EntryIds |-> IF e = flows[f].entry
                                   THEN [entries[e] EXCEPT !.host = flows[f].host]
                                   ELSE entries[e]]
  /\ flows' = Without({f})
  /\ UNCHANGED <<at, moves>>

-----------------------------------------------------------------------------
\* A flow moves on without touching an entry.
Advance(f, flow) ==
  /\ flows' = With(f, flow)
  /\ UNCHANGED <<at, entries, moves>>
At(f, s) == f \in OpenFlows /\ flows[f].step = s

\* async_step_confirm and async_step_auth_type_selection: at least one connection
\* is chosen.
ChooseMode(f, app, plugin) ==
  /\ At(f, "mode") /\ (app \/ plugin)
  /\ Advance(f, [flows[f] EXCEPT !.step = IF app /\ plugin THEN "both"
                                          ELSE IF app THEN "app" ELSE "auth"])

\* async_step_app_auth_init and async_step_app_auth_confirm: the HCU that has the
\* address accepts the connectionRequest, its button is pressed and it issues the
\* token.
AppAuthorized(f) ==
  /\ At(f, "app") \/ At(f, "both")
  /\ \E h \in HcuAt(flows[f].host) :
       Advance(f, [flows[f] EXCEPT !.token = h,
                                   !.step = IF @ = "both" THEN "auth" ELSE "oems"])

\* async_step_auth: the activation key was accepted.
PluginAuthorized(f) ==
  /\ At(f, "auth")
  /\ \E h \in HcuAt(flows[f].host) :
       Advance(f, [flows[f] EXCEPT !.token = IF @ = Nothing THEN h ELSE @,
                                   !.step = "oems"])

\* async_step_select_oems without an answer: the entry is created without it.
CreateUnread(f) ==
  /\ f \in OpenFlows /\ flows[f].step \in {"oems", "form"}
  /\ CreateEntry(f, flows[f], flows[f].uid)
  /\ UNCHANGED <<at, moves>>

\* Mutant: the unique ID is checked before the form is shown only.
ReadUnchecked(f) ==
  LET flow == flows[f]
      h == flow.token
      uid == Uid("device", h)
  IN  /\ f \in OpenFlows /\ flow.step \in {"oems", "form"}
      /\ h \in HcuAt(flow.host)
      /\ \/ CreateEntry(f, flow, uid)
         \/ /\ flow.step = "oems"
            /\ flows' = [flows EXCEPT ![f].step = "form", ![f].uid = uid]
            /\ entries' = entries
      /\ UNCHANGED <<at, moves>>

\* async_step_select_oems: the HCU is read with the token, and its ID replaces
\* the provisional unique ID.  A known ID ends the flow; otherwise the entry is
\* created, or the form for third-party devices shown, which leads here again.
Read(f) ==
  LET flow == flows[f]
      h == flow.token
      uid == Uid("device", h)
  IN  /\ f \in OpenFlows /\ flow.step \in {"oems", "form"}
      /\ h \in HcuAt(flow.host)
      /\ \/ HasEntry(uid) /\ entries' = Updated(uid, flow.host) /\ flows' = Without({f})
         \/ ~HasEntry(uid) /\ CreateEntry(f, flow, uid)
         \/ /\ ~HasEntry(uid) /\ flow.step = "oems"
            /\ flows' = [flows EXCEPT ![f].step = "form", ![f].uid = uid]
            /\ entries' = entries
      /\ UNCHANGED <<at, moves>>

\* The user closes the dialog, or the button was not pressed (button_timeout).
CloseSetup(f) ==
  /\ f \in OpenFlows
  /\ flows' = Without({f})
  /\ UNCHANGED <<at, entries, moves>>

-----------------------------------------------------------------------------
\* HCUs get other addresses; two may swap theirs.
Move(g, addr) ==
  /\ moves < MaxMoves /\ at[g] # addr
  /\ at' = [h \in Hcu |-> IF h = g THEN addr ELSE IF at[h] = addr THEN at[g] ELSE at[h]]
  /\ moves' = moves + 1
  /\ UNCHANGED <<entries, flows>>

SetupNext ==
  \/ \E f \in SetupDialog :
       \/ AppAuthorized(f) \/ PluginAuthorized(f)
       \/ CreateUnread(f) \/ Read(f) \/ CloseSetup(f)
       \/ ConfirmNewAddress(f) \/ Ignore(f)
       \/ \E app, plugin \in BOOLEAN : ChooseMode(f, app, plugin)
       \/ \E host \in Addr : User(f, host)
       \/ \E h \in Hcu : DiscoverNew(f, h) \/ DiscoverMoved(f, h)
  \/ \E h \in Hcu : DiscoverInPlace(h) \/ \E addr \in Addr : Move(h, addr)

SetupSpec == SetupInit /\ [][SetupNext]_setupVars

-----------------------------------------------------------------------------
\* No setup throws an existing entry away or turns it into another HCU's: an
\* entry stays, of its HCU, whatever other flows do, so that no HCU that was read
\* is set up twice; and a name it learned is never exchanged, an HCU found at the
\* old address of another one is not taken for it.  Flows of one HCU may run
\* side by side, by address and by discovery, and HCUs may swap their addresses
\* in between.
EntriesKeepTheirHcu ==
  [][\A e \in Configured :
       /\ e \in DOMAIN entries' /\ entries'[e].of = entries[e].of
       /\ entries[e].name # Nothing => entries'[e].name = entries[e].name]_setupVars

\* A saved token is taken to another address only when the user confirmed it or
\* the HCU answered there with the token's ID.
AddressProven ==
  [][\A e \in Configured \cap DOMAIN entries' :
       entries'[e].host # entries[e].host =>
         \/ \E f \in OpenFlows : flows[f].step = "confirmAddress" /\ flows[f].entry = e
         \/ entries[e].of \in HcuAt(entries'[e].host)]_setupVars
=============================================================================
