------------------------------ MODULE StateSync ------------------------------
(***************************************************************************)
(* How the cached system state follows the HCU: the connection loop, the   *)
(* setup and the refresh after a reconnect of HcuCoordinator               *)
(* (coordinator.py), and the snapshots and events HcuApiClient (api.py)    *)
(* applies to its cache.  The state of a device is abstracted to a version *)
(* number: the HCU counts the changes of a device, an event carries the    *)
(* version of one device and a snapshot that of every device, and the      *)
(* cache holds, for each device, the version applied last.                 *)
(*                                                                         *)
(* A Plugin User's snapshot arrives as a message of the WebSocket, in line *)
(* with the events; an App User's is the answer to an HTTP request and     *)
(* takes its own way.                                                      *)
(***************************************************************************)
EXTENDS Naturals, Sequences

CONSTANTS
  Modes,      \* of "plugin" and "app" (App User and DualBridge)
  SyncDevice,
  SyncRefresh,    \* the refreshes, one for each reconnect; bounds the reconnects
  MaxVersion  \* bound on the changes of a device

ASSUME ModeAssumption ==
  /\ Modes \subseteq {"plugin", "app"}
  /\ MaxVersion \in Nat
  /\ "setup" \notin SyncRefresh

VARIABLES
  mode,       \* how the entry is authenticated; it never changes
  hcu,        \* the version of each device on the HCU
  link,       \* the WebSocket: "down" or "up", with listen() reading
  chan,       \* the messages on it that are not read yet
  connectedBefore,  \* of _listen_for_events
  atConnect,  \* history: the versions when the connection was made last
  setup,      \* where async_setup is
  fetch,      \* each get_system_state call: where it is, and its snapshot
  newest,     \* history: the refresh started last
  cache,      \* the versions in the client's _state, 0 for an unknown device
  gap         \* history: the state was not loaded since the connection was made,
              \* because a fetch failed or the setup was not over

vars == <<mode, hcu, link, chan, connectedBefore, atConnect, setup, fetch, newest,
          cache, gap>>
hcuVars == <<mode, hcu, link, chan>>
loopVars == <<connectedBefore, atConnect, newest>>

Fetch == {"setup"} \cup SyncRefresh
Nothing == [d \in SyncDevice |-> 0]
NoFetch == [at |-> "idle", ver |-> Nothing]

Init ==
  /\ mode \in Modes
  /\ hcu = [d \in SyncDevice |-> 1]
  /\ link = "down"
  /\ chan = <<>>
  /\ connectedBefore = FALSE
  /\ atConnect = Nothing
  /\ setup = "starting"
  /\ fetch = [f \in Fetch |-> NoFetch]
  /\ newest = "setup"
  /\ cache = Nothing
  /\ gap = FALSE

At(f, place) == fetch[f].at = place
Moved(f, place) == [fetch EXCEPT ![f].at = place]
Fetching == {f \in Fetch : fetch[f].at \in {"wanted", "asked", "answered", "read"}}
SetupOver == setup = "loaded"

\* Mutant: the snapshot is applied when get_system_state resumes.
AppliedByCaller == "caller"

\* A Plugin User's snapshot is applied by the on_success hook while the
\* listener handles the response, an App User's by the resumed caller.
AppliedBy == IF mode = "plugin" THEN "listener" ELSE "caller"

-----------------------------------------------------------------------------
\* A device changes, and an event is sent to whoever is connected.
DeviceChanges ==
  \E d \in SyncDevice :
    /\ hcu[d] < MaxVersion
    /\ hcu' = [hcu EXCEPT ![d] = @ + 1]
    /\ chan' = IF link = "up"
                 THEN Append(chan, [kind |-> "event", of |-> d, ver |-> hcu'])
                 ELSE chan
    /\ UNCHANGED <<mode, link, loopVars, setup, fetch, cache, gap>>

\* Mutant: a reconnect only resumes the events.
NeedsRefreshNever == FALSE

\* Events sent while the connection was down are lost.
NeedsRefresh == connectedBefore /\ SetupOver

\* The connection loop connects, and starts a refresh on a reconnect.  It sleeps
\* for at least WEBSOCKET_RECONNECT_INITIAL_DELAY before: a coroutine that only
\* has to resume has done so.
Connect ==
  /\ link = "down"
  /\ setup # "failed"
  /\ \A f \in Fetch : ~At(f, "read")
  /\ link' = "up"
  /\ connectedBefore' = TRUE
  /\ atConnect' = hcu
  /\ gap' = (connectedBefore /\ setup = "registering")
  /\ IF NeedsRefresh
       THEN \E f \in SyncRefresh : At(f, "idle") /\ fetch' = Moved(f, "wanted") /\ newest' = f
       ELSE UNCHANGED <<fetch, newest>>
  /\ UNCHANGED <<mode, hcu, chan, setup, cache>>

\* The connection is lost with what was not read yet; listen fails the requests
\* that were under way on it, and they are tried again.
ConnectionLost ==
  /\ link = "up"
  /\ link' = "down"
  /\ chan' = <<>>
  /\ fetch' = [f \in Fetch |-> IF mode = "plugin" /\ fetch[f].at \in {"asked", "answered"}
                                 THEN [NoFetch EXCEPT !.at = "wanted"] ELSE fetch[f]]
  /\ UNCHANGED <<mode, hcu, loopVars, setup, cache, gap>>

\* async_setup goes on to fetch the state; a Plugin User waits for the
\* connection first.
StartSetup ==
  /\ setup = "starting"
  /\ mode = "plugin" => link = "up"
  /\ setup' = "fetching"
  /\ fetch' = Moved("setup", "wanted")
  /\ UNCHANGED <<hcuVars, loopVars, cache, gap>>

\* The request for the state is sent.
Ask(f) ==
  /\ At(f, "wanted")
  /\ mode = "plugin" => link = "up"
  /\ fetch' = Moved(f, "asked")
  /\ UNCHANGED <<hcuVars, loopVars, setup, cache, gap>>

\* The HCU takes its snapshot and answers, on the WebSocket or over HTTP.
HcuAnswers(f) ==
  /\ At(f, "asked")
  /\ fetch' = [fetch EXCEPT ![f] = [at |-> "answered", ver |-> hcu]]
  /\ chan' = IF mode = "plugin"
               THEN Append(chan, [kind |-> "snapshot", of |-> f, ver |-> hcu])
               ELSE chan
  /\ UNCHANGED <<mode, hcu, link, loopVars, setup, cache, gap>>

\* listen reads the next message: an event, which process_events puts into the
\* cache, or a response, which settles its request unless that was given up.
HandleMessage ==
  /\ chan # <<>>
  /\ LET msg == Head(chan)
     IN  \/ /\ msg.kind = "event"
            /\ cache' = [cache EXCEPT ![msg.of] = msg.ver[msg.of]]
            /\ fetch' = fetch
         \/ /\ msg.kind = "snapshot" /\ At(msg.of, "answered")
            /\ cache' = IF AppliedBy = "listener" THEN msg.ver ELSE cache
            /\ fetch' = Moved(msg.of, "read")
         \/ /\ msg.kind = "snapshot" /\ ~At(msg.of, "answered")
            /\ UNCHANGED <<cache, fetch>>
  /\ chan' = Tail(chan)
  /\ UNCHANGED <<mode, hcu, link, loopVars, setup, gap>>

\* Mutant: the snapshot only adds the devices that are not known yet.
SnapshotOfUnknown(ver) == [d \in SyncDevice |-> IF cache[d] = 0 THEN ver[d] ELSE cache[d]]

\* The answer replaces the cached state.
Snapshot(ver) == ver

\* get_system_state resumes with the answer, and its caller goes on.
Resume(f) ==
  /\ At(f, IF mode = "plugin" THEN "read" ELSE "answered")
  /\ cache' = IF AppliedBy = "caller" THEN Snapshot(fetch[f].ver) ELSE cache
  /\ fetch' = Moved(f, "done")
  /\ setup' = IF f = "setup" THEN "registering" ELSE setup
  /\ UNCHANGED <<hcuVars, loopVars, gap>>

\* get_system_state fails: a refresh only logs it, async_setup returns False
\* and async_setup_entry disconnects.
FetchFails(f) ==
  /\ f \in Fetching \ {g \in Fetch : At(g, "read")}
  /\ fetch' = Moved(f, "done")
  /\ gap' = TRUE
  /\ IF f = "setup"
       THEN setup' = "failed" /\ link' = "down" /\ chan' = <<>>
       ELSE UNCHANGED <<setup, link, chan>>
  /\ UNCHANGED <<mode, hcu, loopVars, cache>>

\* A Plugin User's connection does not come up in time.
ConnectTimeout ==
  /\ setup = "starting" /\ mode = "plugin" /\ link = "down"
  /\ setup' = "failed"
  /\ UNCHANGED <<hcuVars, loopVars, fetch, cache, gap>>

\* Home Assistant tries the setup again (ConfigEntryNotReady), with a new client.
SetUpAgain ==
  /\ setup = "failed"
  /\ connectedBefore' = FALSE
  /\ atConnect' = Nothing
  /\ setup' = "starting"
  /\ fetch' = [f \in Fetch |-> NoFetch]
  /\ newest' = "setup"
  /\ cache' = Nothing
  /\ gap' = FALSE
  /\ UNCHANGED hcuVars

\* _register_hcu_device is over: the initial state is loaded.
FinishSetup ==
  /\ setup = "registering"
  /\ setup' = "loaded"
  /\ UNCHANGED <<hcuVars, loopVars, fetch, cache, gap>>

Next ==
  \/ DeviceChanges \/ Connect \/ ConnectionLost \/ ConnectTimeout
  \/ StartSetup \/ FinishSetup \/ SetUpAgain \/ HandleMessage
  \/ \E f \in Fetch : Ask(f) \/ HcuAnswers(f) \/ Resume(f) \/ FetchFails(f)

Spec == Init /\ [][Next]_vars

-----------------------------------------------------------------------------
\* The states of the devices, and the messages on their way from the HCU.
Versions == [SyncDevice -> Nat]
Messages == [kind : {"event"}, of : SyncDevice, ver : Versions]
              \cup [kind : {"snapshot"}, of : Fetch, ver : Versions]
UnderWay == {"wanted", "asked", "answered", "read"}

SyncTypeOK ==
  /\ mode \in {"plugin", "app"}
  /\ hcu \in Versions /\ cache \in Versions /\ atConnect \in Versions
  /\ link \in {"down", "up"}
  /\ chan \in Seq(Messages)
  /\ setup \in {"starting", "fetching", "registering", "loaded", "failed"}
  /\ fetch \in [Fetch -> [at : {"idle", "done"} \cup UnderWay, ver : Versions]]
  /\ newest \in Fetch

\* "The HCU does not repeat events that were sent while the connection was down,
\* so the coordinator loads the complete system state again"
\* (docs/how-it-works.md): with a Plugin User connected, every message read and
\* no fetch under way, the cache holds what the HCU holds, however often the
\* connection was lost.  Two cases are left out: a refresh that failed leaves the
\* old values, as the same paragraph says, and a reconnect while the setup still
\* registers the HCU device starts none.
StaysCurrent ==
  mode = "plugin" /\ SetupOver /\ link = "up" /\ chan = <<>> /\ Fetching = {} /\ ~gap
  => cache = hcu

\* No device is older in the cache after a step than before it, except that a new
\* setup starts with an empty one.
Forward == setup # "failed" => \A d \in SyncDevice : cache'[d] >= cache[d]

\* "Events that the listener reads after the response then update the new state
\* instead of being overwritten when this coroutine resumes" (get_system_state):
\* no snapshot brings an older state of a device back over a newer event ...
CacheNeverGoesBack == [][Forward]_vars

\* ... which holds for a Plugin User.
PluginCacheNeverGoesBack == [][mode = "plugin" => Forward]_vars

\* _async_refresh_state_after_reconnect: when the latest refresh ends well, no
\* device is older in the cache than it was on the HCU when the connection came
\* back, whatever refreshes of earlier connections still run.
RefreshCoversTheOutage ==
  [][\A f \in SyncRefresh :
       f = newest /\ ~At(f, "done") /\ fetch'[f].at = "done" /\ ~gap'
       => \A d \in SyncDevice : cache'[d] >= atConnect[d]]_vars

=============================================================================
