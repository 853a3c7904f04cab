---------------------------- MODULE BridgeAutoOff ----------------------------
(***************************************************************************)
(* The on_time auto-off of one bridged entity (HaEntityBridge in           *)
(* ha_entity_bridge.py): handle_control_request calls a Home Assistant     *)
(* service and, when that returns, replaces the entity's timer;            *)
(* _auto_off_after sleeps and turns the entity off; _on_state_changed      *)
(* cancels the timer when the entity goes off.  Control requests run as    *)
(* tasks of their own, so several can be waiting for their service calls.  *)
(***************************************************************************)
EXTENDS Naturals

CONSTANTS Req,    \* control requests for the entity
          NoReq

ASSUME ReqAssumption == NoReq \notin Req

VARIABLES
  kind,       \* what each request asks for: "onTimed", "on" or "off"
  call,       \* where each request's service call is
  entity,     \* the state of the entity
  timer,      \* the auto-off task each request created, if any
  tracked,    \* the request whose task is in _auto_off_tasks
  listening,  \* between start_listening and stop_listening
  lastDone,   \* the last request whose service call succeeded
  offSince    \* the timed requests after whose turn-on the entity went off

autoOffVars == <<kind, call, entity, timer, tracked, listening, lastDone, offSince>>

Call == {"new", "calling", "acted", "done"}
Timer == {"none", "armed", "turningOff", "over", "cancelled"}

AutoOffInit ==
  /\ kind \in [Req -> {"onTimed", "on", "off"}]
  /\ call = [r \in Req |-> "new"]
  /\ entity \in {"on", "off"}
  /\ timer = [r \in Req |-> "none"]
  /\ tracked = NoReq
  /\ listening = TRUE
  /\ lastDone = NoReq
  /\ offSince = {}

-----------------------------------------------------------------------------
\* _cancel_auto_off_task and the cancellations of stop_listening: the timers
\* after the tracked task was cancelled, wherever it is.
Cancelled ==
  [r \in Req |-> IF r = tracked /\ timer[r] \in {"armed", "turningOff"}
                   THEN "cancelled" ELSE timer[r]]

\* Mutant: only a request of the HCU ends a timer.
ChangesUnnoticed(value, finished) ==
  /\ entity' = value
  /\ offSince' = IF value = "off" /\ entity = "on"
                   THEN offSince \cup {r \in Req : call[r] \in {"acted", "done"}}
                   ELSE offSince
  /\ timer' = [r \in Req |-> IF r \in finished THEN "over" ELSE timer[r]]
  /\ UNCHANGED tracked

\* The entity takes a state, and _on_state_changed sees it if it is a new one
\* while the bridge listens.  The tasks in finished end with this change.
Changes(value, finished) ==
  /\ entity' = value
  /\ offSince' = IF value = "off" /\ entity = "on"
                   THEN offSince \cup {r \in Req : call[r] \in {"acted", "done"}}
                   ELSE offSince
  /\ LET noticed == value = "off" /\ entity = "on" /\ listening
         after == IF noticed THEN Cancelled ELSE timer
     IN  /\ timer' = [r \in Req |-> IF r \in finished /\ after[r] = "turningOff"
                                      THEN "over" ELSE after[r]]
         /\ tracked' = IF noticed THEN NoReq ELSE tracked

\* A CONTROL_REQUEST is handled: the service is called.
Receive(r) ==
  /\ call[r] = "new" /\ listening
  /\ call' = [call EXCEPT ![r] = "calling"]
  /\ UNCHANGED <<kind, entity, timer, tracked, listening, lastDone, offSince>>

\* The service acts on the entity while the bridge waits for it.
ServiceActs(r) ==
  /\ call[r] = "calling"
  /\ call' = [call EXCEPT ![r] = "acted"]
  /\ Changes(IF kind[r] = "off" THEN "off" ELSE "on", {})
  /\ UNCHANGED <<kind, listening, lastDone>>

\* The service call raises; the earlier timer stays.
ServiceFails(r) ==
  /\ call[r] \in {"calling", "acted"}
  /\ call' = [call EXCEPT ![r] = "done"]
  /\ UNCHANGED <<kind, entity, timer, tracked, listening, lastDone, offSince>>

\* Mutant: the pending timer is forgotten, not cancelled.
ServiceReturnsForgetting(r) ==
  /\ call[r] = "acted"
  /\ call' = [call EXCEPT ![r] = "done"]
  /\ timer' = [timer EXCEPT ![r] = IF kind[r] = "onTimed" THEN "armed" ELSE @]
  /\ tracked' = IF kind[r] = "onTimed" THEN r ELSE NoReq
  /\ lastDone' = r
  /\ UNCHANGED <<kind, entity, listening, offSince>>

\* Mutant: the new timer is registered before the old one is cancelled.
ServiceReturnsArmingFirst(r) ==
  /\ call[r] = "acted"
  /\ call' = [call EXCEPT ![r] = "done"]
  /\ timer' = [Cancelled EXCEPT ![r] = IF kind[r] = "onTimed" THEN "cancelled" ELSE @]
  /\ tracked' = NoReq
  /\ lastDone' = r
  /\ UNCHANGED <<kind, entity, listening, offSince>>

\* The service call returns: the pending timer is cancelled, and a turn-on with
\* an on_time starts a new one.
ServiceReturns(r) ==
  /\ call[r] = "acted"
  /\ call' = [call EXCEPT ![r] = "done"]
  /\ timer' = [Cancelled EXCEPT ![r] = IF kind[r] = "onTimed" THEN "armed" ELSE @]
  /\ tracked' = IF kind[r] = "onTimed" THEN r ELSE NoReq
  /\ lastDone' = r
  /\ UNCHANGED <<kind, entity, listening, offSince>>

-----------------------------------------------------------------------------
\* Mutant: the task stays tracked while it turns the entity off.
ElapsesTracked(r) ==
  /\ timer[r] = "armed"
  /\ timer' = [timer EXCEPT ![r] = "turningOff"]
  /\ UNCHANGED <<kind, call, entity, tracked, listening, lastDone, offSince>>

\* The sleep is over: the task is tracked no more and calls turn_off.
Elapses(r) ==
  /\ timer[r] = "armed"
  /\ timer' = [timer EXCEPT ![r] = "turningOff"]
  /\ tracked' = IF tracked = r THEN NoReq ELSE tracked
  /\ UNCHANGED <<kind, call, entity, listening, lastDone, offSince>>

TurnsOff(r) ==
  /\ timer[r] = "turningOff"
  /\ Changes("off", {r})
  /\ UNCHANGED <<kind, call, listening, lastDone>>

TurnOffFails(r) ==
  /\ timer[r] = "turningOff"
  /\ timer' = [timer EXCEPT ![r] = "over"]
  /\ UNCHANGED <<kind, call, entity, tracked, listening, lastDone, offSince>>

\* Somebody else switches the entity: the dashboard, an automation, the device.
Switched ==
  /\ \E value \in {"on", "off"} \ {entity} : Changes(value, {})
  /\ UNCHANGED <<kind, call, listening, lastDone>>

\* stop_listening, when the entry is unloaded.
StopListening ==
  /\ listening
  /\ listening' = FALSE
  /\ timer' = Cancelled
  /\ tracked' = NoReq
  /\ UNCHANGED <<kind, call, entity, lastDone, offSince>>

AutoOffNext ==
  \/ Switched
  \/ StopListening
  \/ \E r \in Req : \/ Receive(r) \/ ServiceActs(r) \/ ServiceFails(r) \/ ServiceReturns(r)
                    \/ Elapses(r) \/ TurnsOff(r) \/ TurnOffFails(r)

AutoOffSpec == AutoOffInit /\ [][AutoOffNext]_autoOffVars

-----------------------------------------------------------------------------
Armed == {r \in Req : timer[r] = "armed"}

\* At most one task sleeps, and it is the one that can be cancelled.
AutoOffTypeOK ==
  /\ kind \in [Req -> {"onTimed", "on", "off"}]
  /\ call \in [Req -> Call]
  /\ entity \in {"on", "off"}
  /\ timer \in [Req -> Timer]
  /\ tracked \in Req \cup {NoReq}
  /\ listening \in BOOLEAN
  /\ lastDone \in Req \cup {NoReq}
  /\ offSince \subseteq Req
  /\ Armed \subseteq {tracked}

\* A newer command of the HCU, whatever it is, puts an end to the timer of an
\* earlier one: the entity is never turned off on time by a turn-on that a
\* later request has replaced.
NewestCommandDecides == \A r \in Armed : r = lastDone

\* "An entity turned off by any means ... ends a pending on_time auto-off"
\* (_on_state_changed): no off state the bridge sees leaves a timer asleep.
OffEndsPendingTimer ==
  [][entity = "on" /\ entity' = "off" /\ listening => Armed' = {}]_autoOffVars

\* The off state that an elapsed timer causes never cancels that timer's own
\* turn_off call (comment in _auto_off_after), and no later request does.
ElapsedTurnOffCompletes ==
  [][\A r \in Req : timer[r] = "turningOff" => timer'[r] \in {"turningOff", "over"}]_autoOffVars

\* A turn-on with an on_time has its timer as long as no later request
\* succeeded, the entity never went off since, and the bridge listens.
TimedTurnOnHasTimer ==
  \A r \in Req :
    /\ r = lastDone /\ kind[r] = "onTimed"
    /\ r \notin offSince /\ listening
    => timer[r] \in {"armed", "turningOff", "over"}

\* "... so a later manual turn-on isn't cut short" (_on_state_changed): an
\* entity that went off and on again after a timed turn-on is not turned off by
\* that turn-on's timer.
LaterTurnOnNotCutShort ==
  [][\A r \in Req : timer[r] = "armed" /\ timer'[r] = "turningOff"
                     => r \notin offSince \/ entity = "off"]_autoOffVars
=============================================================================
