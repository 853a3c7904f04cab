--------------------------- MODULE OptimisticState ---------------------------
(***************************************************************************)
(* The optimistic state of the entities that are switched on and off.  A   *)
(* service call shows what it asks for at once, awaits the command, and    *)
(* takes the state back if the command fails.  The entities do the last    *)
(* step in three ways:                                                     *)
(*   "switch", "valve"  the opposite of what was asked (SwitchStateMixin,  *)
(*                      HcuWateringValve)                                  *)
(*   "group"            what was shown before (SwitchingGroupMixin, a      *)
(*                      switch turned on with a time)                      *)
(*   "overlay"          what the cache holds (HcuLock, HcuAlarmPanel)      *)
(* Calls on one entity run in parallel (PARALLEL_UPDATES = 0), and reports *)
(* of the HCU arrive in between.                                           *)
(***************************************************************************)
EXTENDS Naturals, Sequences

CONSTANTS Request,   \* the service calls
          MaxNews    \* bound on what the HCU reports of its own accord

ASSUME MaxNewsAssumption == MaxNews \in Nat

VARIABLES
  style,     \* which kind of entity this is; it never changes
  wants,     \* what each call asks for
  at,        \* where each call is
  attr,      \* _attr_is_on, or the optimistic state of an overlay ("none" without)
  cached,    \* the state in the client's cache
  shown,     \* the state written to Home Assistant
  before,    \* previous_state of each call
  device,    \* the state on the HCU
  onItsWay,  \* the calls whose command the HCU may still carry out
  obeyed,    \* the calls whose command it carried out
  news,      \* the reports not handled yet
  told,      \* how many reports it made of its own accord
  undone,    \* history: a call failed or was cancelled since the last report
  alone      \* history: nothing else happened to the entity since each call

shownState == <<attr, cached, shown>>
deviceVars == <<device, onItsWay, obeyed, news, told>>
optimisticVars == <<style, wants, at, before, shownState, deviceVars, undone, alone>>

OnOff == {"on", "off"}
Opposite(v) == IF v = "on" THEN "off" ELSE "on"

\* What is written for an attribute and a cached state.
Display(a, c) == IF a = "none" THEN c ELSE a
\* The attribute after a report of the state c.
Synced(c) == IF style = "overlay" THEN "none" ELSE c

OptimisticInit ==
  /\ style \in {"switch", "valve", "group", "overlay"}
  /\ wants \in [Request -> OnOff]
  /\ at = [r \in Request |-> "new"]
  /\ device \in OnOff
  /\ cached = device /\ shown = device /\ attr = Synced(device)
  /\ before = [r \in Request |-> "none"]
  /\ onItsWay = {} /\ obeyed = {} /\ news = <<>> /\ told = 0
  /\ undone = FALSE /\ alone = {}

-----------------------------------------------------------------------------
\* async_turn_on, async_lock, ...: the state asked for is shown and the command
\* sent.
Switch(r) ==
  /\ at[r] = "new"
  /\ at' = [at EXCEPT ![r] = "sent"]
  /\ before' = [before EXCEPT ![r] = attr]
  /\ attr' = wants[r]
  /\ shown' = wants[r]
  /\ onItsWay' = onItsWay \cup {r}
  /\ alone' = IF \E q \in Request : at[q] = "sent" THEN {} ELSE {r}
  /\ UNCHANGED <<style, wants, cached, device, obeyed, news, told, undone>>

Succeed(r) ==
  /\ at[r] = "sent" /\ r \in obeyed
  /\ at' = [at EXCEPT ![r] = "done"]
  /\ UNCHANGED <<style, wants, before, shownState, deviceVars, undone, alone>>

\* The attribute once the command of r failed.
TakenBack(r) ==
  CASE style \in {"switch", "valve"} -> Opposite(wants[r])
    [] style = "group" -> before[r]
    [] style = "overlay" -> "none"

\* What is shown after the failure is what the HCU reported last: always for an
\* overlay, and for a group unless something happened since the call.
Harmless(r) == style = "overlay" \/ (style = "group" /\ r \in alone)

\* The command failed, refused or without an answer.
GiveUp(r) ==
  /\ at[r] = "sent"
  /\ at' = [at EXCEPT ![r] = "done"]
  /\ attr' = TakenBack(r)
  /\ shown' = Display(TakenBack(r), cached)
  /\ undone' = (undone \/ ~Harmless(r))
  /\ alone' = alone \ {r}
  /\ UNCHANGED <<style, wants, before, cached, deviceVars>>

\* The service call is cancelled; nothing is taken back.
Abandon(r) ==
  /\ at[r] = "sent"
  /\ at' = [at EXCEPT ![r] = "done"]
  /\ undone' = TRUE
  /\ alone' = {}
  /\ UNCHANGED <<style, wants, before, shownState, deviceVars>>

\* Mutant: a running command keeps its optimistic state.
HandleNewsKeeping ==
  /\ news # <<>>
  /\ news' = Tail(news)
  /\ cached' = Head(news)
  /\ attr' = IF \E r \in Request : at[r] = "sent" THEN attr ELSE Synced(cached')
  /\ shown' = Display(attr', cached')
  /\ undone' = FALSE
  /\ alone' = {}
  /\ UNCHANGED <<style, wants, at, before, device, onItsWay, obeyed, told>>

\* _handle_coordinator_update for an event of the entity's device or group.
HandleNews ==
  /\ news # <<>>
  /\ news' = Tail(news)
  /\ cached' = Head(news)
  /\ attr' = Synced(cached')
  /\ shown' = Display(attr', cached')
  /\ undone' = FALSE
  /\ alone' = {}
  /\ UNCHANGED <<style, wants, at, before, device, onItsWay, obeyed, told>>

\* _handle_coordinator_update for an event of something else: switches and
\* valves read their channel and groups their group again; only a valve writes.
HandleOther ==
  /\ style # "overlay"
  /\ attr' = cached
  /\ shown' = IF style = "valve" THEN cached ELSE shown
  /\ alone' = {}
  /\ UNCHANGED <<style, wants, at, before, cached, deviceVars, undone>>

-----------------------------------------------------------------------------
\* The HCU carries out a command and reports a change ...
DeviceObeys(r) ==
  /\ r \in onItsWay
  /\ onItsWay' = onItsWay \ {r}
  /\ obeyed' = obeyed \cup {r}
  /\ device' = wants[r]
  /\ news' = IF device' = device THEN news ELSE Append(news, device')
  /\ UNCHANGED <<style, wants, at, before, shownState, told, undone, alone>>

\* ... or refuses it or never gets it ...
DeviceIgnores(r) ==
  /\ r \in onItsWay
  /\ onItsWay' = onItsWay \ {r}
  /\ UNCHANGED <<style, wants, at, before, shownState, device, obeyed, news, told,
                 undone, alone>>

\* ... or reports the device of its own accord.
DeviceReports ==
  /\ told < MaxNews
  /\ told' = told + 1
  /\ device' \in OnOff
  /\ news' = Append(news, device')
  /\ UNCHANGED <<style, wants, at, before, shownState, onItsWay, obeyed, undone, alone>>

OptimisticNext ==
  \/ HandleNews \/ HandleOther \/ DeviceReports
  \/ \E r \in Request : \/ Switch(r) \/ Succeed(r) \/ GiveUp(r) \/ Abandon(r)
                        \/ DeviceObeys(r) \/ DeviceIgnores(r)

OptimisticSpec == OptimisticInit /\ [][OptimisticNext]_optimisticVars

-----------------------------------------------------------------------------
\* Only an overlay is ever without a state of its own.
OptimisticTypeOK ==
  /\ style \in {"switch", "valve", "group", "overlay"}
  /\ wants \in [Request -> OnOff]
  /\ at \in [Request -> {"new", "sent", "done"}]
  /\ attr \in OnOff \cup {"none"} /\ (attr = "none" => style = "overlay")
  /\ cached \in OnOff /\ shown \in OnOff /\ device \in OnOff
  /\ before \in [Request -> OnOff \cup {"none"}]
  /\ onItsWay \subseteq Request /\ obeyed \subseteq Request
  /\ news \in Seq(OnOff) /\ told \in 0 .. MaxNews
  /\ undone \in BOOLEAN /\ alone \subseteq Request

\* The optimistic states of overlapping calls give way to what the HCU does:
\* once every call is over and every report was handled, the entity shows the
\* state of the device, in whatever order the calls, the commands and the
\* reports came.  Left out are, until the next report, calls that were
\* cancelled, and those failed ones that do not restore what the HCU reported.
SettlesOnDevice ==
  (\A r \in Request : at[r] # "sent") /\ onItsWay = {} /\ news = <<>> /\ ~undone
  => shown = device

\* "Revert to previous state" (_async_set_optimistic_state): a switch whose call
\* failed with nothing else having happened shows what it showed before.
SwitchReverts ==
  [][\A r \in Request :
       style = "switch" /\ GiveUp(r) /\ r \in alone => attr' = before[r]]_optimisticVars
=============================================================================
