----------------------------- MODULE AlarmSiren -----------------------------
(***************************************************************************)
(* HcuAlarmSiren (siren.py): commands on one siren are serialised by a     *)
(* lock, a turn-on with a duration arms a timer whose stop is one more     *)
(* command, and the state shown is optimistic until the HCU reports the    *)
(* group.  The reports travel on their own and may be handled long after   *)
(* the command that caused them.                                           *)
(***************************************************************************)
EXTENDS Naturals, Sequences

CONSTANTS
  Cmd,         \* the service calls
  NoCmd,
  MaxReports   \* bound on what the HCU reports of its own accord

ASSUME SirenAssumption == NoCmd \notin Cmd /\ MaxReports \in Nat

\* The tasks that run _async_switch: a service call, and its timed stop.
Task == Cmd \X {"call", "stop"}
NoTask == <<NoCmd, "call">>

VARIABLES
  asks,          \* what each service call asks for: "on", "timed" or "off"
  phase,         \* where each task is
  waiters,       \* the tasks that wait for _switch_lock, in order
  optimistic,    \* _optimistic_on, "none" for None
  assumed,       \* _attr_assumed_state
  known,         \* the state of the group in the cache
  previous,      \* of the running _async_switch
  updated,       \* _group_updates differs from its updates_before
  accepted,      \* _accepted_commands
  pendingStop,   \* whose stop _auto_off_unsub would cancel
  after,         \* scheduled_after of each call's timer
  loaded,        \* the entity has not been removed
  siren,         \* what the HCU has the group at
  flight,        \* the tasks whose request the HCU may still carry out
  executed,      \* the tasks whose request it carried out
  reports,       \* the reports of the group not handled yet
  sent,          \* how many it made of its own accord
  lastAccepted,  \* history: the task whose command was accepted last
  offReported,   \* history: the group was reported off since then
  cancelled      \* history: a running call was cancelled since the last report

shownVars == <<optimistic, assumed, known, previous, updated>>
timerVars == <<accepted, pendingStop, after, loaded>>
hcuVars == <<siren, flight, executed, reports, sent>>
history == <<lastAccepted, offReported, cancelled>>
sirenVars == <<asks, phase, waiters, shownVars, timerVars, hcuVars, history>>

SirenInit ==
  /\ asks \in [Cmd -> {"on", "timed", "off"}]
  /\ phase = [t \in Task |-> "new"]
  /\ waiters = <<>>
  /\ optimistic = "none" /\ assumed = FALSE
  /\ known \in {"on", "off"}
  /\ previous = <<"none", FALSE>> /\ updated = FALSE
  /\ accepted = 0
  /\ pendingStop = NoCmd
  /\ after = [c \in Cmd |-> 0]
  /\ loaded = TRUE
  /\ siren = known
  /\ flight = {} /\ executed = {} /\ reports = <<>> /\ sent = 0
  /\ lastAccepted = NoTask /\ offReported = FALSE /\ cancelled = FALSE

-----------------------------------------------------------------------------
Wanted(t) == IF t[2] = "call" /\ asks[t[1]] \in {"on", "timed"} THEN "on" ELSE "off"

\* Mutant: a timed stop runs whatever was accepted meanwhile.
OutdatedNever(t) == FALSE

\* only_after: a newer command was accepted after the stop was scheduled.
Outdated(t) == t[2] = "stop" /\ accepted # after[t[1]]

\* The lock is free.
Unlocked == \A t \in Task : phase[t] # "sent"

\* t has the lock: the state to restore is noted, the optimistic one shown and
\* the request sent; an outdated stop lets go at once.
Begin(t) ==
  IF Outdated(t)
    THEN /\ phase' = [phase EXCEPT ![t] = "done"]
         /\ UNCHANGED <<shownVars, flight>>
    ELSE /\ phase' = [phase EXCEPT ![t] = "sent"]
         /\ previous' = <<optimistic, assumed>>
         /\ updated' = FALSE
         /\ optimistic' = Wanted(t)
         /\ assumed' = TRUE
         /\ flight' = flight \cup {t}
         /\ UNCHANGED known

\* t comes to the lock, which is fair: who comes later waits its turn.
Arrive(t) ==
  IF Unlocked /\ waiters = <<>>
    THEN Begin(t) /\ UNCHANGED waiters
    ELSE /\ phase' = [phase EXCEPT ![t] = "queued"]
         /\ waiters' = Append(waiters, t)
         /\ UNCHANGED <<shownVars, flight>>

\* async_turn_on, async_turn_off
SwitchCall(c) ==
  /\ phase[<<c, "call">>] = "new" /\ loaded
  /\ Arrive(<<c, "call">>)
  /\ UNCHANGED <<asks, timerVars, siren, executed, reports, sent, history>>

\* The task that waited longest gets the lock.
TakeLock ==
  /\ Unlocked /\ waiters # <<>>
  /\ Begin(Head(waiters))
  /\ waiters' = Tail(waiters)
  /\ UNCHANGED <<asks, timerVars, siren, executed, reports, sent, history>>

\* _async_auto_off: the duration has passed.
Elapse(c) ==
  /\ pendingStop = c
  /\ pendingStop' = NoCmd
  /\ Arrive(<<c, "stop">>)
  /\ UNCHANGED <<asks, accepted, after, loaded, siren, executed, reports, sent, history>>

\* The HCU accepted the command: it replaces the pending timed stop.
Accept(t) ==
  /\ phase[t] = "sent" /\ t \in executed
  /\ phase' = [phase EXCEPT ![t] = "done"]
  /\ accepted' = accepted + 1
  /\ IF t[2] = "call" /\ asks[t[1]] = "timed"
       THEN pendingStop' = t[1] /\ after' = [after EXCEPT ![t[1]] = accepted + 1]
       ELSE pendingStop' = NoCmd /\ UNCHANGED after
  /\ lastAccepted' = t
  /\ offReported' = FALSE
  /\ UNCHANGED <<asks, waiters, shownVars, loaded, hcuVars, cancelled>>

\* What a failed command leaves: the state before, unless the HCU reported the
\* group meanwhile.
Restored == IF updated THEN <<"none", FALSE>> ELSE previous

\* Mutant: the pending timed stop is cancelled although the command failed.
FailStoppingTimer(t) ==
  /\ phase[t] = "sent"
  /\ phase' = [phase EXCEPT ![t] = "done"]
  /\ optimistic' = Restored[1] /\ assumed' = Restored[2]
  /\ pendingStop' = NoCmd
  /\ UNCHANGED <<asks, waiters, known, previous, updated, accepted, after, loaded,
                 hcuVars, history>>

\* The command failed, refused or without an answer.
Fail(t) ==
  /\ phase[t] = "sent"
  /\ phase' = [phase EXCEPT ![t] = "done"]
  /\ optimistic' = Restored[1] /\ assumed' = Restored[2]
  /\ UNCHANGED <<asks, waiters, known, previous, updated, timerVars, hcuVars, history>>

\* A service call is cancelled, for instance with the script that made it: it
\* leaves the queue, or gives up the request that runs.
CancelWaiting(c) ==
  LET t == <<c, "call">>
  IN  /\ phase[t] = "queued"
      /\ phase' = [phase EXCEPT ![t] = "done"]
      /\ \E i \in DOMAIN waiters :
           /\ waiters[i] = t
           /\ waiters' = SubSeq(waiters, 1, i - 1) \o SubSeq(waiters, i + 1, Len(waiters))
      /\ UNCHANGED <<asks, shownVars, timerVars, hcuVars, history>>

CancelRunning(c) ==
  LET t == <<c, "call">>
  IN  /\ phase[t] = "sent"
      /\ phase' = [phase EXCEPT ![t] = "done"]
      /\ cancelled' = TRUE
      /\ UNCHANGED <<asks, waiters, shownVars, timerVars, hcuVars, lastAccepted, offReported>>

\* _handle_coordinator_update for the group.
Report ==
  /\ reports # <<>> /\ loaded
  /\ reports' = Tail(reports)
  /\ known' = Head(reports)
  /\ updated' = TRUE
  /\ optimistic' = "none" /\ assumed' = FALSE
  /\ pendingStop' = IF known' = "off" THEN NoCmd ELSE pendingStop
  /\ offReported' = (offReported \/ known' = "off")
  /\ cancelled' = FALSE
  /\ UNCHANGED <<asks, phase, waiters, previous, accepted, after, loaded, siren,
                 flight, executed, sent, lastAccepted>>

\* async_will_remove_from_hass
Remove ==
  /\ loaded
  /\ loaded' = FALSE
  /\ pendingStop' = NoCmd
  /\ UNCHANGED <<asks, phase, waiters, shownVars, accepted, after, hcuVars, history>>

-----------------------------------------------------------------------------
\* The HCU carries out a request, and reports the group if that changed it ...
HcuExecutes(t) ==
  /\ t \in flight
  /\ flight' = flight \ {t}
  /\ executed' = executed \cup {t}
  /\ siren' = Wanted(t)
  /\ reports' = IF siren' = siren THEN reports ELSE Append(reports, siren')
  /\ UNCHANGED <<asks, phase, waiters, shownVars, timerVars, sent, history>>

\* ... or refuses it, or never gets it ...
HcuIgnores(t) ==
  /\ t \in flight
  /\ flight' = flight \ {t}
  /\ UNCHANGED <<asks, phase, waiters, shownVars, timerVars, siren, executed, reports,
                 sent, history>>

\* ... or reports the group of its own accord: the alarm was switched in the
\* app, it reached its maximum duration, or something else about it changed.
HcuReports ==
  /\ sent < MaxReports
  /\ sent' = sent + 1
  /\ siren' \in {"on", "off"}
  /\ reports' = Append(reports, siren')
  /\ UNCHANGED <<asks, phase, waiters, shownVars, timerVars, flight, executed, history>>

SirenNext ==
  \/ TakeLock \/ Report \/ Remove \/ HcuReports
  \/ \E c \in Cmd : SwitchCall(c) \/ Elapse(c) \/ CancelWaiting(c) \/ CancelRunning(c)
  \/ \E t \in Task : Accept(t) \/ Fail(t) \/ HcuExecutes(t) \/ HcuIgnores(t)

SirenSpec == SirenInit /\ [][SirenNext]_sirenVars

-----------------------------------------------------------------------------
\* One command is sent at a time, and a timer belongs to a timed turn-on whose
\* stop has not started.
SirenTypeOK ==
  /\ asks \in [Cmd -> {"on", "timed", "off"}]
  /\ phase \in [Task -> {"new", "queued", "sent", "done"}]
  /\ waiters \in Seq(Task)
  /\ optimistic \in {"none", "on", "off"} /\ assumed \in BOOLEAN
  /\ known \in {"on", "off"} /\ siren \in {"on", "off"}
  /\ previous \in {"none", "on", "off"} \X BOOLEAN
  /\ updated \in BOOLEAN /\ loaded \in BOOLEAN
  /\ accepted \in Nat /\ after \in [Cmd -> Nat]
  /\ pendingStop \in Cmd \cup {NoCmd}
  /\ flight \subseteq Task /\ executed \subseteq Task
  /\ reports \in Seq({"on", "off"}) /\ sent \in Nat
  /\ lastAccepted \in Task \cup {NoTask}
  /\ offReported \in BOOLEAN /\ cancelled \in BOOLEAN
  /\ \A t, u \in Task : phase[t] = "sent" /\ phase[u] = "sent" => t = u

\* is_on
IsOn == IF assumed /\ optimistic # "none" THEN optimistic ELSE known

\* "A timed stop only runs if no newer command was accepted after it was
\* scheduled" (__init__): whatever waits for the lock in whatever order, a timed
\* stop is on its way only while the turn-on that scheduled it is the last
\* command the HCU accepted, so it never ends a newer alarm.
StopEndsItsOwnAlarm ==
  \A c \in Cmd : phase[<<c, "stop">>] = "sent" => lastAccepted = <<c, "call">>

\* "A failed command keeps the earlier deadline" (_async_switch): as long as a
\* timed turn-on is the last accepted command and the group was not reported
\* off since, its stop is due or was tried, whatever failed or was cancelled.
TimedStopStaysDue ==
  \A c \in Cmd :
    /\ lastAccepted = <<c, "call">> /\ asks[c] = "timed"
    /\ loaded /\ ~offReported
    => pendingStop = c \/ phase[<<c, "stop">>] # "new"

\* What a failed command restores and what a report replaces agree: once no
\* command runs and every report was handled, the entity shows what the siren
\* does.  A call that was cancelled while it ran is left out: its optimistic
\* state stays until the next report.
ShownStateSettles ==
  loaded /\ Unlocked /\ flight = {} /\ reports = <<>> /\ ~cancelled => IsOn = siren
=============================================================================
