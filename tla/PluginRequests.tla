--------------------------- MODULE PluginRequests ---------------------------
(***************************************************************************)
(* How HcuApiClient sends the commands of a Plugin User over the WebSocket *)
(* (_send_hmip_request, the response half of _handle_incoming_message,     *)
(* _handle_error_response and the clean-up of listen in api.py): attempts  *)
(* with one message id until an answer comes, one retry with a new id      *)
(* after DEVICE_BUSY, and a hook the listener runs when the answer is a    *)
(* success.  The listener and the callers are tasks of one event loop: the *)
(* listener settles a future, and the caller sees that only when it runs   *)
(* again.  Which answers the HCU sends, and when, is left open.            *)
(***************************************************************************)
EXTENDS TargetTracking

CONSTANT MaxAttempts  \* API_MAX_RETRIES

ASSUME AttemptsAssumption == MaxAttempts \in Nat \ {0}

VARIABLES
  stage,        \* where each call is in _send_hmip_request
  attempt,      \* transport_attempt
  busyRetried,  \* device_busy_retried
  pending,      \* the calls whose current id is in _pending_requests
  future,       \* what the listener made of each call's future
  hooked,       \* the calls whose current id is in _response_hooks
  hookRun,      \* the calls whose hook has run
  owed          \* the messages with each call's current id not answered yet

requestVars == <<stage, attempt, busyRetried, pending, future, hooked, hookRun, owed>>
vars == <<trackVars, requestVars>>

Stage == {"idle",
          "awaiting",    \* sends, or waits for the future
          "backoff",     \* sleeps, then waits for newer commands, after a failed attempt
          "busyBackoff", \* the same after DEVICE_BUSY
          "succeeded", "failed"}
Settled == {"ok", "busy", "error", "aborted"}

Init ==
  /\ TrackInit
  /\ stage = [c \in Cmd |-> "idle"]
  /\ attempt = [c \in Cmd |-> 0]
  /\ busyRetried = {}
  /\ pending = {}
  /\ future = [c \in Cmd |-> "open"]
  /\ hooked = {}
  /\ hookRun = {}
  /\ owed = [c \in Cmd |-> 0]

-----------------------------------------------------------------------------
\* A message goes out with a new future under the current id, which has
\* earlier messages with no answer yet.
Send(c, earlier) ==
  /\ stage' = [stage EXCEPT ![c] = "awaiting"]
  /\ pending' = pending \cup {c}
  /\ future' = [future EXCEPT ![c] = "open"]
  /\ owed' = [owed EXCEPT ![c] = earlier + 1]

\* The call raises or returns; its finally drops the hook.
Finish(c, succeeded) ==
  /\ Leave(c, succeeded)
  /\ stage' = [stage EXCEPT ![c] = IF succeeded THEN "succeeded" ELSE "failed"]
  /\ hooked' = hooked \ {c}

\* A command is called: it registers its hook and sends its message.
Call(c) ==
  /\ Enter(c)
  /\ Send(c, 0)
  /\ hooked' = hooked \cup {c}
  /\ UNCHANGED <<attempt, busyRetried, hookRun>>

-----------------------------------------------------------------------------
(* The listener.                                                            *)

\* The listener reads an answer to a pending id: it settles the future and
\* takes the hook out, which it runs if the answer is a success.
Answer(c) ==
  /\ owed[c] > 0 /\ c \in pending /\ future[c] = "open"
  /\ owed' = [owed EXCEPT ![c] = @ - 1]
  /\ pending' = pending \ {c}
  /\ hooked' = hooked \ {c}
  /\ \E answer \in {"ok", "busy", "error"} :
       /\ future' = [future EXCEPT ![c] = answer]
       /\ IF answer = "ok" /\ c \in hooked
            THEN Record(c) /\ hookRun' = hookRun \cup {c}
            ELSE UNCHANGED <<trackVars, hookRun>>
  /\ UNCHANGED <<stage, attempt, busyRetried>>

\* An answer to an id that is not pending, or whose future is cancelled, does
\* nothing.
IgnoredAnswer(c) ==
  /\ owed[c] > 0 /\ ~(c \in pending /\ future[c] = "open")
  /\ owed' = [owed EXCEPT ![c] = @ - 1]
  /\ pending' = pending \ {c}
  /\ UNCHANGED <<trackVars, stage, attempt, busyRetried, future, hooked, hookRun>>

\* The connection is lost: listen fails what is pending.
ListenerStops ==
  /\ pending # {}
  /\ future' = [c \in Cmd |-> IF c \in pending /\ future[c] = "open"
                                THEN "aborted" ELSE future[c]]
  /\ pending' = {}
  /\ UNCHANGED <<trackVars, stage, attempt, busyRetried, hooked, hookRun, owed>>

-----------------------------------------------------------------------------
(* The caller's task.                                                       *)

\* The future has a result.
Return(c) ==
  /\ stage[c] = "awaiting" /\ future[c] = "ok"
  /\ Finish(c, TRUE)
  /\ UNCHANGED <<attempt, busyRetried, pending, future, hookRun, owed>>

\* The attempt failed: the send raised, the listener stopped, or the timeout
\* fired, which can still beat an answer the listener has just handed over.
AttemptFails(c) ==
  /\ stage[c] = "awaiting"
  /\ pending' = pending \ {c}
  /\ IF Superseded(c) \/ attempt[c] + 1 = MaxAttempts
       THEN Finish(c, FALSE)
       ELSE /\ stage' = [stage EXCEPT ![c] = "backoff"]
            /\ UNCHANGED <<trackVars, hooked>>
  /\ future' = [future EXCEPT ![c] = "aborted"]
  /\ UNCHANGED <<attempt, busyRetried, hookRun, owed>>

\* DEVICE_BUSY for the first time, and not replaced yet.
BusyBackOff(c) ==
  /\ stage[c] = "awaiting" /\ future[c] = "busy"
  /\ c \notin busyRetried /\ ~Superseded(c)
  /\ busyRetried' = busyRetried \cup {c}
  /\ stage' = [stage EXCEPT ![c] = "busyBackoff"]
  /\ UNCHANGED <<trackVars, attempt, pending, future, hooked, hookRun, owed>>

\* Any other refusal is raised.
Refused(c) ==
  /\ stage[c] = "awaiting"
  /\ \/ future[c] = "error"
     \/ future[c] = "busy" /\ (c \in busyRetried \/ Superseded(c))
  /\ Finish(c, FALSE)
  /\ UNCHANGED <<attempt, busyRetried, pending, future, hookRun, owed>>

\* The back-off is over, or the event was set, and a newer command still runs.
AwaitNewer(c) ==
  /\ stage[c] \in {"backoff", "busyBackoff"} /\ phase[c] \in {"running", "woken"}
  /\ Wait(c)
  /\ UNCHANGED requestVars

\* The refreshed message goes out again: under its id after a failed attempt,
\* under a new id, for which the hook is registered, after DEVICE_BUSY.
Resend(c) ==
  /\ Resume(c)
  /\ sentFrom' = [sentFrom EXCEPT ![c] = Refreshed(c)]
  /\ IF stage[c] = "backoff"
       THEN /\ Send(c, owed[c])
            /\ attempt' = [attempt EXCEPT ![c] = @ + 1]
            /\ UNCHANGED hooked
       ELSE /\ Send(c, 0)
            /\ hooked' = hooked \cup {c}
            /\ UNCHANGED attempt
  /\ UNCHANGED <<request, cmdSeq, gen, counters, inflight, overrides, busyRetried,
                 hookRun>>

\* Mutant: the back-off is not followed by another look.
GoOnUnchecked(c) == Resend(c)

\* The retry goes ahead unless it was replaced while it slept and waited.
GoOn(c) ==
  IF Superseded(c)
    THEN Finish(c, FALSE) /\ UNCHANGED <<attempt, busyRetried, pending, future, hookRun, owed>>
    ELSE Resend(c)

\* Nothing to wait for (any more).
Retry(c) ==
  /\ stage[c] \in {"backoff", "busyBackoff"}
  /\ phase[c] \in {"running", "woken"} /\ ~MustWait(c)
  /\ GoOn(c)

\* max_wait has passed.
WaitTimeout(c) ==
  /\ stage[c] \in {"backoff", "busyBackoff"} /\ phase[c] \in {"waiting", "woken"}
  /\ GoOn(c)

\* The caller's task is cancelled; its id stays pending with a dead future.
Cancel(c) ==
  /\ c \in Active
  /\ Finish(c, FALSE)
  /\ future' = [future EXCEPT ![c] = "aborted"]
  /\ UNCHANGED <<attempt, busyRetried, pending, hookRun, owed>>

-----------------------------------------------------------------------------
Caller(c) ==
  \/ Return(c) \/ AttemptFails(c) \/ BusyBackOff(c) \/ Refused(c)
  \/ AwaitNewer(c) \/ Retry(c)

Next ==
  \/ ListenerStops
  \/ \E c \in Cmd : \/ Call(c)
                    \/ Answer(c)
                    \/ IgnoredAnswer(c)
                    \/ Caller(c)
                    \/ WaitTimeout(c)
                    \/ Cancel(c)

\* The event loop runs every task that can go on, and the timeout bounds every
\* attempt.  Neither an answer nor max_wait is assumed to come.
Fairness == \A c \in Cmd : WF_vars(Caller(c))

Spec == Init /\ [][Next]_vars /\ Fairness

-----------------------------------------------------------------------------
PluginTypeOK ==
  /\ TypeOK
  /\ stage \in [Cmd -> Stage]
  /\ attempt \in [Cmd -> 0 .. MaxAttempts - 1]
  /\ busyRetried \subseteq Cmd
  /\ pending \subseteq Cmd
  /\ future \in [Cmd -> {"open"} \cup Settled]
  /\ hooked \subseteq Active
  /\ hookRun \subseteq Cmd
  /\ owed \in [Cmd -> 0 .. MaxAttempts]

Acknowledged == {c \in Cmd : c \in hookRun \/ stage[c] = "succeeded"}

Resent(c) == stage[c] \in {"backoff", "busyBackoff"} /\ stage'[c] = "awaiting"

\* "Aborting retries for superseded request": no attempt after the first is
\* sent once a command that replaces it was called, whether the first one got
\* no answer, lost its connection or was refused.
NoStaleResend ==
  [][\A c \in Cmd : Resent(c) => \A d \in Cmd : ~CalledLater(d, c)]_vars

\* A message that is sent again carries, for every shared field, a value at
\* least as new as that of every newer command the HCU has acknowledged.
ResendKeepsAcknowledged ==
  [][\A c \in Cmd : Resent(c) =>
       \A d \in Acknowledged : \A f \in Updates(d) \cap CarriesOf[request[c]] :
         Scp(d) = Scp(c) => sentFrom'[c][f] >= cmdSeq[d]]_vars

\* Every call ends, whatever answers come, come late or never come, and even
\* if max_wait never passes.
EveryCallEnds == \A c \in Cmd : phase[c] # "new" ~> phase[c] = "done"

\* How often the message of each running call went out: once per attempt, and
\* once more after DEVICE_BUSY.
TimesSent ==
  [c \in Cmd |->
     IF c \in Active
       THEN attempt[c] + 1
              + (IF c \in busyRetried /\ stage[c] # "busyBackoff" THEN 1 ELSE 0)
       ELSE 0]

\* The WebSocket commands keep the promise of Delivery: a message goes out at
\* most once per attempt and once more after DEVICE_BUSY, and after the first
\* time only if it is not replaced until then, whatever the listener does.
Promised == INSTANCE Delivery WITH
  Overrides <- Replacing,
  running <- Active,
  stale <- {c \in Active : Superseded(c)},
  sends <- TimesSent,
  MaxSends <- MaxAttempts + 1
ImplementsDelivery == Promised!DeliverySpec

\* The task of c does not depend on another call to go on.
CanGoOn(c) ==
  \/ stage[c] = "awaiting"
  \/ stage[c] \in {"backoff", "busyBackoff"} /\ phase[c] \in {"running", "woken"}

\* The calls never wait for newer calls that all wait themselves.
NeverAllBlocked == Active # {} => \E c \in Active : CanGoOn(c)
=============================================================================
