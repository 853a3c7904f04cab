--------------------------- MODULE AppRestCommands ---------------------------
(***************************************************************************)
(* How HcuApiClient sends the commands of an App User                      *)
(* (_async_app_rest_call, _async_app_rest_call_once in api.py): one POST   *)
(* at a time under _command_lock, and one retry after DEVICE_BUSY that is  *)
(* skipped if a newer command replaces it and refreshed if a newer command *)
(* decided a value it carries.  The HCU, which answers, refuses or stays   *)
(* silent, is modelled from how the code uses it.                          *)
(***************************************************************************)
EXTENDS TargetTracking, Sequences

\* Two commands that decide the same value: the older one's retry takes the newer
\* value over, or the newer command replaces it.  The tables of the commands the
\* entities send have this property: DecidedByTheTables in CommandStream.
ASSUME DecidedAssumption ==
  \A newer, older \in Request :
    /\ ScopeOf[newer] = ScopeOf[older]
    /\ (UpdatesOf[newer] \cap UpdatesOf[older]) \ CarriesOf[older] # {}
    => <<newer, older>> \in Replacing

VARIABLES
  stage,    \* where each call is in _async_app_rest_call
  retried,  \* the calls that were answered DEVICE_BUSY and may be sent again
  lock,     \* _command_lock: who holds it, then who waits, in order of arrival
  reply,    \* what became of each call's last POST
  hcu       \* whose value of each shared field the HCU applied last, and
            \* whether it did so after the caller had given up on the answer

restVars == <<stage, retried, lock, reply, hcu>>
vars == <<trackVars, restVars>>

Stage == {"idle",       \* not called yet
          "queued",     \* waits for _command_lock
          "posting",    \* holds the lock and waits for the answer
          "answered",   \* the success was recorded; the response is closed next
          "asleep",     \* sleeps, then waits for newer commands, before the retry
          "succeeded", "failed"}
Reply == {"none", "sent", "ok", "busy", "error"}

Init ==
  /\ TrackInit
  /\ stage = [c \in Cmd |-> "idle"]
  /\ retried = {}
  /\ lock = <<>>
  /\ reply = [c \in Cmd |-> "none"]
  /\ hcu = [s \in Scope |-> [f \in Field |-> [seq |-> 0, late |-> FALSE]]]

HasLock(c) == lock # <<>> /\ Head(lock) = c

\* asyncio.Lock serves its waiters first come, first served; one that is
\* cancelled leaves the queue.
InLock(c) == \E i \in 1 .. Len(lock) : lock[i] = c
LockWithout(c) ==
  IF InLock(c)
    THEN [i \in 1 .. Len(lock) - 1 |->
            IF \E j \in 1 .. i : lock[j] = c THEN lock[i + 1] ELSE lock[i]]
    ELSE lock

\* The call is over: it leaves the lock and the bookkeeping.
Finish(c, succeeded) ==
  /\ Leave(c, succeeded)
  /\ stage' = [stage EXCEPT ![c] = IF succeeded THEN "succeeded" ELSE "failed"]
  /\ lock' = LockWithout(c)
  /\ UNCHANGED <<retried, reply, hcu>>

-----------------------------------------------------------------------------
\* An entity calls the client and queues for the lock.
Call(c) ==
  /\ Enter(c)
  /\ stage' = [stage EXCEPT ![c] = "queued"]
  /\ lock' = Append(lock, c)
  /\ UNCHANGED <<retried, reply, hcu>>

\* The POST itself, of whatever body was prepared.
Send(c) ==
  /\ stage' = [stage EXCEPT ![c] = "posting"]
  /\ reply' = [reply EXCEPT ![c] = "sent"]
  /\ UNCHANGED <<retried, lock, hcu>>

\* The first POST, with the body the caller gave.
Post(c) ==
  /\ HasLock(c) /\ stage[c] = "queued" /\ c \notin retried
  /\ Send(c)
  /\ UNCHANGED trackVars

\* Mutant: a retry that queued for the lock does not look again.
PostRetryUnchecked(c) ==
  /\ HasLock(c) /\ stage[c] = "queued" /\ c \in retried
  /\ sentFrom' = [sentFrom EXCEPT ![c] = Refreshed(c)]
  /\ Send(c)
  /\ UNCHANGED <<request, phase, cmdSeq, gen, counters, inflight, overrides, scopeEvent>>

\* _prepare_retry_body, with the lock held: still wanted, with newer values.
PostRetry(c) ==
  /\ HasLock(c) /\ stage[c] = "queued" /\ c \in retried
  /\ ~Superseded(c)
  /\ sentFrom' = [sentFrom EXCEPT ![c] = Refreshed(c)]
  /\ Send(c)
  /\ UNCHANGED <<request, phase, cmdSeq, gen, counters, inflight, overrides, scopeEvent>>

\* _prepare_retry_body, with the lock held: replaced while it queued.
SkipQueuedRetry(c) ==
  /\ HasLock(c) /\ stage[c] = "queued" /\ c \in retried
  /\ Superseded(c)
  /\ Finish(c, FALSE)

-----------------------------------------------------------------------------
(* The HCU.                                                                 *)

\* It carries a command out.
HcuApply(c) ==
  /\ reply[c] = "sent"
  /\ reply' = [reply EXCEPT ![c] = "ok"]
  /\ hcu' = [hcu EXCEPT ![Scp(c)] =
               [f \in Field |->
                  IF f \in Updates(c) \cup CarriesOf[request[c]]
                    THEN [seq |-> sentFrom[c][f], late |-> phase[c] = "done"]
                    ELSE @[f]]]
  /\ UNCHANGED <<trackVars, stage, retried, lock>>

\* It refuses it: DEVICE_BUSY, or an error no retry helps with.
HcuRefuse(c) ==
  /\ reply[c] = "sent"
  /\ \E answer \in {"busy", "error"} : reply' = [reply EXCEPT ![c] = answer]
  /\ UNCHANGED <<trackVars, stage, retried, lock, hcu>>

-----------------------------------------------------------------------------
\* on_success: the success is recorded before the response is closed.
RecordSuccess(c) ==
  /\ stage[c] = "posting" /\ reply[c] = "ok"
  /\ Record(c)
  /\ stage' = [stage EXCEPT ![c] = "answered"]
  /\ UNCHANGED <<retried, lock, reply, hcu>>

Return(c) == stage[c] = "answered" /\ Finish(c, TRUE)

\* Every other end of a POST: an error, a second DEVICE_BUSY, a first one of a
\* command that was replaced meanwhile, a lost connection or the timeout.
Raise(c) ==
  /\ stage[c] \in {"posting", "answered"}
  /\ Finish(c, FALSE)

\* DEVICE_BUSY: the lock is released for the time of the back-off.
BackOff(c) ==
  /\ stage[c] = "posting" /\ reply[c] = "busy"
  /\ c \notin retried /\ ~Superseded(c)
  /\ stage' = [stage EXCEPT ![c] = "asleep"]
  /\ retried' = retried \cup {c}
  /\ lock' = LockWithout(c)
  /\ UNCHANGED <<trackVars, reply, hcu>>

\* The sleep is over, or the event was set, and a newer command still runs.
AwaitNewer(c) ==
  /\ stage[c] = "asleep" /\ phase[c] \in {"running", "woken"}
  /\ Wait(c)
  /\ UNCHANGED restVars

\* The retry stops waiting: it queues for the lock unless it was replaced.
GoOn(c) ==
  IF Superseded(c)
    THEN Finish(c, FALSE)
    ELSE /\ Resume(c)
         /\ stage' = [stage EXCEPT ![c] = "queued"]
         /\ lock' = Append(lock, c)
         /\ UNCHANGED <<request, cmdSeq, gen, sentFrom, counters, inflight,
                        overrides, retried, reply, hcu>>

\* Nothing to wait for (any more).
QueueRetry(c) ==
  /\ stage[c] = "asleep" /\ phase[c] \in {"running", "woken"} /\ ~MustWait(c)
  /\ GoOn(c)

\* max_wait has passed.
WaitTimeout(c) ==
  /\ stage[c] = "asleep" /\ phase[c] \in {"waiting", "woken"}
  /\ GoOn(c)

\* The caller's task is cancelled at one of its awaits.
Cancel(c) == c \in Active /\ Finish(c, FALSE)

-----------------------------------------------------------------------------
Client(c) ==
  \/ Post(c) \/ PostRetry(c) \/ SkipQueuedRetry(c)
  \/ RecordSuccess(c) \/ Return(c) \/ Raise(c) \/ BackOff(c)
  \/ AwaitNewer(c) \/ QueueRetry(c)

Next ==
  \E c \in Cmd : \/ Call(c)
                 \/ Client(c)
                 \/ WaitTimeout(c)
                 \/ Cancel(c)
                 \/ HcuApply(c)
                 \/ HcuRefuse(c)

\* The event loop runs every task that can go on, and the timeout bounds every
\* POST.  That max_wait ends a wait is deliberately not assumed.
Fairness == \A c \in Cmd : WF_vars(Client(c))

Spec == Init /\ [][Next]_vars /\ Fairness

-----------------------------------------------------------------------------
RestTypeOK ==
  /\ TypeOK
  /\ stage \in [Cmd -> Stage]
  /\ retried \subseteq Cmd
  /\ reply \in [Cmd -> Reply]
  /\ hcu \in [Scope -> [Field -> [seq : Nat, late : BOOLEAN]]]

Acknowledged == {c \in Cmd : stage[c] \in {"answered", "succeeded"}}

\* "skipping the retry if a newer command was issued for the same target"
\* (docstring of _async_app_rest_call): at the moment a retry is sent, no
\* command that replaces it has been called, however long the retry slept,
\* waited for other commands and queued for the lock.
NoStaleRetry ==
  [][\A c \in Cmd :
       stage[c] = "queued" /\ stage'[c] = "posting" /\ c \in retried
         => \A d \in Cmd : ~CalledLater(d, c)]_vars

\* "Refresh shared payload fields before retrying so newer values are kept"
\* (docstring of _refresh_retry_body): once a command was acknowledged, no
\* older command puts an older value of a field it decided back, unless the
\* HCU carries out a POST whose caller had already given up on it.
NewerValueKept ==
  \A d \in Acknowledged : \A f \in Updates(d) :
    \/ hcu[Scp(d)][f].seq >= cmdSeq[d]
    \/ hcu[Scp(d)][f].late

\* Every call ends, although the calls wait for the lock and retries wait for
\* newer commands, which may be retries that wait themselves; the wake-ups
\* suffice for that, even if max_wait never passes.
EveryCallEnds == \A c \in Cmd : phase[c] # "new" ~> phase[c] = "done"

\* How often the body of each running call was posted.
TimesPosted ==
  [c \in Cmd |->
     IF c \in Active
       THEN (IF c \in retried THEN 1 ELSE 0)
              + (IF stage[c] \in {"posting", "answered"} THEN 1 ELSE 0)
       ELSE 0]

\* The REST commands keep the promise of Delivery: a command is posted once, and
\* a second time only if it is not replaced until then; every other call, answer,
\* wait and cancellation leaves what was sent alone.
Promised == INSTANCE Delivery WITH
  Overrides <- Replacing,
  running <- Active,
  stale <- {c \in Active : Superseded(c)},
  sends <- TimesPosted,
  MaxSends <- 2
ImplementsDelivery == Promised!DeliverySpec

\* The task of c does not depend on another call to go on: it holds the lock, it
\* waits for an answer, or it is about to look for newer commands.
CanGoOn(c) ==
  \/ stage[c] \in {"posting", "answered"}
  \/ stage[c] = "queued" /\ HasLock(c)
  \/ stage[c] = "asleep" /\ phase[c] \in {"running", "woken"}

\* The calls never wait on each other in a circle, over the lock, over the events
\* of their targets or over both.
NeverAllBlocked == Active # {} => \E c \in Active : CanGoOn(c)
=============================================================================
