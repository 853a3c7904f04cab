--------------------------- MODULE TargetTracking ---------------------------
(***************************************************************************)
(* The bookkeeping HcuApiClient (api.py) keeps about overlapping commands: *)
(* _track_target_command and the helpers a retry consults.  It is shared   *)
(* by the two ways a command is sent, REST for App Users (AppRestCommands) *)
(* and the WebSocket for Plugin Users (PluginRequests), which add what     *)
(* happens between the start and the end of a command.                     *)
(*                                                                         *)
(* asyncio runs one step at a time and switches only at an await, so each  *)
(* action below is the code between two awaits.  A retry that waits for    *)
(* newer commands waits on an event object of its scope; scopeEvent[s] is  *)
(* the set of commands waiting on the object currently registered for s.   *)
(***************************************************************************)
EXTENDS Naturals, FiniteSets

CONSTANTS
  Cmd,        \* the command calls; each is made at most once
  Request,    \* what a command may ask for
  Scope,      \* the targets: a device channel, a group, ...
  Aspect,     \* the settings of a target
  Field,      \* the payload fields shared by commands on one target
  ScopeOf, AspectOf, ExtrasOf,  \* the tables of CommandAspects: _command_target_scope
  UpdatesOf,  \* the shared fields a request decides: _command_field_updates
  NeedsOf,    \* the shared fields a retry refreshes: _retry_field_map
  CarriesOf   \* those of them that are in the body of the request

ASSUME TablesAssumption ==
  /\ ScopeOf \in [Request -> Scope]
  /\ AspectOf \in [Request -> Aspect]
  /\ ExtrasOf \in [Request -> SUBSET Aspect]
  /\ UpdatesOf \in [Request -> SUBSET Field]
  /\ NeedsOf \in [Request -> SUBSET Field]
  /\ CarriesOf \in [Request -> SUBSET Field]
  /\ \A r \in Request : AspectOf[r] \notin ExtrasOf[r]
  /\ \A r \in Request : CarriesOf[r] \subseteq NeedsOf[r]

VARIABLES
  request,       \* what each command asks for
  phase,         \* where each command is
  cmdSeq,        \* the sequence number each command got when it started
  gen,           \* the generation of its setting it started
  sentFrom,      \* whose value each shared field of its last body had
  commandSeq,    \* _command_seq
  activeCounts,  \* _scope_active_counts
  targetActiveCounts,  \* _target_active_counts
  generations,   \* _target_generations
  inflight,      \* the commands listed in _scope_inflight_fields
  overrides,     \* _scope_field_overrides
  scopeEvent     \* _scope_change_events

counters == <<commandSeq, activeCounts, targetActiveCounts, generations>>
trackVars == <<request, phase, cmdSeq, gen, sentFrom, counters, inflight,
               overrides, scopeEvent>>

Phase == {"new",       \* not called yet
          "running",   \* sent, or about to be sent
          "waiting",   \* a retry that waits for newer commands on its target
          "woken",     \* the event it waits for was set; it has not run yet
          "done"}

Key == Scope \X Aspect
NoOverride == [seq |-> 0, from |-> 0]

Scp(c) == ScopeOf[request[c]]
KeyOf(c) == <<Scp(c), AspectOf[request[c]]>>
Updates(c) == UpdatesOf[request[c]]
Needs(c) == NeedsOf[request[c]]
Active == {c \in Cmd : phase[c] \in {"running", "waiting", "woken"}}

TrackInit ==
  /\ request \in [Cmd -> Request]
  /\ phase = [c \in Cmd |-> "new"]
  /\ cmdSeq = [c \in Cmd |-> 0]
  /\ gen = [c \in Cmd |-> 0]
  /\ sentFrom = [c \in Cmd |-> [f \in Field |-> 0]]
  /\ commandSeq = 0
  /\ activeCounts = [s \in Scope |-> 0]
  /\ targetActiveCounts = [k \in Key |-> 0]
  /\ generations = [k \in Key |-> 0]
  /\ inflight = {}
  /\ overrides = [s \in Scope |-> [f \in Field |-> NoOverride]]
  /\ scopeEvent = [s \in Scope |-> {}]

-----------------------------------------------------------------------------
\* The event of a scope is taken out of the registry and set.
Woken(ph, s) ==
  [c \in Cmd |-> IF c \in scopeEvent[s] /\ ph[c] = "waiting" THEN "woken" ELSE ph[c]]
Forgotten(s) == [scopeEvent EXCEPT ![s] = {}]

\* Mutant: the loop over the extra aspects needs two running commands.
OverriddenOffByOne(c) ==
  {k \in Key : /\ k[1] = Scp(c)
               /\ k[2] \in ExtrasOf[request[c]]
               /\ targetActiveCounts[k] > 1}

\* The settings besides its own whose running commands a new command overrides.
Overridden(c) ==
  {k \in Key : /\ k[1] = Scp(c)
               /\ k[2] \in ExtrasOf[request[c]]
               /\ targetActiveCounts[k] > 0}

\* _is_target_superseded
Superseded(c) == generations[KeyOf(c)] # gen[c]

\* A command is called and registers itself on its target.
Enter(c) ==
  /\ phase[c] = "new"
  /\ commandSeq' = commandSeq + 1
  /\ cmdSeq' = [cmdSeq EXCEPT ![c] = commandSeq + 1]
  /\ sentFrom' = [sentFrom EXCEPT ![c] = [f \in Field |-> commandSeq + 1]]
  /\ activeCounts' = [activeCounts EXCEPT ![Scp(c)] = @ + 1]
  /\ inflight' = IF Updates(c) = {} THEN inflight ELSE inflight \cup {c}
  /\ gen' = [gen EXCEPT ![c] = generations[KeyOf(c)] + 1]
  /\ targetActiveCounts' = [targetActiveCounts EXCEPT ![KeyOf(c)] = @ + 1]
  /\ generations' = [k \in Key |->
                       IF k \in {KeyOf(c)} \cup Overridden(c)
                         THEN generations[k] + 1 ELSE generations[k]]
  /\ IF generations[KeyOf(c)] > 0 \/ Overridden(c) # {}
       THEN /\ phase' = [Woken(phase, Scp(c)) EXCEPT ![c] = "running"]
            /\ scopeEvent' = Forgotten(Scp(c))
       ELSE /\ phase' = [phase EXCEPT ![c] = "running"]
            /\ UNCHANGED scopeEvent
  /\ UNCHANGED <<request, overrides>>

\* Mutant: whoever finishes last is recorded, not whoever was called last.
RecordedLastFinished(c, from) ==
  [overrides EXCEPT ![Scp(c)] =
     [f \in Field |->
        IF f \in Updates(c) /\ activeCounts[Scp(c)] > 1
          THEN [seq |-> cmdSeq[c], from |-> from[f]]
          ELSE @[f]]]

\* The override entries after c's fields were recorded, with values from from.
Recorded(c, from) ==
  [overrides EXCEPT ![Scp(c)] =
     [f \in Field |->
        IF f \in Updates(c) /\ activeCounts[Scp(c)] > 1 /\ @[f].seq < cmdSeq[c]
          THEN [seq |-> cmdSeq[c], from |-> from[f]]
          ELSE @[f]]]

\* Mutant: the fields are dropped without waking anybody.
PopInflightSilently(c, ph, ev) ==
  inflight' = inflight \ {c} /\ phase' = ph /\ scopeEvent' = ev

\* _pop_inflight_fields, on top of a change of the phases to ph and of the
\* registered events to ev.
PopInflight(c, ph, ev) ==
  IF c \in inflight
    THEN /\ inflight' = inflight \ {c}
         /\ phase' = Woken(ph, Scp(c))
         /\ scopeEvent' = [ev EXCEPT ![Scp(c)] = {}]
    ELSE phase' = ph /\ scopeEvent' = ev /\ UNCHANGED inflight

\* The response of c arrived and is recorded before its task runs again.
Record(c) ==
  /\ phase[c] = "running"
  /\ overrides' = Recorded(c, sentFrom[c])
  /\ PopInflight(c, phase, scopeEvent)
  /\ UNCHANGED <<request, cmdSeq, gen, sentFrom, counters>>

\* The registered events once c waits no longer; the last command on the scope
\* takes the event out without setting it.
EventsWithout(c) ==
  [scopeEvent EXCEPT ![Scp(c)] = IF activeCounts[Scp(c)] = 1 THEN {} ELSE @ \ {c}]

\* Mutant: every command takes the generation of its setting with it.
GenerationsWithoutAlways(c) == [generations EXCEPT ![KeyOf(c)] = 0]

\* The generation of a setting goes with the last command on it.
GenerationsWithout(c) ==
  [generations EXCEPT ![KeyOf(c)] =
     IF targetActiveCounts[KeyOf(c)] = 1 THEN 0 ELSE @]

\* Mutant: the recorded values outlive the last command on the target.
OverridesWithoutNever(c, recorded) == recorded

\* The recorded values go with the last command on the target.
OverridesWithout(c, recorded) ==
  IF activeCounts[Scp(c)] = 1
    THEN [recorded EXCEPT ![Scp(c)] = [f \in Field |-> NoOverride]]
    ELSE recorded

\* The command leaves: what it decided is recorded if it succeeded, and the
\* last command on a setting or a target takes its bookkeeping with it.
Leave(c, succeeded) ==
  /\ PopInflight(c, [phase EXCEPT ![c] = "done"], EventsWithout(c))
  /\ targetActiveCounts' = [targetActiveCounts EXCEPT ![KeyOf(c)] = @ - 1]
  /\ generations' = GenerationsWithout(c)
  /\ activeCounts' = [activeCounts EXCEPT ![Scp(c)] = @ - 1]
  /\ overrides' =
       OverridesWithout(c, IF succeeded
                             THEN Recorded(c, [f \in Field |-> cmdSeq[c]])
                             ELSE overrides)
  /\ UNCHANGED <<request, cmdSeq, gen, sentFrom, commandSeq>>

\* A command that is still listed as in flight, was called after c and decides
\* a field that a retry of c would send.
NewerInFlight(c) ==
  \E d \in inflight : /\ Scp(d) = Scp(c)
                      /\ cmdSeq[d] > cmdSeq[c]
                      /\ Updates(d) \cap Needs(c) # {}

\* The loop condition of _await_newer_field_updates.
MustWait(c) == ~Superseded(c) /\ NewerInFlight(c)

\* A retry of c blocks on the event of its scope.
Wait(c) ==
  /\ MustWait(c)
  /\ phase' = [phase EXCEPT ![c] = "waiting"]
  /\ scopeEvent' = [scopeEvent EXCEPT ![Scp(c)] = @ \cup {c}]
  /\ UNCHANGED <<request, cmdSeq, gen, sentFrom, counters, inflight, overrides>>

\* It goes on: nothing to wait for any more, or max_wait has passed.
Resume(c) ==
  /\ phase' = [phase EXCEPT ![c] = "running"]
  /\ scopeEvent' = [scopeEvent EXCEPT ![Scp(c)] = @ \ {c}]

\* Mutant: the retry is sent with the body it was called with.
RefreshedNever(c) == [f \in Field |-> cmdSeq[c]]

\* _refresh_retry_body: whose value each shared field has in the next body.
Refreshed(c) ==
  [f \in Field |->
     IF f \in CarriesOf[request[c]] /\ overrides[Scp(c)][f].seq > cmdSeq[c]
       THEN overrides[Scp(c)][f].from
       ELSE cmdSeq[c]]

-----------------------------------------------------------------------------
(* The bookkeeping on its own: a command may succeed, fail or be cancelled  *)
(* at any point and may be sent again at any point.                         *)

BeginWait(c) == phase[c] = "running" /\ Wait(c)

WaitAgain(c) == phase[c] = "woken" /\ Wait(c)

StopWaiting(c) ==
  /\ phase[c] \in {"waiting", "woken"}
  /\ Resume(c)
  /\ UNCHANGED <<request, cmdSeq, gen, sentFrom, counters, inflight, overrides>>

Refresh(c) ==
  /\ phase[c] = "running"
  /\ sentFrom' = [sentFrom EXCEPT ![c] = Refreshed(c)]
  /\ UNCHANGED <<request, phase, cmdSeq, gen, counters, inflight, overrides,
                 scopeEvent>>

Succeed(c) == phase[c] = "running" /\ Leave(c, TRUE)

\* Mutant: the clean-up runs once more for a command that is over.
FailTwice(c) == phase[c] # "new" /\ Leave(c, FALSE)

Fail(c) == c \in Active /\ Leave(c, FALSE)

TrackNext ==
  \E c \in Cmd : \/ Enter(c)
                 \/ Record(c)
                 \/ BeginWait(c)
                 \/ WaitAgain(c)
                 \/ StopWaiting(c)
                 \/ Refresh(c)
                 \/ Succeed(c)
                 \/ Fail(c)

TrackSpec == TrackInit /\ [][TrackNext]_trackVars

-----------------------------------------------------------------------------
TypeOK ==
  /\ request \in [Cmd -> Request]
  /\ phase \in [Cmd -> Phase]
  /\ cmdSeq \in [Cmd -> Nat]
  /\ gen \in [Cmd -> Nat]
  /\ sentFrom \in [Cmd -> [Field -> Nat]]
  /\ commandSeq \in Nat
  /\ activeCounts \in [Scope -> Nat]
  /\ targetActiveCounts \in [Key -> Nat]
  /\ generations \in [Key -> Nat]
  /\ inflight \in SUBSET Cmd
  /\ overrides \in [Scope -> [Field -> [seq : Nat, from : Nat]]]
  /\ scopeEvent \in [Scope -> SUBSET Cmd]

\* The <<newer, older>> requests of which the newer one replaces the older.
Replacing ==
  {p \in Request \X Request :
     /\ ScopeOf[p[1]] = ScopeOf[p[2]]
     /\ AspectOf[p[2]] \in {AspectOf[p[1]]} \cup ExtrasOf[p[1]]}

\* d was called after c on the same target and replaces the setting c changes.
CalledLater(d, c) ==
  /\ phase[d] # "new"
  /\ cmdSeq[d] > cmdSeq[c]
  /\ <<request[d], request[c]>> \in Replacing

\* The generation counters answer "was a newer command started for the same
\* target?" (_is_target_superseded) exactly, for every running command: no
\* newer command is missed, and none that merely shares the target, came
\* earlier, or already took its counters with it makes a command give up.
SupersededExact ==
  \A c \in Active : Superseded(c) <=> \E d \in Cmd : CalledLater(d, c)

\* A retry never sleeps on an event nobody will set: as long as it waits, a
\* newer command it waits for is listed in flight, it is not superseded, and
\* the event registered for its scope is the one it waits on, so the end of
\* that command or a superseding one wakes it.
NoLostWakeup ==
  \A c \in Cmd : phase[c] = "waiting" => c \in scopeEvent[Scp(c)] /\ MustWait(c)

\* Once no command runs on a target or a setting, nothing of it is left that
\* could make the next command there look superseded or refresh its body.
IdleTargetForgotten ==
  /\ \A s \in Scope : (\A c \in Active : Scp(c) # s) =>
       /\ activeCounts[s] = 0
       /\ overrides[s] = [f \in Field |-> NoOverride]
       /\ scopeEvent[s] = {}
  /\ \A k \in Key : (\A c \in Active : KeyOf(c) # k) =>
       targetActiveCounts[k] = 0 /\ generations[k] = 0
  /\ inflight \subseteq Active

\* A value that a retry took over from a newer command is never recorded as
\* the retry's own: every entry holds the value of the command it names.
RecordedByItsAuthor ==
  \A s \in Scope, f \in Field : overrides[s][f].from = overrides[s][f].seq

\* The bookkeeping of scopes, generations and counts does exactly what
\* Supersession promises: a command becomes stale when, and only when, a
\* command that replaces it starts.
Promise == INSTANCE Supersession WITH
  Overrides <- Replacing,
  running <- Active,
  stale <- {c \in Active : Superseded(c)}
ImplementsSupersession == Promise!Spec
=============================================================================
