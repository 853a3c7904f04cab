------------------------------ MODULE Climate ------------------------------
(***************************************************************************)
(* HcuClimate (climate.py), a heating group.  A service call shows what it *)
(* asks for at once and then sends up to three commands, awaiting each;    *)
(* which of them it sends is decided from the cached group as the call     *)
(* gets to it.  Reports of the group and of the home arrive in between,    *)
(* and other calls run in parallel (PARALLEL_UPDATES = 0).                 *)
(*   Temperatures are "min" (at or below the minimum of the group),        *)
(* "comfort", "high", and "eco", which is only shown.                      *)
(***************************************************************************)
EXTENDS Naturals, Sequences, FiniteSets, FiniteSetsExt

CONSTANTS Visit,       \* the service calls
          MaxClimate   \* bound on what the HCU reports of its own accord

VARIABLES
  season,   \* "heating", "cooling", or "blocked" (coolingIgnored); never changes
  asked,    \* what each call asks for
  stage,    \* New, the number of the step a call awaits the answer of, Done or
            \* Over (failed or cancelled)
  note,     \* what a call noted when it began (current_preset, previous_target,
            \* reset_to_comfort)
  wire,     \* the command of each call on its way to the HCU, or "none"; "obeyed"
            \* once it was carried out, as long as the call goes on
  room,     \* the attributes of the entity (_attr_assumed_state, ...)
  group,    \* the group and the absence of the home, in the client's cache
  panel,    \* the state written to Home Assistant
  hcu,      \* the group and the absence of the home, on the HCU
  posts,    \* the reports not handled yet
  posted,   \* how many of them the HCU made of its own accord
  lone,     \* history: the call that ran by itself from a settled state
  heard     \* history: the group was reported since a call last began

hcuSide == <<hcu, posts, posted>>
climateVars == <<season, asked, stage, note, wire, room, group, panel, hcuSide,
                 lone, heard>>

Profile == {"p2"}   \* the profiles asked for; "p1" is active at first
Ask == ({"temperature"} \X {"min", "high"})
         \cup ({"hvac"} \X {"off", "auto", "heat", "cool"})
         \cup ({"preset"} \X ({"boost", "party"} \cup Profile))
         \cup ({"party"} \X {"high"})
None == <<>>

\* The stages of a call besides its steps.
New == 0
Done == 4
Over == 5

-----------------------------------------------------------------------------
\* What the group g says of itself.
ActiveMode == IF season = "cooling" THEN "cool" ELSE "heat"
ModeOf(g) ==
  CASE g.mode = "AUTOMATIC" -> "auto"
    [] g.mode = "MANUAL" /\ g.setPoint = "min" -> "off"
    [] OTHER -> ActiveMode
TargetOf(g) == IF g.absence = "eco" THEN "eco" ELSE g.setPoint
PresetOf(g) ==
  CASE season = "blocked" -> "eco"
    [] g.boost -> "boost"
    [] g.absence = "vacation" -> "away"
    [] g.absence = "eco" -> "eco"
    [] g.party -> "party"
    [] OTHER -> g.profile

\* hvac_mode, native_target_temperature and preset_mode of a group.
Plain(g) == [mode |-> IF season = "blocked" THEN "off" ELSE ModeOf(g),
             target |-> TargetOf(g), preset |-> PresetOf(g)]

\* The same with the attributes r of the entity, which count while assumed.
Written(r, g) ==
  IF r.assumed
    THEN [mode |-> r.mode, target |-> r.target,
          preset |-> IF r.preset = "none" THEN PresetOf(g) ELSE r.preset]
    ELSE Plain(g)

\* _update_attributes_from_group_data
Refreshed(r, g) ==
  IF r.assumed /\ r.mode = "off" /\ g.mode = "MANUAL" /\ g.setPoint # "min"
    THEN r
    ELSE [r EXCEPT !.mode = ModeOf(g), !.target = TargetOf(g)]

ClimateInit ==
  /\ season \in {"heating", "cooling", "blocked"}
  /\ asked \in [Visit -> Ask]
  /\ stage = [v \in Visit |-> New]
  /\ note = [v \in Visit |-> "none"]
  /\ wire = [v \in Visit |-> "none"]
  /\ hcu \in [mode : {"AUTOMATIC", "MANUAL"}, setPoint : {"min", "high"},
              boost : {FALSE}, party : BOOLEAN, profile : {"p1"},
              absence : {"none"}]
  /\ group = hcu /\ panel = Plain(hcu)
  /\ room = [assumed |-> FALSE, mode |-> ModeOf(hcu), target |-> TargetOf(hcu),
             preset |-> "none"]
  /\ posts = <<>> /\ posted = 0
  /\ lone = None /\ heard = TRUE

-----------------------------------------------------------------------------
\* The commands of a call, in order ...
Steps(ask) ==
  CASE ask[1] = "temperature" -> <<"heatManual", "setPoint">>
    [] ask = <<"hvac", "off">> -> <<"manual", "toMin">>
    [] ask = <<"hvac", "auto">> -> <<"automatic">>
    [] ask[1] = "hvac" /\ ask[2] \in {"heat", "cool"} -> <<"manual", "toComfort">>
    [] ask = <<"preset", "boost">> -> <<"boost">>
    [] ask = <<"preset", "party">> \/ ask[1] = "party" -> <<"party">>
    [] ask[1] = "preset" /\ ask[2] \in Profile -> <<"noBoost", "leave", "profile">>

\* Mutant: leaving the party mode takes no command of its own.
LeavesSchedule(n, g) == g.mode # "AUTOMATIC"
\* Whether a profile needs the control mode AUTOMATIC, which ends the party.
Leaves(n, g) == g.mode # "AUTOMATIC" \/ n = "party"

\* ... and whether one is sent, for the note n of the call, the attributes r and
\* the cached group g as the call gets to it.
Needed(step, n, r, g) ==
  CASE step = "heatManual" -> r.mode = "heat" /\ g.mode # "MANUAL"
    [] step = "manual" -> g.mode # "MANUAL"
    [] step = "toMin" -> g.setPoint # "min"
    [] step = "automatic" -> g.mode # "AUTOMATIC"
    [] step = "toComfort" -> n = "reset"
    [] step = "noBoost" -> n = "boost"
    [] step = "leave" -> Leaves(n, g)
    [] OTHER -> TRUE

\* What a call notes before it changes anything.
NoteOf(ask) ==
  CASE ask[1] = "preset" /\ ask[2] # "party" -> Written(room, group).preset
    [] ask[1] = "party" \/ ask = <<"preset", "party">> -> room.target
    [] ask[1] = "hvac" /\ group.setPoint = "min" -> "reset"
    [] OTHER -> "none"

\* The attributes a call sets before its first command.
Assumed(ask) ==
  LET r == [room EXCEPT !.assumed = TRUE]
  IN  CASE ask = <<"temperature", "min">> -> [r EXCEPT !.target = "min", !.mode = "off"]
        [] ask = <<"temperature", "high">> ->
             [r EXCEPT !.target = "high",
                       !.mode = IF @ \in {"auto", "heat"} THEN @ ELSE "heat"]
        [] ask = <<"hvac", "off">> -> [r EXCEPT !.mode = "off", !.target = "min"]
        [] ask = <<"hvac", "auto">> -> [r EXCEPT !.mode = "auto"]
        [] ask[1] = "hvac" /\ ask[2] \in {"heat", "cool"} ->
             [r EXCEPT !.mode = ask[2],
                       !.target = IF group.setPoint = "min" THEN "comfort" ELSE @]
        [] ask = <<"preset", "party">> -> [r EXCEPT !.preset = "party", !.target = "comfort"]
        [] ask = <<"preset", "boost">> \/ (ask[1] = "preset" /\ ask[2] \in Profile) ->
             [r EXCEPT !.preset = ask[2]]
        [] ask[1] = "party" -> [r EXCEPT !.preset = "party", !.target = ask[2]]

\* The preset is no longer assumed.
Cleared(r) == [r EXCEPT !.assumed = FALSE, !.preset = "none"]

\* The modes and presets offered; async_set_temperature does nothing while
\* cooling is blocked.
Offered(ask) ==
  CASE ask[1] = "hvac" ->
         ask[2] = "off" \/ (season # "blocked" /\ ask[2] \in {"auto", ActiveMode})
    [] ask[1] \in {"temperature", "preset"} -> season # "blocked"
    [] OTHER -> TRUE

Running(v) == stage[v] \in 1 .. 3

\* The call v goes on after its step i, with the attributes r and the note n: it
\* sends the next command, or is done; a preset is then no longer assumed.
Proceed(v, i, n, r) ==
  LET steps == Steps(asked[v])
      rest == {j \in i + 1 .. Len(steps) : Needed(steps[j], n, r, group)}
      ends == IF asked[v][1] = "preset" THEN Cleared(r) ELSE r
  IN  IF rest = {}
        THEN /\ stage' = [stage EXCEPT ![v] = Done]
             /\ wire' = [wire EXCEPT ![v] = "none"]
             /\ room' = ends
             /\ panel' = IF i > 0 /\ ends = r THEN panel ELSE Written(ends, group)
        ELSE /\ stage' = [stage EXCEPT ![v] = Min(rest)]
             /\ wire' = [wire EXCEPT ![v] = steps[Min(rest)]]
             /\ room' = r
             /\ panel' = IF i > 0 THEN panel ELSE Written(r, group)

\* A call by itself: nothing is assumed, on its way or to be reported.
Settled(v) ==
  /\ ~room.assumed /\ posts = <<>> /\ group = hcu
  /\ \A w \in Visit : ~Running(w) /\ wire[w] \in {"none", "obeyed"}

\* async_set_temperature, async_set_hvac_mode, async_set_preset_mode and
\* async_activate_party_mode, up to the first command
BeginCall(v) ==
  /\ stage[v] = New /\ Offered(asked[v])
  /\ note' = [note EXCEPT ![v] = NoteOf(asked[v])]
  /\ Proceed(v, 0, note'[v], Assumed(asked[v]))
  /\ lone' = IF Settled(v) THEN <<v>> ELSE None
  /\ heard' = FALSE
  /\ UNCHANGED <<season, asked, group, hcuSide>>

\* The HCU accepted the command, and the call goes on.
Continue(v) ==
  /\ Running(v) /\ wire[v] = "obeyed"
  /\ Proceed(v, stage[v], note[v], room)
  /\ UNCHANGED <<season, asked, note, group, hcuSide, lone, heard>>

\* The command failed, refused or without an answer: a preset and a party are no
\* longer assumed, a temperature or a mode still is.
GiveUpCall(v) ==
  LET ask == asked[v]
      party == ask[1] = "party" \/ ask = <<"preset", "party">>
  IN  /\ Running(v)
      /\ stage' = [stage EXCEPT ![v] = Over]
      /\ room' = IF party THEN [Cleared(room) EXCEPT !.target = note[v]]
                 ELSE IF ask[1] = "preset" THEN Cleared(room) ELSE room
      /\ panel' = IF room' = room THEN panel ELSE Written(room', group)
      /\ note' = [note EXCEPT ![v] = "none"]
      /\ wire' = [wire EXCEPT ![v] = IF @ = "obeyed" THEN "none" ELSE @]
      /\ UNCHANGED <<season, asked, group, hcuSide, lone, heard>>

\* The service call is cancelled; everything stays assumed.
CancelCall(v) ==
  /\ Running(v)
  /\ stage' = [stage EXCEPT ![v] = Over]
  /\ note' = [note EXCEPT ![v] = "none"]
  /\ wire' = [wire EXCEPT ![v] = IF @ = "obeyed" THEN "none" ELSE @]
  /\ UNCHANGED <<season, asked, room, group, panel, hcuSide, lone, heard>>

-----------------------------------------------------------------------------
\* Mutant: a report of the group leaves the attributes assumed.
GroupReportedAssuming ==
  /\ posts # <<>> /\ Head(posts)[1] = "group"
  /\ posts' = Tail(posts)
  /\ group' = [Head(posts)[2] EXCEPT !.absence = group.absence]
  /\ room' = Refreshed(room, group')
  /\ panel' = Written(room', group')
  /\ heard' = TRUE
  /\ UNCHANGED <<season, asked, stage, note, wire, hcu, posted, lone>>

\* _handle_coordinator_update for the group: the attributes follow it, and are
\* then no longer assumed.
GroupReported ==
  /\ posts # <<>> /\ Head(posts)[1] = "group"
  /\ posts' = Tail(posts)
  /\ group' = [Head(posts)[2] EXCEPT !.absence = group.absence]
  /\ room' = [Refreshed(room, group') EXCEPT !.assumed = FALSE]
  /\ panel' = Written(room', group')
  /\ heard' = TRUE
  /\ UNCHANGED <<season, asked, stage, note, wire, hcu, posted, lone>>

\* ... for the home, whose absence the target and the preset depend on, ...
HomeReported ==
  /\ posts # <<>> /\ Head(posts)[1] = "home"
  /\ posts' = Tail(posts)
  /\ group' = [group EXCEPT !.absence = Head(posts)[2].absence]
  /\ room' = Refreshed(room, group')
  /\ panel' = Written(room', group')
  /\ UNCHANGED <<season, asked, stage, note, wire, hcu, posted, lone, heard>>

\* ... and for anything else: the attributes follow, nothing is written.
OtherReported ==
  /\ room' = Refreshed(room, group)
  /\ UNCHANGED <<season, asked, stage, note, wire, group, panel, hcuSide, lone, heard>>

\* What a command makes of the group: AUTOMATIC ends a party and takes the set
\* point of the schedule.
Effect(g, step, ask) ==
  CASE step \in {"heatManual", "manual"} -> [g EXCEPT !.mode = "MANUAL"]
    [] step \in {"automatic", "leave"} ->
         [g EXCEPT !.mode = "AUTOMATIC", !.party = FALSE, !.setPoint = "comfort"]
    [] step = "setPoint" -> [g EXCEPT !.setPoint = ask[2]]
    [] step = "toMin" -> [g EXCEPT !.setPoint = "min"]
    [] step = "toComfort" -> [g EXCEPT !.setPoint = "comfort"]
    [] step = "boost" -> [g EXCEPT !.boost = TRUE]
    [] step = "noBoost" -> [g EXCEPT !.boost = FALSE]
    [] step = "profile" -> [g EXCEPT !.profile = ask[2]]
    [] step = "party" ->
         [g EXCEPT !.party = TRUE,
                   !.setPoint = IF ask[1] = "party" THEN ask[2] ELSE "comfort"]

\* The HCU carries out the command a call sent last, and reports the group if
\* that changed it; a command it refuses is one it never carries out.
HcuObeys(v) ==
  /\ wire[v] \notin {"none", "obeyed"}
  /\ wire' = [wire EXCEPT ![v] = IF Running(v) THEN "obeyed" ELSE "none"]
  /\ hcu' = Effect(hcu, wire[v], asked[v])
  /\ posts' = IF hcu' = hcu THEN posts ELSE Append(posts, <<"group", hcu'>>)
  /\ UNCHANGED <<season, asked, stage, note, room, group, panel, posted, lone, heard>>

\* Somebody changes the room, or whether anyone is home.
HcuChanges ==
  /\ posted < MaxClimate
  /\ posted' = posted + 1
  /\ \/ \E mode \in {"AUTOMATIC", "MANUAL"} :
          hcu' = [hcu EXCEPT !.mode = mode, !.setPoint = "high"]
          /\ posts' = Append(posts, <<"group", hcu'>>)
     \/ \E absence \in {"eco", "vacation"} :
          hcu' = [hcu EXCEPT !.absence = absence]
          /\ posts' = Append(posts, <<"home", hcu'>>)
  /\ lone' = None
  /\ UNCHANGED <<season, asked, stage, note, wire, room, group, panel, heard>>

ClimateNext ==
  \/ GroupReported \/ HomeReported \/ OtherReported \/ HcuChanges
  \/ \E v \in Visit : BeginCall(v) \/ Continue(v) \/ GiveUpCall(v) \/ CancelCall(v)
                        \/ HcuObeys(v)

ClimateSpec == ClimateInit /\ [][ClimateNext]_climateVars

-----------------------------------------------------------------------------
ClimateTypeOK ==
  /\ asked \in [Visit -> Ask] /\ stage \in [Visit -> 0 .. 5]
  /\ room.mode \in {"auto", "heat", "cool", "off"}
  /\ \A v \in Visit : wire[v] # "none" => stage[v] \in 1 .. 3 \cup {Over}
  /\ room.preset # "none" => stage # [v \in Visit |-> New]

\* Once every report was handled, and the group was reported since a call last
\* began, the room shows what the HCU has, whatever the calls assume, whichever
\* of their commands failed, and in whatever order they ended.
ShowsTheRoom ==
  posts = <<>> /\ heard /\ group = hcu => panel = Plain(hcu)

\* What a call that ran by itself and was done leaves behind: which of its
\* commands a call needs is decided while reports of its first ones come in,
\* and together they must add up to what was asked for.
LoneCallTakesEffect ==
  \A v \in Visit : stage[v] = Done /\ lone = <<v>> =>
    LET ask == asked[v]
    IN  CASE ask[1] = "temperature" -> hcu.setPoint = ask[2]
          [] ask[1] = "hvac" -> ModeOf(hcu) = ask[2]
          [] ask = <<"preset", "boost">> -> hcu.boost
          [] ask[1] = "preset" /\ ask[2] \in Profile ->
               /\ hcu.mode = "AUTOMATIC" /\ hcu.profile = ask[2]
               /\ note[v] = "boost" => ~hcu.boost
               /\ note[v] = "party" => ~hcu.party
          [] OTHER -> hcu.party
=============================================================================
