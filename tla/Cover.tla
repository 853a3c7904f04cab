------------------------------- MODULE Cover -------------------------------
(***************************************************************************)
(* HcuCover (cover.py), a shutter or blind channel.  The HCU reports that  *)
(* it moves before it knows the direction (lastShadingDirection is that of *)
(* the move before for a second or two), so the entity trusts the          *)
(* direction of its own command for three seconds                          *)
(* (OPTIMISTIC_DIRECTION_GRACE_SECONDS), and without one shows none until  *)
(* three seconds of the move are over (DIRECTION_SETTLE_SECONDS).  Nothing *)
(* is written but for reports and once the direction has settled.          *)
(*   Positions run from 0, closed, to Top.  Time passes in seconds; an age *)
(* counts those that are over.                                             *)
(***************************************************************************)
EXTENDS Integers, Sequences

CONSTANTS Top,        \* the open position
          MaxMoves    \* bound on the commands and the moves made elsewhere

ASSUME CoverAssumption == Top \in Nat

VARIABLES
  pos, aim,       \* where the shutter is, and where it moves to
  last,           \* lastShadingDirection on the HCU
  stale,          \* seconds since the move that last does not tell of, or 0
  pushes,         \* the reports not handled yet
  onWay,          \* the position asked for by the command on its way, or Nowhere
  channel,        \* processing, direction and level in the client's cache
  wanted, since,  \* _optimistic_direction, and the seconds since it was set
  underway,       \* seconds since _processing_started_at, NoMove for None
  settling,       \* _settle_unsub is set
  display,        \* the direction written to Home Assistant
  moved,          \* how many of both there were
  turned,         \* history: the move did not start from a standstill, or
                  \* against the command before it
  late            \* history: a command was given during the move

shutterVars == <<pos, aim, last, stale, pushes, onWay>>
entityVars == <<channel, wanted, since, underway, settling, display>>
coverVars == <<shutterVars, entityVars, moved, turned, late>>

Nowhere == -1
Halt == -2        \* the position asked for by a stop
NoMove == -1
Grace == 3
Settle == 3
Correction == 2   \* seconds until lastShadingDirection is right

Way(from, to) ==
  CASE to > from -> "opening" [] to < from -> "closing" [] OTHER -> "none"
Real == Way(pos, aim)
Older(age, bound) == IF age < bound THEN age + 1 ELSE age

CoverInit ==
  /\ pos \in 0 .. Top /\ aim = pos
  /\ last \in {"opening", "closing"} /\ stale = 0
  /\ pushes = <<>> /\ onWay = Nowhere
  /\ channel = [moving |-> FALSE, way |-> last, level |-> pos]
  /\ wanted = "none" /\ since = 0
  /\ underway = NoMove /\ settling = FALSE /\ display = "none"
  /\ moved = 0
  /\ turned = FALSE /\ late = FALSE

-----------------------------------------------------------------------------
\* Mutant: without a command of its own the entity trusts the HCU at once.
SettledAtOnce(age) == TRUE
\* _raw_direction_settled
RawSettled(age) == age = NoMove \/ age >= Settle

\* is_opening and is_closing: the direction shown for the channel c.
Shown(c, want, wantAge, age) ==
  CASE ~c.moving -> "none"
    [] want # "none" /\ wantAge < Grace -> want
    [] OTHER -> IF RawSettled(age) THEN c.way ELSE "none"

\* Nothing moves, and the entity knows.
Standstill ==
  Real = "none" /\ pushes = <<>> /\ ~channel.moving /\ onWay = Nowhere

\* A service call sends the position p and shows the direction way from now on;
\* "keep" leaves the direction as it is.
Command(p, way) ==
  /\ onWay = Nowhere /\ moved < MaxMoves
  /\ moved' = moved + 1
  /\ onWay' = p
  /\ IF way = "keep" THEN UNCHANGED <<wanted, since>> ELSE wanted' = way /\ since' = 0
  /\ turned' = (turned \/ ~Standstill)
  /\ late' = (late \/ underway # NoMove)
  /\ UNCHANGED <<pos, aim, last, stale, pushes, channel, underway, settling, display>>

\* async_open_cover, async_close_cover
OpenCover == Command(Top, "opening")
CloseCover == Command(0, "closing")
\* async_set_cover_position: the direction is that from the cached position.
SetPosition(p) == Command(p, Way(channel.level, p))
\* async_set_cover_tilt_position, async_open_cover_tilt, async_close_cover_tilt:
\* the cached position is sent along.
Tilt == Command(channel.level, "keep")

\* async_stop_cover
StopCover == Command(Halt, "none")

\* The report that the shutter moves: the first one of a move starts the time,
\* and schedules a refresh (_schedule_direction_settle_check).
Started ==
  /\ underway' = IF underway = NoMove THEN 0 ELSE underway
  /\ settling' = (settling \/ underway = NoMove)

\* _handle_coordinator_update
Push ==
  /\ pushes # <<>>
  /\ pushes' = Tail(pushes)
  /\ channel' = Head(pushes)
  /\ IF channel'.moving
       THEN Started /\ UNCHANGED <<wanted, since, turned, late>>
       ELSE /\ underway' = NoMove /\ settling' = FALSE
            /\ wanted' = "none" /\ since' = 0
            /\ late' = FALSE
            /\ turned' = (turned /\ ~(Real = "none" /\ pushes' = <<>> /\ onWay = Nowhere))
  /\ display' = Shown(channel', wanted', since', underway')
  /\ UNCHANGED <<pos, aim, last, stale, onWay, moved>>

\* _async_direction_settled
SettleCheck ==
  /\ settling /\ underway >= Settle
  /\ settling' = FALSE
  /\ display' = IF channel.moving THEN Shown(channel, wanted, since, underway) ELSE display
  /\ UNCHANGED <<shutterVars, channel, wanted, since, underway, moved, turned,
                 late>>

-----------------------------------------------------------------------------
\* The shutter starts towards p, or turns to it; what it reports at once may
\* still name the direction of the move before.
Drive(p) ==
  LET way == Way(pos, p)
  IN  /\ aim' = p
      /\ \/ way # Real /\ way # "none" /\ last' = way /\ stale' = 0
         \/ way # Real /\ way \notin {"none", last} /\ last' = last /\ stale' = 1
         \/ way # Real /\ way = "none" /\ last' = last /\ stale' = 0
         \/ way = Real /\ UNCHANGED <<last, stale>>
      /\ pushes' = IF way = Real THEN pushes
                   ELSE Append(pushes, [moving |-> way # "none", way |-> last',
                                        level |-> pos])
      /\ turned' = \/ turned
                   \/ Real # "none" /\ way # Real
                   \/ way # "none" /\ wanted \notin {"none", way}
      /\ UNCHANGED <<pos, entityVars, late>>

\* The HCU carries out the command, ...
Obey ==
  /\ onWay # Nowhere
  /\ onWay' = Nowhere
  /\ Drive(IF onWay = Halt THEN pos ELSE onWay)
  /\ UNCHANGED moved

\* ... or does not, ...
Refuse ==
  /\ onWay # Nowhere
  /\ onWay' = Nowhere
  /\ UNCHANGED <<pos, aim, last, stale, pushes, entityVars, moved, turned, late>>

\* ... or the shutter is moved with a wall switch or the app.
MoveElsewhere ==
  /\ moved < MaxMoves
  /\ moved' = moved + 1
  /\ \E p \in {0, Top} : p # pos /\ Drive(p)
  /\ UNCHANGED onWay

\* The HCU reports the right direction.
Correct ==
  /\ stale # 0
  /\ stale' = 0 /\ last' = Real
  /\ pushes' = Append(pushes, [moving |-> TRUE, way |-> last', level |-> channel.level])
  /\ UNCHANGED <<pos, aim, onWay, entityVars, moved, turned, late>>

\* The shutter gets on, and reports where it stops.
GetOn(p) ==
  /\ Real # "none" /\ stale = 0
  /\ p = IF Real = "opening" THEN pos + 1 ELSE pos - 1
  /\ pos' = p
  /\ pushes' = IF p # aim THEN pushes
               ELSE Append(pushes, [moving |-> FALSE, way |-> last, level |-> p])
  /\ UNCHANGED <<aim, last, stale, onWay, entityVars, moved, turned, late>>

\* A second passes; reports, corrections and timers are not late by one.
Second ==
  /\ pushes = <<>> /\ stale <= Correction /\ ~(settling /\ underway >= Settle)
  /\ since' = IF wanted = "none" THEN 0 ELSE Older(since, Grace)
  /\ underway' = IF underway = NoMove THEN NoMove ELSE Older(underway, Settle)
  /\ stale' = IF stale = 0 THEN 0 ELSE stale + 1
  /\ UNCHANGED <<pos, aim, last, pushes, onWay, channel, wanted, settling, display,
                 moved, turned, late>>

CoverNext ==
  \/ OpenCover \/ CloseCover \/ StopCover \/ Tilt
  \/ \E p \in 0 .. Top : SetPosition(p) \/ GetOn(p)
  \/ Push \/ SettleCheck \/ Obey \/ Refuse \/ MoveElsewhere \/ Correct \/ Second

CoverSpec == CoverInit /\ [][CoverNext]_coverVars

-----------------------------------------------------------------------------
CoverTypeOK ==
  /\ pos \in 0 .. Top /\ aim \in 0 .. Top /\ channel.level \in 0 .. Top
  /\ stale \in 0 .. Correction + 1 /\ onWay \in -2 .. Top
  /\ since \in 0 .. Grace /\ underway \in -1 .. Settle
  /\ {wanted, display} \subseteq {"none", "opening", "closing"}
  /\ settling => underway # NoMove
  /\ underway # NoMove <=> channel.moving

\* "Rather than risk showing the wrong one" (DIRECTION_SETTLE_SECONDS): a move
\* that starts from a standstill, by a command, a wall switch or the app, never
\* shows the wrong direction, although the HCU first reports that of the move
\* before.
\* And "a real external override ... win[s] back the display within a few
\* seconds" (OPTIMISTIC_DIRECTION_GRACE_SECONDS): once the refresh after the
\* start of the move is over, the entity shows which way the shutter goes,
\* whoever turned it meanwhile.  Left out there are moves during which a command
\* was given, which schedules no refresh of its own.
DirectionIsReal ==
  pushes = <<>> /\ Real # "none" =>
    /\ ~turned => display \in {"none", Real}
    /\ underway # NoMove /\ ~settling /\ stale = 0 /\ ~late => display = Real
=============================================================================
