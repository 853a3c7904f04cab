----------------------------- MODULE MCEntities -----------------------------
(***************************************************************************)
(* The entities share no state: an instance runs one of them, a siren, an  *)
(* entity that is switched on and off, a heating group or a cover, each    *)
(* with a few service calls; the stream of commands they send; or what the *)
(* bridge does for an entity of another integration, which is its auto-off *)
(* and its status reports.                                                 *)
(***************************************************************************)
EXTENDS Entities, MCCommandAspects

VARIABLE part

\* The bridged devices: a light with an on_time, and a contact that was saved with
\* both of its legacy keys.
Lamp == << <<"on_off", "lamp">>, <<"brightness", "lamp">>, <<"color_temp", "lamp">>,
           <<"on_time", "timer">> >>
Contact == << <<"door", "front">>, <<"battery", "cell">>, <<"window", "back">>, <<"low_bat", "weak">> >>
MCConf == {Lamp, Contact}

Plainly(word) == [word |-> word, number |-> 0, brightness |-> NoValue, kelvin |-> NoValue]
Number(n) == [Plainly("number") EXCEPT !.number = n]
MCGlow == [word |-> "on", number |-> 0, brightness |-> 255, kelvin |-> 4000]
MCReadings ==
  [lamp |-> {Plainly("off"), MCGlow, Plainly("unavailable")},
   timer |-> {Number(3000)},
   front |-> {Plainly("on"), Plainly("unavailable")},
   back |-> {Plainly("off"), Plainly("unavailable")},
   cell |-> {Number(8550), Plainly("absent")},
   weak |-> {Plainly("on"), Plainly("unavailable")}]

SwitchTo(on, onTime) == [type |-> "switchState", on |-> on, onTime |-> onTime]
Dimming(level) == [type |-> "dimming", level |-> level]
MCOrders ==
  {<<Dimming(5000), SwitchTo(FALSE, NoValue)>>,
   <<SwitchTo(TRUE, NoValue), [type |-> "onTime", onTime |-> 2000]>>,
   <<SwitchTo(TRUE, 1000), [type |-> "colorTemperature", kelvin |-> 2700], Dimming(40)>>}

\* What does not run starts in one state only.
SirenRests == known = "off" /\ \A c \in Cmd : asks[c] = "off"
SwitchRests == style = "switch" /\ device = "off" /\ \A r \in Request : wants[r] = "off"
RoomRests ==
  /\ season = "heating" /\ asked = [v \in Visit |-> <<"hvac", "off">>]
  /\ hcu.mode = "MANUAL" /\ hcu.setPoint = "min" /\ ~hcu.party
CoverRests == pos = 0 /\ last = "closing"
AutoOffRests == entity = "off" /\ \A r \in Req : kind[r] = "off"
StatusRests == conf = Lamp /\ states = [e \in {"lamp", "timer"} |-> CHOOSE s \in Readings[e] : TRUE]
StreamRests ==
  /\ older = Sends(<<"hmip", "home", "getSystemState">>, <<>>)
  /\ newer = older

\* Two calls are the same the other way round: f, in the order of list.
FirstOf(calls) == CHOOSE c \in calls : TRUE
Sorted(f, list) ==
  \A c \in DOMAIN f : \E i, j \in DOMAIN list :
    i <= j /\ f[FirstOf(DOMAIN f)] = list[i] /\ f[c] = list[j]

\* The calls of a heating group: what is offered, different ones in the heating
\* season and the same one twice outside it, where the party service runs as well,
\* which sends the command of the party preset.  A party runs only for the presets
\* that end it, and only modes and temperatures start at the minimum set point.
RoomAsks ==
  << <<"temperature", "min">>, <<"temperature", "high">>, <<"hvac", "off">>, <<"hvac", "auto">>,
     <<"hvac", "heat">>, <<"hvac", "cool">>, <<"preset", "boost">>, <<"preset", "party">>,
     <<"preset", "p2">>, <<"party", "high">> >>
RoomCalls ==
  /\ Sorted(asked, RoomAsks)
  /\ \A v, w \in Visit : v # w => (asked[v] = asked[w] <=> season # "heating")
  /\ \A v \in Visit : asked[v] # <<"hvac", "cool">> \/ season = "cooling"
  /\ \A v \in Visit : asked[v] # <<"party", "high">> \/ season # "heating"
  /\ hcu.party => hcu.mode = "AUTOMATIC" /\ \E v \in Visit : asked[v] \in {"preset"} \X Profile
  /\ hcu.mode = "AUTOMATIC" => hcu.setPoint = "high"
  /\ hcu.setPoint = "min" => \A v \in Visit : asked[v][1] # "preset"

MCInit ==
  /\ part \in {"siren", "switch", "room", "cover", "stream", "auto-off", "status"}
  /\ SirenInit /\ IF part = "siren" THEN Sorted(asks, <<"off", "on", "timed">>) ELSE SirenRests
  /\ OptimisticInit /\ IF part = "switch" THEN Sorted(wants, <<"off", "on">>) ELSE SwitchRests
  /\ ClimateInit /\ IF part = "room" THEN RoomCalls ELSE RoomRests
  /\ CoverInit /\ (part # "cover" => CoverRests)
  /\ StreamInit /\ (part # "stream" => StreamRests)
  /\ AutoOffInit /\ (part # "auto-off" => AutoOffRests)
  /\ IF part = "status" THEN conf \in MCConf ELSE StatusRests
  /\ StatusInit

MCNext ==
  /\ UNCHANGED part
  /\ IF part = "siren" THEN SirenNext ELSE UNCHANGED sirenVars
  /\ IF part = "switch" THEN OptimisticNext ELSE UNCHANGED optimisticVars
  /\ IF part = "room" THEN ClimateNext ELSE UNCHANGED climateVars
  /\ IF part = "cover" THEN CoverNext ELSE UNCHANGED coverVars
  /\ IF part = "stream" THEN StreamNext ELSE UNCHANGED <<older, newer>>
  /\ IF part = "auto-off" THEN AutoOffNext ELSE UNCHANGED autoOffVars
  /\ IF part = "status" THEN StatusNext ELSE UNCHANGED statusVars
MCSpec ==
  MCInit /\ [][MCNext]_<<part, sirenVars, optimisticVars, climateVars, coverVars,
                          older, newer, autoOffVars, statusVars>>
=============================================================================
