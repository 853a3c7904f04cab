--------------------------- MODULE DiscoveryProofs --------------------------
(***************************************************************************)
(* Theorems about Discovery for every set of devices, groups and settings, *)
(* and every number of changes: one entity each, and those that a full     *)
(* discovery would find.                                                   *)
(***************************************************************************)
EXTENDS Discovery, TLAPS

\* What the HCU, and the client, know of devices and groups.
Known ==
  [dev : [Device -> DeviceData \cup {Absent}],
   grp : [Group -> [type : GroupType \cup {"none", "deleted"}, members : SUBSET Device]]]

\* A device keeps its maker.
FitsHardware(s) == \A d \in DevicesOf(s) : s.dev[d].maker = hardware[d].maker

\* From s to t a group keeps its type, until it is gone for good.
TypesKept(s, t) ==
  \A g \in Group : \/ t.grp[g].type = s.grp[g].type
                   \/ s.grp[g].type = "none" \/ t.grp[g].type = "deleted"

\* The members of a group are paired; the client misses the devices whose events
\* are still to come, and nothing else.
HcuOK(h, new) ==
  /\ \A g \in Group : h.grp[g].members \subseteq DevicesOf(h)
  /\ new \subseteq DevicesOf(h)
InStep(h, new, s) ==
  /\ \A d \in Device : s.dev[d] = IF d \in new THEN Absent ELSE h.dev[d]
  /\ \A g \in Group : s.grp[g] = h.grp[g]

DiscoveryTypes ==
  /\ hcu \in Known /\ seen \in Known /\ coming \subseteq Device
  /\ FitsHardware(hcu) /\ FitsHardware(seen)
  /\ {loaded, connected, due, countdown, missed} \subseteq BOOLEAN
  /\ settings \in Options

HcuInv ==
  /\ HcuOK(hcu, coming)
  /\ connected = FALSE => coming = {}
  /\ loaded = TRUE /\ missed = FALSE => TypesKept(seen, hcu)
  /\ loaded = TRUE /\ connected = TRUE /\ missed = FALSE => InStep(hcu, coming, seen)

\* An entity is what it looks like, and one of its kind is registered.
IsEntity(e) == e = [uid |-> e.uid, platform |-> e.platform]
RegistryOK ==
  /\ \A e \in registry : IsEntity(e)
  /\ \A e, f \in registry : e.uid = f.uid => e = f
  /\ loaded = TRUE => registry \subseteq running

\* The entity of a channel, in a room or not.
ChannelEntities(d, s, o) ==
  {Entity(d, "on", s.dev[d].kind) :
     k \in {s.dev[d].kind} \cap {"light", "switch"} \cap (IF Imported(s.dev[d], o) THEN Kinds ELSE {})}

MembersKnown(g, s) == s.grp[g].members \subseteq DevicesOf(s)

\* The entities run, wait or belong to what the client knows.
Complete(run, wait, s, o) ==
  /\ \A d \in DevicesOf(s) : DeviceEntities(d, s, o) \subseteq run
  /\ \A g \in GroupsOf(s) : IF MembersKnown(g, s) THEN GroupEntities(g, s, o) \subseteq run
                            ELSE g \in wait
Sound(run, s, o) ==
  \A e \in run :
    \/ \E d \in DevicesOf(s) : e \in ChannelEntities(d, s, o)
    \/ \E g \in GroupsOf(s) : MembersKnown(g, s) /\ e \in GroupEntities(g, s, o)

NoReload == loaded = TRUE /\ settings.auto = TRUE /\ due = FALSE /\ countdown = FALSE /\ missed = FALSE

RunningOK ==
  NoReload =>
    /\ Complete(running, held, seen, settings)
    /\ Sound(running, seen, settings)
    /\ running \subseteq registry

DiscoveryInv == DiscoveryTypes /\ HcuInv /\ RegistryOK /\ RunningOK

-----------------------------------------------------------------------------
\* The parts of a device, and that groups are no devices.
LEMMA Values ==
  /\ Absent \notin DeviceData
  /\ "none" \notin GroupType /\ "deleted" \notin GroupType
  /\ \A x \in DeviceData : x.kind \in Kinds /\ x.room \in BOOLEAN
  /\ \A g \in Group : g \notin Device
<1>1. ASSUME NEW x \in DeviceData PROVE x.kind \in Kinds /\ x.room \in BOOLEAN /\ x # Absent
  <2>1. x \in [kind : Kinds, room : BOOLEAN, maker : Makers]
    BY DiscoveryAssumption
  <2>2. x.kind \in Kinds /\ x.room \in BOOLEAN
    BY <2>1
  <2>3. Absent.kind = "none"
    BY DEF Absent
  <2> QED
    BY <2>2, <2>3 DEF Kinds
<1> QED
  BY <1>1, DiscoveryAssumption

LEMMA Entities ==
  ASSUME NEW a, NEW b, NEW c
  PROVE  /\ Entity(a, b, c).uid = <<a, b>> /\ Entity(a, b, c).uid[1] = a
         /\ Entity(a, b, c).platform = c
         /\ IsEntity(Entity(a, b, c))
BY DEF Entity, IsEntity

LEMMA Channels ==
  ASSUME NEW d, NEW s, NEW o, NEW e \in ChannelEntities(d, s, o)
  PROVE  e = Entity(d, "on", s.dev[d].kind)
BY DEF ChannelEntities

LEMMA ChannelsInRooms ==
  ASSUME NEW d, NEW s, NEW o, NEW e
  PROVE  e \in DeviceEntities(d, s, o) <=>
           e \in ChannelEntities(d, s, o) /\ (s.dev[d].room \/ ~o.onlyRooms)
BY DEF DeviceEntities, ChannelEntities

LEMMA Groups ==
  ASSUME NEW g, NEW s, NEW o, NEW e \in GroupEntities(g, s, o)
  PROVE  \/ e = Entity(g, "group", IF LightsOnly(g, s) THEN "light" ELSE "switch")
         \/ e = Entity(g, "on_time", "sensor") \/ e = Entity(g, "siren", "siren")
BY DEF GroupEntities

LEMMA InDiscovered ==
  ASSUME NEW items, NEW s, NEW o, NEW e
  PROVE  e \in Discovered(items, s, o) <=>
           \/ \E d \in items \cap DevicesOf(s) : e \in DeviceEntities(d, s, o)
           \/ \E g \in items \cap GroupsOf(s) : e \in GroupEntities(g, s, o)
BY DEF Discovered

\* A channel or a group gets one entity of each kind, on one platform.
LEMMA SameEntity ==
  ASSUME NEW s, NEW o, NEW e, NEW f, e.uid = f.uid
  PROVE  /\ \A d, c : e \in ChannelEntities(d, s, o) /\ f \in ChannelEntities(c, s, o) => e = f
         /\ \A g, h : e \in GroupEntities(g, s, o) /\ f \in GroupEntities(h, s, o) => e = f
<1>1. ASSUME NEW d, NEW c, e \in ChannelEntities(d, s, o), f \in ChannelEntities(c, s, o)
      PROVE  e = f
  <2>1. /\ e = Entity(d, "on", s.dev[d].kind) /\ f = Entity(c, "on", s.dev[c].kind)
        /\ e.uid = <<d, "on">> /\ f.uid = <<c, "on">>
    BY <1>1, Channels, Entities
  <2> QED
    BY <2>1
<1>2. ASSUME NEW g, NEW h, e \in GroupEntities(g, s, o), f \in GroupEntities(h, s, o)
      PROVE  e = f
  <2>1. e.uid[1] = g /\ f.uid[1] = h
    BY <1>2, Groups, Entities
  <2>2. g = h
    BY <2>1
  <2>3. /\ \/ e = Entity(g, "group", IF LightsOnly(g, s) THEN "light" ELSE "switch")
           \/ e = Entity(g, "on_time", "sensor") \/ e = Entity(g, "siren", "siren")
        /\ \/ f = Entity(g, "group", IF LightsOnly(g, s) THEN "light" ELSE "switch")
           \/ f = Entity(g, "on_time", "sensor") \/ f = Entity(g, "siren", "siren")
    BY <1>2, <2>2, Groups
  <2>4. /\ Entity(g, "group", IF LightsOnly(g, s) THEN "light" ELSE "switch").uid = <<g, "group">>
        /\ Entity(g, "on_time", "sensor").uid = <<g, "on_time">>
        /\ Entity(g, "siren", "siren").uid = <<g, "siren">>
    BY Entities
  <2> QED
    BY <2>3, <2>4
<1> QED
  BY <1>1, <1>2

LEMMA OneEach ==
  ASSUME NEW I, NEW J, NEW s, NEW o, NEW e \in Discovered(I, s, o),
         NEW f \in Discovered(J, s, o), e.uid = f.uid
  PROVE  e = f
<1>1. ASSUME NEW d \in DevicesOf(s), NEW g \in GroupsOf(s), NEW x \in DeviceEntities(d, s, o),
             NEW y \in GroupEntities(g, s, o)
      PROVE  x.uid # y.uid
  <2>1. x.uid[1] = d
    BY ChannelsInRooms, Channels, Entities
  <2>2. y.uid[1] = g
    BY Groups, Entities
  <2> QED
    BY <2>1, <2>2, Values DEF DevicesOf, GroupsOf
<1> QED
  BY <1>1, InDiscovered, ChannelsInRooms, SameEntity

LEMMA DiscoveredShape ==
  ASSUME NEW I, NEW s, NEW o, NEW e \in Discovered(I, s, o)
  PROVE  IsEntity(e)
BY InDiscovered, ChannelsInRooms, Channels, Groups, Entities

LEMMA HasUid ==
  ASSUME NEW E, NEW e
  PROVE  e.uid \in Uids(E) <=> \E f \in E : f.uid = e.uid
BY DEF Uids

-----------------------------------------------------------------------------
\* An inclusion adds no second entity.
LEMMA InclusionRegisters ==
  ASSUME RegistryOK, loaded = TRUE, loaded' = TRUE, NEW I, NEW s, HandleIncluded(I, s)
  PROVE  RegistryOK'
<1>1. PICK items :
        /\ running' = running \cup {e \in Discovered(items, s, settings) : e.uid \notin Uids(running)}
        /\ registry' = registry \cup {e \in Discovered(items, s, settings) : e.uid \notin Uids(running)}
  BY DEF HandleIncluded
<1> DEFINE fresh == {e \in Discovered(items, s, settings) : e.uid \notin Uids(running)}
<1>2. \A e \in fresh : IsEntity(e)
  BY DiscoveredShape
<1>3. \A e, f \in fresh : e.uid = f.uid => e = f
  BY OneEach
<1>4. \A e \in fresh, f \in registry : e.uid # f.uid
  BY HasUid DEF RegistryOK
<1> HIDE DEF fresh
<1>5. running' = running \cup fresh /\ registry' = registry \cup fresh
  BY <1>1 DEF fresh
<1> QED
  BY <1>2, <1>3, <1>4, <1>5 DEF RegistryOK

\* A group whose members stay what they are keeps its entities.
LEMMA SameGroup ==
  ASSUME NEW g \in Group, NEW s, NEW t, NEW o,
         t.grp[g].type = s.grp[g].type, t.grp[g].members = s.grp[g].members,
         \A d \in s.grp[g].members : t.dev[d].kind = s.dev[d].kind
  PROVE  GroupEntities(g, t, o) = GroupEntities(g, s, o)
<1>1. LightsOnly(g, t) <=> LightsOnly(g, s)
  BY DEF LightsOnly
<1>2. HasSiren(g, t) <=> HasSiren(g, s)
  BY DEF HasSiren
<1>3. {g} \cap {h \in Group : HasSiren(h, t)} = {g} \cap {h \in Group : HasSiren(h, s)}
  BY <1>2
<1> QED
  BY <1>1, <1>3 DEF GroupEntities

LEMMA SameChannel ==
  ASSUME NEW d, NEW s, NEW t, NEW o,
         t.dev[d].kind = s.dev[d].kind, t.dev[d].maker = s.dev[d].maker
  PROVE  ChannelEntities(d, t, o) = ChannelEntities(d, s, o)
BY DEF ChannelEntities, Imported

\* Whatever comes while nothing goes and nothing calls for a reload, the entities
\* keep up with what the client knows.
LEMMA InclusionCompletes ==
  ASSUME seen \in Known, NEW s \in Known, FitsHardware(seen), FitsHardware(s),
         TypesKept(seen, s), Excluded(seen, s) = {}, ~NeedsReload(seen, s),
         Complete(running, held, seen, settings), Sound(running, seen, settings),
         HandleIncluded(Included(seen, s), s)
  PROVE  /\ Complete(running', held', s, settings)
         /\ Sound(running', s, settings)
         /\ running \subseteq registry => running' \subseteq registry'
<1> DEFINE o == settings
           included == Included(seen, s)
           ids == included \cup (IF included \cap DevicesOf(s) # {} THEN held ELSE {})
           back == {g \in ids \cap GroupsOf(s) : ~(s.grp[g].members \subseteq DevicesOf(s))}
           fresh == {e \in Discovered(ids \ back, s, o) : e.uid \notin Uids(running)}
<1>1. /\ held' = (held \cup back) \ (ids \ back)
      /\ running' = running \cup fresh /\ registry' = registry \cup fresh
  BY DEF HandleIncluded
<1>2. DevicesOf(seen) \subseteq DevicesOf(s) /\ GroupsOf(seen) \subseteq GroupsOf(s)
  <2>1. \A x \in Items(seen) : x \in Items(s)
    BY DEF Excluded
  <2> QED
    BY <2>1, Values DEF Items, DevicesOf, GroupsOf
<1>3. ASSUME NEW d \in DevicesOf(seen)
      PROVE  /\ s.dev[d].kind = seen.dev[d].kind
             /\ ChannelEntities(d, s, o) = ChannelEntities(d, seen, o)
  <2>1. s.dev[d].kind = seen.dev[d].kind
    BY <1>2 DEF NeedsReload
  <2>2. s.dev[d].maker = seen.dev[d].maker
    BY <1>2 DEF FitsHardware
  <2> QED
    BY <2>1, <2>2, SameChannel
<1>4. ASSUME NEW g \in GroupsOf(seen)
      PROVE  /\ s.grp[g].type = seen.grp[g].type
             /\ s.grp[g].members = seen.grp[g].members
  <2>1. g \in GroupsOf(s) /\ g \in Group
    BY <1>2 DEF GroupsOf
  <2>2. s.grp[g].type = seen.grp[g].type
    BY <2>1, Values DEF TypesKept, GroupsOf
  <2> QED
    BY <2>1, <2>2 DEF NeedsReload
<1>5. ASSUME NEW g \in GroupsOf(seen), MembersKnown(g, seen)
      PROVE  /\ MembersKnown(g, s)
             /\ GroupEntities(g, s, o) = GroupEntities(g, seen, o)
  <2>1. \A d \in seen.grp[g].members : s.dev[d].kind = seen.dev[d].kind
    BY <1>3, <1>5 DEF MembersKnown
  <2>2. MembersKnown(g, s)
    BY <1>2, <1>4, <1>5 DEF MembersKnown
  <2> QED
    BY <1>4, <2>1, <2>2, SameGroup DEF GroupsOf
<1>6. Sound(running, s, o)
  <2>1. SUFFICES ASSUME NEW e \in running
        PROVE  \/ \E d \in DevicesOf(s) : e \in ChannelEntities(d, s, o)
               \/ \E g \in GroupsOf(s) : MembersKnown(g, s) /\ e \in GroupEntities(g, s, o)
    BY DEF Sound
  <2>2. CASE \E d \in DevicesOf(seen) : e \in ChannelEntities(d, seen, o)
    BY <1>2, <1>3, <2>2
  <2>3. CASE \E g \in GroupsOf(seen) : MembersKnown(g, seen) /\ e \in GroupEntities(g, seen, o)
    BY <1>2, <1>5, <2>3
  <2> QED
    BY <2>2, <2>3 DEF Sound
<1>7. ASSUME NEW e \in fresh
      PROVE  \/ \E d \in DevicesOf(s) : e \in ChannelEntities(d, s, o)
             \/ \E g \in GroupsOf(s) : MembersKnown(g, s) /\ e \in GroupEntities(g, s, o)
  <2>1. CASE \E d \in (ids \ back) \cap DevicesOf(s) : e \in DeviceEntities(d, s, o)
    BY <2>1, ChannelsInRooms
  <2>2. CASE \E g \in (ids \ back) \cap GroupsOf(s) : e \in GroupEntities(g, s, o)
    BY <2>2 DEF MembersKnown
  <2> QED
    <3>1. e \in Discovered(ids \ back, s, o)
      OBVIOUS
    <3> HIDE DEF ids, back
    <3> QED
      BY <2>1, <2>2, <3>1, InDiscovered
<1>8. Sound(running', s, o)
  <2> HIDE DEF fresh, o
  <2> QED
    BY <1>1, <1>6, <1>7 DEF Sound
\* What has an entity of the same name has this one.
<1>9. ASSUME NEW d \in DevicesOf(s) \cap ids, NEW e \in DeviceEntities(d, s, o)
      PROVE  e \in running'
  <2>1. d \in ids \ back /\ e \in ChannelEntities(d, s, o)
    BY ChannelsInRooms, Values DEF DevicesOf, GroupsOf
  <2>2. e \in Discovered(ids \ back, s, o)
    <3> HIDE DEF ids, back
    <3> QED
      BY <2>1, InDiscovered
  <2>3. CASE e.uid \notin Uids(running)
    BY <1>1, <2>2, <2>3
  <2>4. ASSUME NEW f \in running, f.uid = e.uid PROVE e \in running
    <3>1. e.uid[1] = d
      BY <2>1, Channels, Entities
    <3>2. CASE \E c \in DevicesOf(s) : f \in ChannelEntities(c, s, o)
      BY <2>1, <2>4, <3>2, SameEntity
    <3>3. CASE \E g \in GroupsOf(s) : f \in GroupEntities(g, s, o)
      <4>1. PICK g \in GroupsOf(s) : f \in GroupEntities(g, s, o)
        BY <3>3
      <4>2. f.uid[1] = g
        BY <4>1, Groups, Entities
      <4> QED
        BY <2>4, <3>1, <4>2, Values DEF DevicesOf, GroupsOf
    <3> QED
      BY <1>6, <3>2, <3>3 DEF Sound
  <2> QED
    BY <1>1, <2>3, <2>4, HasUid
<1>10. ASSUME NEW d \in DevicesOf(s), NEW e \in DeviceEntities(d, s, o) PROVE e \in running'
  <2>1. CASE d \in ids
    BY <1>9, <2>1
  <2>2. CASE d \notin ids
    <3>1. d \in DevicesOf(seen)
      BY <2>2, Values DEF Included, Items, DevicesOf, GroupsOf
    <3>2. d \notin NewRoom(seen, s)
      BY <2>2 DEF Included
    <3>3. /\ e \in ChannelEntities(d, seen, o)
          /\ s.dev[d].room \/ ~o.onlyRooms
      BY <1>3, <3>1, ChannelsInRooms
    <3>4. s.dev[d].room => seen.dev[d].room
      BY <1>2, <3>1, <3>2 DEF NewRoom
    <3>5. e \in DeviceEntities(d, seen, o)
      BY <3>3, <3>4, ChannelsInRooms
    <3> QED
      BY <1>1, <3>1, <3>5 DEF Complete
  <2> QED
    BY <2>1, <2>2
\* A group that had no entity yet.
<1>11. ASSUME NEW g \in GroupsOf(s) \cap ids, MembersKnown(g, s),
              g \in GroupsOf(seen) => ~MembersKnown(g, seen),
              NEW e \in GroupEntities(g, s, o)
       PROVE  e \in running'
  <2>1. g \in ids \ back
    BY <1>11 DEF MembersKnown
  <2>2. e \in Discovered(ids \ back, s, o)
    <3> HIDE DEF ids, back
    <3> QED
      BY <2>1, InDiscovered
  <2>3. ASSUME NEW f \in running, f.uid = e.uid PROVE FALSE
    <3>1. e.uid[1] = g
      BY Groups, Entities
    <3>2. CASE \E c \in DevicesOf(seen) : f \in ChannelEntities(c, seen, o)
      <4>1. PICK c \in DevicesOf(seen) : f \in ChannelEntities(c, seen, o)
        BY <3>2
      <4>2. f.uid[1] = c
        BY <4>1, Channels, Entities
      <4> QED
        BY <2>3, <3>1, <4>2, Values DEF DevicesOf, GroupsOf
    <3>3. CASE \E h \in GroupsOf(seen) : MembersKnown(h, seen) /\ f \in GroupEntities(h, seen, o)
      <4>1. PICK h \in GroupsOf(seen) : MembersKnown(h, seen) /\ f \in GroupEntities(h, seen, o)
        BY <3>3
      <4>2. f.uid[1] = h
        BY <4>1, Groups, Entities
      <4> QED
        BY <1>11, <2>3, <3>1, <4>1, <4>2
    <3> QED
      BY <3>2, <3>3 DEF Sound
  <2> QED
    BY <1>1, <2>2, <2>3, HasUid
<1>12. ASSUME NEW g \in GroupsOf(s)
       PROVE  IF MembersKnown(g, s) THEN GroupEntities(g, s, o) \subseteq running'
              ELSE g \in held'
  <2>1. CASE g \notin GroupsOf(seen)
    <3>1. g \in ids
      BY <2>1, Values DEF Included, Items, DevicesOf, GroupsOf
    <3>2. CASE MembersKnown(g, s)
      BY <1>11, <2>1, <3>1, <3>2
    <3>3. CASE ~MembersKnown(g, s)
      BY <1>1, <3>1, <3>3 DEF MembersKnown
    <3> QED
      BY <3>2, <3>3
  <2>2. CASE g \in GroupsOf(seen) /\ MembersKnown(g, seen)
    BY <1>1, <1>5, <2>2 DEF Complete
  <2>3. CASE g \in GroupsOf(seen) /\ ~MembersKnown(g, seen)
    <3>1. g \in held
      BY <2>3 DEF Complete
    <3>2. CASE ~MembersKnown(g, s)
      BY <1>1, <3>1, <3>2 DEF MembersKnown
    <3>3. CASE MembersKnown(g, s)
      <4>1. PICK d \in s.grp[g].members : d \in DevicesOf(s) /\ d \notin DevicesOf(seen)
        BY <1>4, <2>3, <3>3 DEF MembersKnown
      <4>2. d \in included \cap DevicesOf(s)
        BY <4>1, Values DEF Included, Items, DevicesOf, GroupsOf
      <4>3. g \in ids
        BY <3>1, <4>2
      <4> QED
        BY <1>11, <2>3, <3>3, <4>3
    <3> QED
      BY <3>2, <3>3
  <2> QED
    BY <2>1, <2>2, <2>3
<1>13. Complete(running', held', s, o)
  BY <1>10, <1>12 DEF Complete
<1>14. running \subseteq registry => running' \subseteq registry'
  BY <1>1
<1> QED
  BY <1>8, <1>13, <1>14

-----------------------------------------------------------------------------
(* The steps *)

\* A step of the HCU that reaches the client, if it listens, as the state s.
Happens(s) ==
  /\ hcu' \in Known /\ coming' \subseteq Device /\ FitsHardware(hcu')
  /\ TypesKept(hcu, hcu') /\ HcuOK(hcu', coming')
  /\ connected = FALSE => coming' = {}
  /\ s \in Known /\ FitsHardware(s)
  /\ connected = TRUE /\ InStep(hcu, coming, seen) => InStep(hcu', coming', s)
  /\ Receive(s)
  /\ UNCHANGED <<hardware, settings, connected, loaded, missed>>

WithDevice(s, d, x) == [s EXCEPT !.dev[d] = x]
WithGroup(s, g, y) == [s EXCEPT !.grp[g] = y]

LEMMA DeviceSet ==
  ASSUME NEW s \in Known, NEW d \in Device, NEW x \in DeviceData \cup {Absent}
  PROVE  /\ WithDevice(s, d, x) \in Known /\ WithDevice(s, d, x).grp = s.grp
         /\ \A c \in Device : WithDevice(s, d, x).dev[c] = IF c = d THEN x ELSE s.dev[c]
BY DEF Known, WithDevice

LEMMA GroupSet ==
  ASSUME NEW s \in Known, NEW g \in Group,
         NEW y \in [type : GroupType \cup {"none", "deleted"}, members : SUBSET Device]
  PROVE  /\ WithGroup(s, g, y) \in Known /\ WithGroup(s, g, y).dev = s.dev
         /\ \A h \in Group : WithGroup(s, g, y).grp[h] = IF h = g THEN y ELSE s.grp[h]
BY DEF Known, WithGroup

LEMMA DataFits ==
  ASSUME NEW d, NEW x \in DataOf(d)
  PROVE  x \in DeviceData /\ x # Absent /\ x.maker = hardware[d].maker
<1>1. x \in DeviceData /\ Hardware(x) = hardware[d]
  BY DEF DataOf
<1>2. Hardware(x).maker = x.maker
  BY DEF Hardware
<1> QED
  BY <1>1, <1>2, Values

LEMMA HappensKeeps ==
  ASSUME DiscoveryInv, NEW s, Happens(s)
  PROVE  DiscoveryInv'
<1> USE DEF DiscoveryInv
<1>1. CASE connected = TRUE /\ loaded = TRUE
  <2> DEFINE gone == settings.auto /\ Excluded(seen, s) # {}
  <2>1. /\ seen' = s /\ HandleIncluded(Included(seen, s), s)
        /\ due' = (due \/ gone)
        /\ countdown' = (countdown \/ (settings.auto /\ ~gone /\ NeedsReload(seen, s)))
    BY <1>1 DEF Happens, Receive
  <2>2. UNCHANGED <<hardware, settings, connected, loaded, missed>>
    BY DEF Happens
  <2>3. due' \in BOOLEAN /\ countdown' \in BOOLEAN
    BY <2>1, Zenon
  <2>4. DiscoveryTypes'
    BY <2>1, <2>2, <2>3 DEF DiscoveryTypes, Happens, FitsHardware
  <2>5. HcuInv'
    <3>1. missed = FALSE => InStep(hcu', coming', s)
      BY <1>1 DEF HcuInv, Happens
    <3>2. InStep(hcu', coming', s) => TypesKept(s, hcu')
      BY DEF InStep, TypesKept
    <3> QED
      BY <1>1, <2>1, <2>2, <3>1, <3>2 DEF HcuInv, Happens
  <2>6. RegistryOK'
    BY <1>1, <2>1, <2>2, InclusionRegisters
  <2>7. RunningOK'
    <3>1. SUFFICES ASSUME NoReload'
          PROVE  /\ Complete(running', held', s, settings)
                 /\ Sound(running', s, settings)
                 /\ running' \subseteq registry'
      BY <2>1, <2>2 DEF RunningOK
    <3>2. settings.auto = TRUE /\ missed = FALSE /\ due' = FALSE /\ countdown' = FALSE
      BY <2>2, <3>1 DEF NoReload
    <3>3. due = FALSE /\ Excluded(seen, s) = {}
      <4>1. ~(due \/ gone)
        BY <2>1, <3>2, Zenon
      <4>2. due \in BOOLEAN
        BY DEF DiscoveryTypes
      <4> QED
        BY <3>2, <4>1, <4>2
    <3>4. countdown = FALSE /\ ~NeedsReload(seen, s)
      <4>1. ~(countdown \/ (settings.auto /\ ~gone /\ NeedsReload(seen, s)))
        BY <2>1, <3>2, Zenon
      <4>2. countdown \in BOOLEAN
        BY DEF DiscoveryTypes
      <4> QED
        BY <3>2, <3>3, <4>1, <4>2
    <3>5. NoReload
      BY <1>1, <3>2, <3>3, <3>4 DEF NoReload
    <3>6. TypesKept(seen, s)
      BY <1>1, <3>2 DEF HcuInv, Happens, InStep, TypesKept
    <3>7. seen \in Known /\ s \in Known /\ FitsHardware(seen) /\ FitsHardware(s)
      BY DEF DiscoveryTypes, Happens
    <3> QED
      BY <2>1, <3>3, <3>4, <3>5, <3>6, <3>7, InclusionCompletes DEF RunningOK
  <2> QED
    BY <2>4, <2>5, <2>6, <2>7
<1>2. CASE ~(connected = TRUE /\ loaded = TRUE)
  <2>1. connected \in BOOLEAN /\ loaded \in BOOLEAN
    BY DEF DiscoveryTypes
  <2>2. UNCHANGED <<hardware, settings, connected, loaded, missed,
                    seen, running, held, registry, due, countdown>>
    BY <1>2, <2>1 DEF Happens, Receive, hassVars
  <2>3. DiscoveryTypes'
    BY <2>2 DEF DiscoveryTypes, Happens, FitsHardware, DevicesOf
  <2>4. HcuInv'
    <3>1. ASSUME loaded = TRUE, missed = FALSE PROVE TypesKept(seen, hcu')
      <4>1. TypesKept(seen, hcu) /\ TypesKept(hcu, hcu')
        BY <3>1 DEF HcuInv, Happens
      <4> QED
        BY <4>1 DEF TypesKept
    <3> QED
      BY <1>2, <2>1, <2>2, <3>1 DEF HcuInv, Happens
  <2>5. RegistryOK' /\ RunningOK'
    BY <2>2 DEF RegistryOK, RunningOK, NoReload
  <2> QED
    BY <2>3, <2>4, <2>5
<1> QED
  BY <1>1, <1>2

LEMMA DeviceHappens ==
  ASSUME DiscoveryInv, NEW d \in Device, NEW x \in DataOf(d), d \notin coming,
         hcu' = WithDevice(hcu, d, x), Receive(WithDevice(seen, d, x)),
         coming' = coming,
         UNCHANGED <<hardware, settings, connected, loaded, missed>>
  PROVE  DiscoveryInv'
<1> DEFINE s == WithDevice(seen, d, x)
<1>1. /\ hcu \in Known /\ seen \in Known /\ coming \subseteq Device
      /\ FitsHardware(hcu) /\ FitsHardware(seen)
  BY DEF DiscoveryInv, DiscoveryTypes
<1>2. x \in DeviceData /\ x # Absent /\ x.maker = hardware[d].maker
  BY DataFits
<1>3. /\ hcu' \in Known /\ hcu'.grp = hcu.grp
      /\ \A c \in Device : hcu'.dev[c] = IF c = d THEN x ELSE hcu.dev[c]
  BY <1>1, <1>2, DeviceSet
<1>4. /\ s \in Known /\ s.grp = seen.grp
      /\ \A c \in Device : s.dev[c] = IF c = d THEN x ELSE seen.dev[c]
  BY <1>1, <1>2, DeviceSet
<1>5. Receive(s)
  OBVIOUS
<1> HIDE DEF s
<1>6. FitsHardware(hcu') /\ FitsHardware(s)
  BY <1>1, <1>2, <1>3, <1>4 DEF FitsHardware, DevicesOf
<1>7. TypesKept(hcu, hcu')
  BY <1>3 DEF TypesKept
<1>8. DevicesOf(hcu) \subseteq DevicesOf(hcu')
  BY <1>2, <1>3 DEF DevicesOf
<1>9. HcuOK(hcu', coming')
  BY <1>3, <1>8 DEF HcuOK, DiscoveryInv, HcuInv
<1>10. InStep(hcu, coming, seen) => InStep(hcu', coming', s)
  BY <1>3, <1>4 DEF InStep
<1>11. Happens(s)
  BY <1>1, <1>3, <1>4, <1>5, <1>6, <1>7, <1>9, <1>10 DEF Happens, DiscoveryInv, HcuInv
<1> QED
  BY <1>11, HappensKeeps

LEMMA GroupHappens ==
  ASSUME DiscoveryInv, NEW g \in Group, NEW y, NEW z,
         y \in [type : GroupType \cup {"none", "deleted"}, members : SUBSET Device],
         z \in [type : GroupType \cup {"none", "deleted"}, members : SUBSET Device],
         InStep(hcu, coming, seen) => z = y,
         hcu' = WithGroup(hcu, g, y), Receive(WithGroup(seen, g, z)),
         hcu.grp[g].type = y.type \/ y.type = "deleted",
         y.members \subseteq DevicesOf(hcu), coming' = coming,
         UNCHANGED <<hardware, settings, connected, loaded, missed>>
  PROVE  DiscoveryInv'
<1> DEFINE t == WithGroup(seen, g, z)
<1>1. /\ hcu \in Known /\ seen \in Known /\ coming \subseteq Device
      /\ FitsHardware(hcu) /\ FitsHardware(seen)
  BY DEF DiscoveryInv, DiscoveryTypes
<1>2. /\ hcu' \in Known /\ hcu'.dev = hcu.dev
      /\ \A k \in Group : hcu'.grp[k] = IF k = g THEN y ELSE hcu.grp[k]
  BY <1>1, GroupSet
<1>3. /\ t \in Known /\ t.dev = seen.dev
      /\ \A k \in Group : t.grp[k] = IF k = g THEN z ELSE seen.grp[k]
  BY <1>1, GroupSet
<1>10. Receive(t)
  OBVIOUS
<1> HIDE DEF t
<1>4. FitsHardware(hcu') /\ FitsHardware(t)
  BY <1>1, <1>2, <1>3 DEF FitsHardware, DevicesOf
<1>5. TypesKept(hcu, hcu')
  BY <1>2 DEF TypesKept
<1>6. DevicesOf(hcu') = DevicesOf(hcu)
  BY <1>2 DEF DevicesOf
<1>7. HcuOK(hcu', coming')
  BY <1>2, <1>6 DEF HcuOK, DiscoveryInv, HcuInv
<1>8. InStep(hcu, coming, seen) => InStep(hcu', coming', t)
  BY <1>2, <1>3 DEF InStep
<1>9. Happens(t)
  BY <1>1, <1>2, <1>3, <1>4, <1>5, <1>7, <1>8, <1>10 DEF Happens, DiscoveryInv, HcuInv
<1> QED
  BY <1>9, HappensKeeps

LEMMA PairStep == ASSUME DiscoveryInv, PairDevice PROVE DiscoveryInv'
<1>1. PICK d \in Device \ DevicesOf(hcu) : \E x \in DataOf(d) :
        hcu' = WithDevice(hcu, d, x) /\ Receive(WithDevice(seen, d, x))
  BY DEF PairDevice, WithDevice
<1>2. PICK x \in DataOf(d) :
        hcu' = WithDevice(hcu, d, x) /\ Receive(WithDevice(seen, d, x))
  BY <1>1
<1>3. d \notin coming
  BY <1>1 DEF DiscoveryInv, HcuInv, HcuOK
<1>4. coming' = coming /\ UNCHANGED <<hardware, settings, connected, loaded, missed>>
  BY DEF PairDevice, OutsideHcu
<1> QED
  BY <1>2, <1>3, <1>4, DeviceHappens

LEMMA ChangeStep == ASSUME DiscoveryInv, ChangeDevice PROVE DiscoveryInv'
<1>1. PICK d \in DevicesOf(hcu) \ coming : \E x \in DataOf(d) :
        hcu' = WithDevice(hcu, d, x) /\ Receive(WithDevice(seen, d, x))
  BY DEF ChangeDevice, WithDevice
<1>2. PICK x \in DataOf(d) :
        hcu' = WithDevice(hcu, d, x) /\ Receive(WithDevice(seen, d, x))
  BY <1>1
<1>3. d \in Device
  BY <1>1 DEF DevicesOf
<1>4. coming' = coming /\ UNCHANGED <<hardware, settings, connected, loaded, missed>>
  BY DEF ChangeDevice, OutsideHcu
<1> QED
  BY <1>1, <1>2, <1>3, <1>4, DeviceHappens

LEMMA RemoveGroupStep == ASSUME DiscoveryInv, RemoveGroup PROVE DiscoveryInv'
<1>1. PICK g \in GroupsOf(hcu) :
        hcu' = WithGroup(hcu, g, DeletedGroup) /\ Receive(WithGroup(seen, g, DeletedGroup))
  BY DEF RemoveGroup, WithGroup
<1>2. /\ DeletedGroup.type = "deleted" /\ DeletedGroup.members = {}
      /\ DeletedGroup \in [type : GroupType \cup {"none", "deleted"}, members : SUBSET Device]
      /\ g \in Group
  BY <1>1 DEF DeletedGroup, GroupsOf
<1>3. coming' = coming /\ UNCHANGED <<hardware, settings, connected, loaded, missed>>
  BY DEF RemoveGroup, OutsideHcu
<1>4. DeletedGroup.members \subseteq DevicesOf(hcu)
  BY <1>2
<1> QED
  BY <1>1, <1>2, <1>3, <1>4, GroupHappens

LEMMA MembersSet ==
  ASSUME NEW s \in Known, NEW g \in Group, NEW m
  PROVE  [s EXCEPT !.grp[g].members = m] =
         [s EXCEPT !.grp[g] = [type |-> s.grp[g].type, members |-> m]]
BY DEF Known

\* The client may know a group of another type while it is out of step.
LEMMA ChangeGroupStep == ASSUME DiscoveryInv, ChangeGroup PROVE DiscoveryInv'
<1>1. PICK g \in GroupsOf(hcu), m \in SUBSET (DevicesOf(hcu) \ coming) :
        /\ hcu' = [hcu EXCEPT !.grp[g].members = m]
        /\ Receive([seen EXCEPT !.grp[g].members = m])
  BY DEF ChangeGroup
<1> DEFINE y == [type |-> hcu.grp[g].type, members |-> m]
           z == [type |-> seen.grp[g].type, members |-> m]
<1>2. hcu \in Known /\ seen \in Known /\ g \in Group
  BY DEF DiscoveryInv, DiscoveryTypes, GroupsOf
<1>3. /\ hcu' = WithGroup(hcu, g, y)
      /\ [seen EXCEPT !.grp[g].members = m] = WithGroup(seen, g, z)
  BY <1>1, <1>2, MembersSet DEF WithGroup
<1>4. Receive(WithGroup(seen, g, z))
  BY <1>1, <1>3
<1>5. InStep(hcu, coming, seen) => z = y
  BY <1>2 DEF InStep
<1>6. y.type = hcu.grp[g].type /\ y.members = m
  OBVIOUS
<1>7. m \subseteq Device /\ m \subseteq DevicesOf(hcu)
  BY <1>1 DEF DevicesOf
<1>8. /\ y \in [type : GroupType \cup {"none", "deleted"}, members : SUBSET Device]
      /\ z \in [type : GroupType \cup {"none", "deleted"}, members : SUBSET Device]
  BY <1>2, <1>7 DEF Known
<1>9. coming' = coming /\ UNCHANGED <<hardware, settings, connected, loaded, missed>>
  BY DEF ChangeGroup, OutsideHcu
<1> HIDE DEF y, z
<1> QED
  BY <1>2, <1>3, <1>4, <1>5, <1>6, <1>7, <1>8, <1>9, GroupHappens

LEMMA MakeStep == ASSUME DiscoveryInv, MakeGroup PROVE DiscoveryInv'
<1>1. PICK g \in {g \in Group : hcu.grp[g] = NoGroup}, y \in GroupData,
           new \in SUBSET (Device \ DevicesOf(hcu)) :
        \E x \in [new -> DeviceData] :
          /\ \A d \in new : x[d] \in DataOf(d)
          /\ new \subseteq y.members /\ y.members \subseteq DevicesOf(hcu) \cup new
          /\ hcu' = [dev |-> [d \in Device |-> IF d \in new THEN x[d] ELSE hcu.dev[d]],
                     grp |-> [hcu.grp EXCEPT ![g] = y]]
          /\ coming' = IF connected THEN coming \cup new ELSE coming
          /\ Receive([seen EXCEPT !.grp[g] = y])
  BY DEF MakeGroup
<1>2. PICK x \in [new -> DeviceData] :
        /\ \A d \in new : x[d] \in DataOf(d)
        /\ new \subseteq y.members /\ y.members \subseteq DevicesOf(hcu) \cup new
        /\ hcu' = [dev |-> [d \in Device |-> IF d \in new THEN x[d] ELSE hcu.dev[d]],
                   grp |-> [hcu.grp EXCEPT ![g] = y]]
        /\ coming' = IF connected THEN coming \cup new ELSE coming
        /\ Receive([seen EXCEPT !.grp[g] = y])
  BY <1>1
<1> DEFINE t == WithGroup(seen, g, y)
<1>3. /\ hcu \in Known /\ seen \in Known /\ coming \subseteq Device
      /\ FitsHardware(hcu) /\ FitsHardware(seen)
      /\ connected \in BOOLEAN
      /\ HcuOK(hcu, coming) /\ (connected = FALSE => coming = {})
  BY DEF DiscoveryInv, DiscoveryTypes, HcuInv
<1>4. /\ g \in Group /\ hcu.grp[g].type = "none"
      /\ y \in [type : GroupType \cup {"none", "deleted"}, members : SUBSET Device]
  BY <1>1 DEF NoGroup, GroupData
<1>5. \A d \in new : x[d] \in DeviceData /\ x[d] # Absent /\ x[d].maker = hardware[d].maker
  BY <1>2, DataFits
<1>6. /\ \A d \in Device : hcu'.dev[d] = IF d \in new THEN x[d] ELSE hcu.dev[d]
      /\ \A k \in Group : hcu'.grp[k] = IF k = g THEN y ELSE hcu.grp[k]
  BY <1>2, <1>3 DEF Known
<1>7. hcu' \in Known
  <2>1. [d \in Device |-> IF d \in new THEN x[d] ELSE hcu.dev[d]]
          \in [Device -> DeviceData \cup {Absent}]
    BY <1>3, <1>5 DEF Known
  <2>2. [hcu.grp EXCEPT ![g] = y] \in
          [Group -> [type : GroupType \cup {"none", "deleted"}, members : SUBSET Device]]
    BY <1>3, <1>4 DEF Known
  <2> QED
    BY <1>2, <2>1, <2>2 DEF Known
<1>8. /\ t \in Known /\ t.dev = seen.dev
      /\ \A k \in Group : t.grp[k] = IF k = g THEN y ELSE seen.grp[k]
  BY <1>3, <1>4, GroupSet
<1>9. Receive(t)
  BY <1>2 DEF WithGroup
<1> HIDE DEF t
<1>10. DevicesOf(hcu') = DevicesOf(hcu) \cup new
  BY <1>1, <1>5, <1>6 DEF DevicesOf
<1>11. FitsHardware(hcu') /\ FitsHardware(t)
  <2>1. FitsHardware(hcu')
    BY <1>3, <1>5, <1>6, <1>10 DEF FitsHardware, DevicesOf
  <2>2. FitsHardware(t)
    BY <1>3, <1>8 DEF FitsHardware, DevicesOf
  <2> QED
    BY <2>1, <2>2
<1>12. TypesKept(hcu, hcu')
  BY <1>4, <1>6 DEF TypesKept
<1>13. coming' = IF connected = TRUE THEN coming \cup new ELSE coming
  BY <1>2, <1>3
<1>14. HcuOK(hcu', coming')
  BY <1>1, <1>2, <1>3, <1>6, <1>10, <1>13 DEF HcuOK
<1>15. coming' \subseteq Device /\ (connected = FALSE => coming' = {})
  BY <1>3, <1>13
<1>16. UNCHANGED <<hardware, settings, connected, loaded, missed>>
  BY DEF MakeGroup, OutsideHcu
<1>17. connected = TRUE /\ InStep(hcu, coming, seen) => InStep(hcu', coming', t)
  BY <1>1, <1>6, <1>8, <1>13 DEF InStep, DevicesOf
<1>18. Happens(t)
  BY <1>7, <1>8, <1>9, <1>11, <1>12, <1>14, <1>15, <1>16, <1>17 DEF Happens
<1> QED
  BY <1>18, HappensKeeps

LEMMA ComesStep == ASSUME DiscoveryInv, NEW d \in Device, DeviceComes(d) PROVE DiscoveryInv'
<1> DEFINE s == WithDevice(seen, d, hcu.dev[d])
<1>1. /\ hcu \in Known /\ seen \in Known /\ coming \subseteq Device
      /\ FitsHardware(hcu) /\ FitsHardware(seen)
      /\ HcuOK(hcu, coming) /\ (connected = FALSE => coming = {})
  BY DEF DiscoveryInv, DiscoveryTypes, HcuInv
<1>2. /\ d \in coming /\ coming' = coming \ {d} /\ Receive(s) /\ hcu' = hcu
      /\ UNCHANGED <<hardware, settings, connected, loaded, missed>>
  BY DEF DeviceComes, OutsideHcu, WithDevice
<1>3. hcu.dev[d] \in DeviceData \cup {Absent}
  BY <1>1 DEF Known
<1>4. /\ s \in Known /\ s.grp = seen.grp
      /\ \A c \in Device : s.dev[c] = IF c = d THEN hcu.dev[d] ELSE seen.dev[c]
  BY <1>1, <1>3, DeviceSet
<1> HIDE DEF s
<1>5. FitsHardware(s)
  BY <1>1, <1>4 DEF FitsHardware, DevicesOf
<1>6. TypesKept(hcu, hcu') /\ FitsHardware(hcu')
  BY <1>1, <1>2 DEF TypesKept, FitsHardware
<1>7. HcuOK(hcu', coming')
  BY <1>1, <1>2 DEF HcuOK
<1>8. InStep(hcu, coming, seen) => InStep(hcu', coming', s)
  BY <1>2, <1>4 DEF InStep
<1>9. hcu' \in Known /\ coming' \subseteq Device /\ (connected = FALSE => coming' = {})
  BY <1>1, <1>2
<1>10. Happens(s)
  BY <1>2, <1>4, <1>5, <1>6, <1>7, <1>8, <1>9 DEF Happens
<1> QED
  BY <1>10, HappensKeeps

Less(y, d) == [y EXCEPT !.members = @ \ {d}]
Without(s, d) ==
  [dev |-> [s.dev EXCEPT ![d] = Absent],
   grp |-> [g \in Group |-> Less(s.grp[g], d)]]

LEMMA WithoutOne ==
  ASSUME NEW s \in Known, NEW d \in Device
  PROVE  /\ Without(s, d) \in Known
         /\ \A c \in Device : Without(s, d).dev[c] = IF c = d THEN Absent ELSE s.dev[c]
         /\ \A g \in Group : /\ Without(s, d).grp[g].type = s.grp[g].type
                             /\ Without(s, d).grp[g].members = s.grp[g].members \ {d}
                             /\ Without(s, d).grp[g] = Less(s.grp[g], d)
<1> DEFINE dev == [s.dev EXCEPT ![d] = Absent]
           grp == [g \in Group |-> Less(s.grp[g], d)]
<1>1. dev \in [Device -> DeviceData \cup {Absent}]
  BY DEF Known
<1>2. \A c \in Device : dev[c] = IF c = d THEN Absent ELSE s.dev[c]
  BY DEF Known
<1>3. grp \in [Group -> [type : GroupType \cup {"none", "deleted"}, members : SUBSET Device]]
  BY DEF Known, Less
<1>4. \A g \in Group : /\ grp[g].type = s.grp[g].type
                       /\ grp[g].members = s.grp[g].members \ {d}
                       /\ grp[g] = Less(s.grp[g], d)
  BY DEF Known, Less
<1>5. Without(s, d) = [dev |-> dev, grp |-> grp]
  BY DEF Without
<1> HIDE DEF dev, grp
<1>6. Without(s, d).dev = dev /\ Without(s, d).grp = grp
  BY <1>5
<1>7. Without(s, d) \in Known
  BY <1>1, <1>3, <1>5 DEF Known
<1> QED
  BY <1>2, <1>4, <1>6, <1>7

LEMMA RemoveStep == ASSUME DiscoveryInv, RemoveDevice PROVE DiscoveryInv'
<1>1. PICK d \in DevicesOf(hcu) \ coming : hcu' = Without(hcu, d) /\ Receive(Without(seen, d))
  BY DEF RemoveDevice, Without, Less
<1>2. /\ hcu \in Known /\ seen \in Known /\ coming \subseteq Device
      /\ FitsHardware(hcu) /\ FitsHardware(seen)
      /\ HcuOK(hcu, coming) /\ (connected = FALSE => coming = {})
      /\ d \in Device
  BY <1>1 DEF DiscoveryInv, DiscoveryTypes, HcuInv, DevicesOf
<1>3. coming' = coming /\ UNCHANGED <<hardware, settings, connected, loaded, missed>>
  BY DEF RemoveDevice, OutsideHcu
<1> DEFINE s == Without(seen, d)
<1>4. /\ hcu' \in Known
      /\ \A c \in Device : hcu'.dev[c] = IF c = d THEN Absent ELSE hcu.dev[c]
      /\ \A g \in Group : /\ hcu'.grp[g].type = hcu.grp[g].type
                          /\ hcu'.grp[g].members = hcu.grp[g].members \ {d}
                          /\ hcu'.grp[g] = Less(hcu.grp[g], d)
  BY <1>1, <1>2, WithoutOne
<1>5. /\ s \in Known
      /\ \A c \in Device : s.dev[c] = IF c = d THEN Absent ELSE seen.dev[c]
      /\ \A g \in Group : s.grp[g] = Less(seen.grp[g], d)
  BY <1>2, WithoutOne
<1>6. Receive(s)
  BY <1>1
<1> HIDE DEF s
<1>7. FitsHardware(hcu') /\ FitsHardware(s)
  BY <1>2, <1>4, <1>5 DEF FitsHardware, DevicesOf
<1>8. TypesKept(hcu, hcu')
  BY <1>4 DEF TypesKept
<1>9. DevicesOf(hcu') = DevicesOf(hcu) \ {d}
  BY <1>4 DEF DevicesOf
<1>10. HcuOK(hcu', coming')
  BY <1>1, <1>2, <1>3, <1>4, <1>9 DEF HcuOK
<1>11. InStep(hcu, coming, seen) => InStep(hcu', coming', s)
  <2>1. ASSUME InStep(hcu, coming, seen), NEW g \in Group PROVE s.grp[g] = hcu'.grp[g]
    BY <1>4, <1>5, <2>1 DEF InStep
  <2>2. ASSUME InStep(hcu, coming, seen), NEW c \in Device
        PROVE  s.dev[c] = IF c \in coming' THEN Absent ELSE hcu'.dev[c]
    BY <1>1, <1>3, <1>4, <1>5, <2>2 DEF InStep
  <2> QED
    BY <2>1, <2>2 DEF InStep
<1>12. coming' \subseteq Device /\ (connected = FALSE => coming' = {})
  BY <1>2, <1>3
<1>13. Happens(s)
  BY <1>3, <1>4, <1>5, <1>6, <1>7, <1>8, <1>10, <1>11, <1>12 DEF Happens
<1> QED
  BY <1>13, HappensKeeps


LEMMA TypesStay == ASSUME NEW s PROVE TypesKept(s, s) /\ InStep(s, {}, s)
BY DEF TypesKept, InStep

LEMMA LoseStep == ASSUME DiscoveryInv, LoseConnection PROVE DiscoveryInv'
<1>1. /\ connected' = FALSE /\ coming' = {}
      /\ UNCHANGED <<hardware, hcu, settings, loaded, seen, running, held, registry, due,
                     countdown, missed>>
  BY DEF LoseConnection, hassVars
<1> USE DEF DiscoveryInv
<1>2. DiscoveryTypes'
  BY <1>1 DEF DiscoveryTypes, FitsHardware
<1>3. HcuInv'
  BY <1>1 DEF HcuInv, HcuOK
<1>4. RegistryOK' /\ RunningOK'
  BY <1>1 DEF RegistryOK, RunningOK, NoReload
<1> QED
  BY <1>2, <1>3, <1>4

LEMMA ReconnectStep == ASSUME DiscoveryInv, Reconnected PROVE DiscoveryInv'
<1> USE DEF DiscoveryInv
<1>1. /\ connected = FALSE /\ connected' = TRUE /\ coming = {} /\ coming' = {}
      /\ UNCHANGED <<hardware, hcu, settings, loaded, countdown>>
  <2>1. connected = FALSE /\ connected' = TRUE
    BY DEF Reconnected, DiscoveryTypes
  <2>2. UNCHANGED <<hardware, hcu, coming, settings, loaded, countdown>>
    BY DEF Reconnected, hcuVars
  <2> QED
    BY <2>1, <2>2 DEF HcuInv
<1>2. PICK answered \in BOOLEAN :
        IF loaded /\ answered
          THEN /\ seen' = hcu
               /\ HandleIncluded(Included(seen, hcu), hcu)
               /\ due' = (due \/ (settings.auto /\ Excluded(seen, hcu) # {}))
               /\ missed' = (missed \/ NeedsReload(seen, hcu))
          ELSE /\ missed' = (missed \/ (loaded /\ seen # hcu))
               /\ UNCHANGED <<hassVars, due>>
  BY DEF Reconnected
<1>3. CASE loaded /\ answered
  <2>1. /\ seen' = hcu
        /\ HandleIncluded(Included(seen, hcu), hcu)
        /\ due' = (due \/ (settings.auto /\ Excluded(seen, hcu) # {}))
        /\ missed' = (missed \/ NeedsReload(seen, hcu))
    BY <1>2, <1>3
  <2>2. loaded = TRUE
    BY <1>3 DEF DiscoveryTypes
  <2>3. due' \in BOOLEAN /\ missed' \in BOOLEAN
    BY <2>1, Zenon
  <2>4. DiscoveryTypes'
    BY <1>1, <2>1, <2>3 DEF DiscoveryTypes, FitsHardware
  <2>5. HcuInv'
    BY <1>1, <2>1, TypesStay DEF HcuInv
  <2>6. RegistryOK'
    BY <1>1, <2>1, <2>2, InclusionRegisters
  <2>7. RunningOK'
    <3>1. SUFFICES ASSUME NoReload'
          PROVE  /\ Complete(running', held', hcu, settings)
                 /\ Sound(running', hcu, settings)
                 /\ running' \subseteq registry'
      BY <1>1, <2>1 DEF RunningOK
    <3>2. settings.auto = TRUE /\ missed' = FALSE /\ due' = FALSE /\ countdown = FALSE
      BY <1>1, <3>1 DEF NoReload
    <3>3. due = FALSE /\ Excluded(seen, hcu) = {}
      <4>1. ~(due \/ (settings.auto /\ Excluded(seen, hcu) # {}))
        BY <2>1, <3>2, Zenon
      <4>2. due \in BOOLEAN
        BY DEF DiscoveryTypes
      <4> QED
        BY <3>2, <4>1, <4>2
    <3>4. missed = FALSE /\ ~NeedsReload(seen, hcu)
      <4>1. ~(missed \/ NeedsReload(seen, hcu))
        BY <2>1, <3>2, Zenon
      <4>2. missed \in BOOLEAN
        BY DEF DiscoveryTypes
      <4> QED
        BY <4>1, <4>2
    <3>5. NoReload /\ TypesKept(seen, hcu)
      BY <2>2, <3>2, <3>3, <3>4 DEF NoReload, HcuInv
    <3>6. seen \in Known /\ hcu \in Known /\ FitsHardware(seen) /\ FitsHardware(hcu)
      BY DEF DiscoveryTypes
    <3> QED
      BY <2>1, <3>3, <3>4, <3>5, <3>6, InclusionCompletes DEF RunningOK
  <2> QED
    BY <2>4, <2>5, <2>6, <2>7
<1>4. CASE ~(loaded /\ answered)
  <2>1. /\ missed' = (missed \/ (loaded /\ seen # hcu))
        /\ UNCHANGED <<seen, running, held, registry, due>>
    BY <1>2, <1>4 DEF hassVars
  <2>2. missed' \in BOOLEAN
    BY <2>1, Zenon
  <2>3. ASSUME missed' = FALSE PROVE missed = FALSE /\ (loaded = TRUE => seen = hcu)
    <3>1. ~(missed \/ (loaded /\ seen # hcu))
      BY <2>1, <2>3, Zenon
    <3>2. missed \in BOOLEAN
      BY DEF DiscoveryTypes
    <3> QED
      BY <3>1, <3>2
  <2>4. DiscoveryTypes'
    BY <1>1, <2>1, <2>2 DEF DiscoveryTypes, FitsHardware
  <2>5. HcuInv'
    BY <1>1, <2>1, <2>3, TypesStay DEF HcuInv
  <2>6. RegistryOK'
    BY <1>1, <2>1 DEF RegistryOK
  <2>7. RunningOK'
    BY <1>1, <2>1, <2>3 DEF RunningOK, NoReload
  <2> QED
    BY <2>4, <2>5, <2>6, <2>7
<1> QED
  BY <1>3, <1>4

LEMMA CountdownStep == ASSUME DiscoveryInv, CountdownEnds PROVE DiscoveryInv'
<1>1. /\ countdown' = FALSE /\ due' = TRUE
      /\ UNCHANGED <<hardware, hcu, coming, settings, connected, loaded, seen, running, held,
                     registry, missed>>
  BY DEF CountdownEnds, hassVars, hcuVars
<1> USE DEF DiscoveryInv
<1>2. DiscoveryTypes'
  BY <1>1 DEF DiscoveryTypes, FitsHardware
<1>3. HcuInv' /\ RegistryOK' /\ RunningOK'
  BY <1>1 DEF HcuInv, RegistryOK, RunningOK, NoReload
<1> QED
  BY <1>2, <1>3

LEMMA OptionsStep == ASSUME DiscoveryInv, ChangeOptions PROVE DiscoveryInv'
<1>1. /\ settings' \in Options /\ due' = TRUE
      /\ UNCHANGED <<hardware, hcu, coming, connected, loaded, seen, running, held,
                     registry, countdown, missed>>
  BY DEF ChangeOptions, hassVars, hcuVars
<1> USE DEF DiscoveryInv
<1>2. DiscoveryTypes'
  BY <1>1 DEF DiscoveryTypes, FitsHardware
<1>3. HcuInv' /\ RegistryOK' /\ RunningOK'
  BY <1>1 DEF HcuInv, RegistryOK, RunningOK, NoReload
<1> QED
  BY <1>2, <1>3

LEMMA NothingKnown ==
  EmptyState \in Known /\ FitsHardware(EmptyState) /\ DevicesOf(EmptyState) = {}
<1>1. /\ EmptyState.dev = [d \in Device |-> Absent]
      /\ EmptyState.grp = [g \in Group |-> NoGroup]
  BY DEF EmptyState
<1>2. DevicesOf(EmptyState) = {}
  BY <1>1 DEF DevicesOf
<1>3. NoGroup \in [type : GroupType \cup {"none", "deleted"}, members : SUBSET Device]
  BY DEF NoGroup
<1>4. EmptyState \in Known
  BY <1>3 DEF EmptyState, Known
<1> QED
  BY <1>2, <1>4 DEF FitsHardware

LEMMA UnloadStep == ASSUME DiscoveryInv, UnloadEntry PROVE DiscoveryInv'
<1>1. /\ loaded' = FALSE /\ due' = FALSE /\ countdown' = FALSE /\ missed' = FALSE
      /\ seen' = EmptyState
      /\ UNCHANGED <<hardware, hcu, coming, settings, connected, registry>>
  BY DEF UnloadEntry, hcuVars
<1> USE DEF DiscoveryInv
<1>2. DiscoveryTypes'
  <2>1. FitsHardware(EmptyState)'
    BY <1>1, NothingKnown DEF FitsHardware
  <2> QED
    BY <1>1, <2>1, NothingKnown DEF DiscoveryTypes, FitsHardware
<1>3. HcuInv' /\ RegistryOK' /\ RunningOK'
  BY <1>1 DEF HcuInv, RegistryOK, RunningOK, NoReload
<1> QED
  BY <1>2, <1>3

LEMMA InItem == \A s : DevicesOf(s) \subseteq Item /\ GroupsOf(s) \subseteq Item
BY DEF DevicesOf, GroupsOf, Item

LEMMA SetUpStep == ASSUME DiscoveryInv, SetUpEntry PROVE DiscoveryInv'
<1> USE DEF DiscoveryInv
<1> DEFINE found == Discovered(Item, hcu, settings)
<1>1. /\ connected = TRUE /\ loaded' = TRUE /\ seen' = hcu /\ coming' = {} /\ due' = FALSE
      /\ running' = found /\ registry' = Cleaned(registry, found) \cup found
      /\ UNCHANGED <<hardware, hcu, settings, connected, held, countdown, missed>>
  BY DEF SetUpEntry, DiscoveryTypes
<1>2. DiscoveryTypes'
  BY <1>1 DEF DiscoveryTypes, FitsHardware
<1>3. HcuInv'
  BY <1>1, TypesStay DEF HcuInv, HcuOK
<1>4. \A e \in found : IsEntity(e)
  BY DiscoveredShape
<1>5. \A e, f \in found : e.uid = f.uid => e = f
  BY OneEach
<1>6. Cleaned(registry, found) \subseteq found
  <2> HIDE DEF found
  <2> QED
    BY <1>4 DEF Cleaned, RegistryOK, IsEntity
<1>7. running' = found /\ registry' = found
  BY <1>1, <1>6
<1>8. RegistryOK'
  <2> HIDE DEF found
  <2> QED
    BY <1>4, <1>5, <1>7 DEF RegistryOK
<1>9. Complete(found, held, hcu, settings)
  <2>1. \A d \in DevicesOf(hcu) : DeviceEntities(d, hcu, settings) \subseteq found
    BY InDiscovered, InItem
  <2>2. \A g \in GroupsOf(hcu) : GroupEntities(g, hcu, settings) \subseteq found
    BY InDiscovered, InItem
  <2>3. \A g \in GroupsOf(hcu) : MembersKnown(g, hcu)
    BY DEF HcuInv, HcuOK, MembersKnown, GroupsOf
  <2> QED
    BY <2>1, <2>2, <2>3 DEF Complete
<1>10. Sound(found, hcu, settings)
  <2>1. ASSUME NEW e \in found
        PROVE  \/ \E d \in DevicesOf(hcu) : e \in ChannelEntities(d, hcu, settings)
               \/ \E g \in GroupsOf(hcu) : MembersKnown(g, hcu) /\ e \in GroupEntities(g, hcu, settings)
    <3>1. \A g \in GroupsOf(hcu) : MembersKnown(g, hcu)
      BY DEF HcuInv, HcuOK, MembersKnown, GroupsOf
    <3> QED
      BY <3>1, InDiscovered, ChannelsInRooms
  <2> HIDE DEF found
  <2> QED
    BY <2>1 DEF Sound
<1>11. RunningOK'
  BY <1>1, <1>7, <1>9, <1>10 DEF RunningOK
<1> QED
  BY <1>2, <1>3, <1>8, <1>11

LEMMA DeletesStep == ASSUME DiscoveryInv, NEW i \in Item, UserDeletes(i) PROVE DiscoveryInv'
<1> USE DEF DiscoveryInv
<1>1. /\ loaded # TRUE \/ i \notin Items(seen)
      /\ registry' = {e \in registry : e.uid[1] # i}
      /\ UNCHANGED <<hardware, hcu, coming, settings, connected, loaded, seen, running, held, due,
                     countdown, missed>>
  BY DEF UserDeletes, hcuVars
<1>2. DiscoveryTypes' /\ HcuInv'
  BY <1>1 DEF DiscoveryTypes, HcuInv, FitsHardware
<1>3. RegistryOK'
  BY <1>1 DEF RegistryOK
<1>4. RunningOK'
  <2>1. SUFFICES ASSUME NoReload, NEW e \in running PROVE e.uid[1] # i
    BY <1>1 DEF RunningOK, NoReload
  <2>2. i \notin Items(seen)
    BY <1>1, <2>1 DEF NoReload
  <2>3. CASE \E d \in DevicesOf(seen) : e \in ChannelEntities(d, seen, settings)
    BY <2>2, <2>3, Channels, Entities DEF Items
  <2>4. CASE \E g \in GroupsOf(seen) : e \in GroupEntities(g, seen, settings)
    <3>1. PICK g \in GroupsOf(seen) : e \in GroupEntities(g, seen, settings)
      BY <2>4
    <3>2. e.uid[1] = g
      BY <3>1, Groups, Entities
    <3> QED
      BY <2>2, <3>2 DEF Items
  <2> QED
    BY <2>1, <2>3, <2>4 DEF RunningOK, Sound
<1> QED
  BY <1>2, <1>3, <1>4

LEMMA DiscoveryStarts == DiscoveryInit => DiscoveryInv
<1> SUFFICES ASSUME DiscoveryInit PROVE DiscoveryInv
  OBVIOUS
<1>1. /\ hcu \in States /\ \A d \in DevicesOf(hcu) : hcu.dev[d] \in DataOf(d)
      /\ coming = {} /\ settings \in Options /\ connected = TRUE /\ loaded = FALSE
      /\ seen = EmptyState /\ registry = {} /\ due = FALSE /\ countdown = FALSE /\ missed = FALSE
  BY DEF DiscoveryInit
<1>2. hcu \in Known
  <2>1. /\ hcu \in [dev : [Device -> DeviceData \cup {Absent}],
                    grp : [Group -> GroupData \cup {NoGroup}]]
    BY <1>1 DEF States
  <2>2. GroupData \cup {NoGroup} \subseteq
          [type : GroupType \cup {"none", "deleted"}, members : SUBSET Device]
    BY DEF GroupData, NoGroup
  <2>3. hcu.grp \in [Group -> [type : GroupType \cup {"none", "deleted"}, members : SUBSET Device]]
    BY <2>1, <2>2
  <2>4. hcu = [dev |-> hcu.dev, grp |-> hcu.grp] /\ hcu.dev \in [Device -> DeviceData \cup {Absent}]
    BY <2>1
  <2> QED
    BY <2>3, <2>4 DEF Known
<1>3. FitsHardware(hcu)
  BY <1>1, DataFits DEF FitsHardware
<1>4. HcuOK(hcu, coming)
  BY <1>1 DEF States, HcuOK
<1> QED
  BY <1>1, <1>2, <1>3, <1>4, NothingKnown
  DEF DiscoveryInv, DiscoveryTypes, HcuInv, RegistryOK, RunningOK, NoReload

LEMMA DiscoveryAlways == DiscoverySpec => []DiscoveryInv
<1>1. ASSUME DiscoveryInv, [DiscoveryNext]_discoveryVars PROVE DiscoveryInv'
  <2>1. CASE UNCHANGED discoveryVars
    <3>1. UNCHANGED <<hardware, hcu, coming, settings, connected, loaded, seen, running, held,
                      registry, due, countdown, missed>>
      BY <2>1 DEF discoveryVars, hcuVars, hassVars
    <3>2. DiscoveryTypes' /\ HcuInv'
      BY <1>1, <3>1 DEF DiscoveryInv, DiscoveryTypes, FitsHardware, HcuInv
    <3>3. RegistryOK' /\ RunningOK'
      BY <1>1, <3>1 DEF DiscoveryInv, RegistryOK, RunningOK, NoReload
    <3> QED
      BY <3>2, <3>3 DEF DiscoveryInv
  <2>2. CASE DiscoveryNext
    BY <1>1, <2>2, PairStep, MakeStep, ChangeStep, ChangeGroupStep, RemoveStep, RemoveGroupStep,
       ComesStep, LoseStep, ReconnectStep, CountdownStep, OptionsStep, UnloadStep, SetUpStep,
       DeletesStep DEF DiscoveryNext
  <2> QED
    BY <1>1, <2>1, <2>2
<1> QED
  BY <1>1, DiscoveryStarts, PTL DEF DiscoverySpec

\* For every set of devices and groups, and any number of changes, reloads and
\* changes of the options: a channel or group is in the registry on one platform
\* only, and while the entry is set up only with an entity behind it
\* (async_discover_entities, _handle_dynamic_inclusions), although groups change
\* their platform with their members.
THEOREM OneEntity == DiscoverySpec => []OneEntityEach
<1>1. DiscoveryInv => OneEntityEach
  BY DEF DiscoveryInv, DiscoveryTypes, RegistryOK, OneEntityEach
<1> QED
  BY <1>1, DiscoveryAlways, PTL

\* For every set of devices and groups, and any number of changes: connected, with
\* nothing under way and no reload due, the entities that run are those a full
\* discovery of the HCU would find, and those of devices that lost their room
\* (_needs_reload_for_device_change, async_discover_entities).
THEOREM Follows == DiscoverySpec => []FollowsTheHcu
<1>1. ASSUME DiscoveryInv PROVE FollowsTheHcu
  <2> DEFINE found == Discovered(Item, hcu, settings)
  <2>1. SUFFICES ASSUME loaded, connected, settings.auto, ~due, ~countdown, ~missed, coming = {}
        PROVE  /\ found \subseteq registry
               /\ \A e \in running \ found :
                    e.uid[1] \in Device /\ ~hcu.dev[e.uid[1]].room /\ settings.onlyRooms
    BY DEF FollowsTheHcu
  <2>2. loaded = TRUE /\ connected = TRUE /\ due = FALSE /\ countdown = FALSE /\ missed = FALSE
    BY <1>1, <2>1 DEF DiscoveryInv, DiscoveryTypes
  <2>3. settings.auto = TRUE
    BY <1>1, <2>1, DiscoveryAssumption DEF DiscoveryInv, DiscoveryTypes
  <2>4. seen = hcu
    <3>1. /\ seen.dev \in [Device -> DeviceData \cup {Absent}]
          /\ hcu.dev \in [Device -> DeviceData \cup {Absent}]
          /\ seen.grp \in [Group -> [type : GroupType \cup {"none", "deleted"}, members : SUBSET Device]]
          /\ hcu.grp \in [Group -> [type : GroupType \cup {"none", "deleted"}, members : SUBSET Device]]
          /\ seen = [dev |-> seen.dev, grp |-> seen.grp]
          /\ hcu = [dev |-> hcu.dev, grp |-> hcu.grp]
      BY <1>1 DEF DiscoveryInv, DiscoveryTypes, Known
    <3>2. InStep(hcu, {}, seen)
      BY <1>1, <2>1, <2>2 DEF DiscoveryInv, HcuInv
    <3>3. seen.dev = hcu.dev
      BY <3>1, <3>2 DEF InStep
    <3>4. seen.grp = hcu.grp
      BY <3>1, <3>2 DEF InStep
    <3> QED
      BY <3>1, <3>3, <3>4
  <2>5. /\ Complete(running, held, hcu, settings) /\ Sound(running, hcu, settings)
        /\ running \subseteq registry
    BY <1>1, <2>2, <2>3, <2>4 DEF DiscoveryInv, RunningOK, NoReload
  <2>6. \A g \in GroupsOf(hcu) : MembersKnown(g, hcu)
    BY <1>1 DEF DiscoveryInv, HcuInv, HcuOK, MembersKnown, GroupsOf
  <2>7. found \subseteq registry
    <3>1. ASSUME NEW e \in found PROVE e \in running
      BY <2>5, <2>6, InDiscovered DEF Complete
    <3> QED
      BY <2>5, <3>1
  <2>8. ASSUME NEW e \in running, e \notin found
        PROVE  e.uid[1] \in Device /\ ~hcu.dev[e.uid[1]].room /\ settings.onlyRooms
    <3>1. CASE \E d \in DevicesOf(hcu) : e \in ChannelEntities(d, hcu, settings)
      <4>1. PICK d \in DevicesOf(hcu) : e \in ChannelEntities(d, hcu, settings)
        BY <3>1
      <4>2. e \notin DeviceEntities(d, hcu, settings)
        BY <2>8, InDiscovered, InItem
      <4>3. e.uid[1] = d
        BY <4>1, Channels, Entities
      <4>4. ~hcu.dev[d].room /\ settings.onlyRooms
        BY <4>1, <4>2, ChannelsInRooms
      <4> QED
        BY <4>3, <4>4 DEF DevicesOf
    <3>2. CASE \E g \in GroupsOf(hcu) : e \in GroupEntities(g, hcu, settings)
      BY <2>8, <3>2, InDiscovered, InItem
    <3> QED
      BY <2>5, <3>1, <3>2 DEF Sound
  <2> QED
    BY <2>7, <2>8
<1> QED
  BY <1>1, DiscoveryAlways, PTL
=============================================================================
