-------------------------- MODULE CoordinatorProofs -------------------------
(***************************************************************************)
(* Theorems about the coordinator for every number of devices, refreshes   *)
(* and changes: the cache of a Plugin User follows the HCU, a refresh      *)
(* covers the outage before it, and every entity is added once and none    *)
(* forgotten.                                                              *)
(***************************************************************************)
EXTENDS StateSync, DynamicInclusion, TLAPS

(* The cache *)

NotNewer(u, v) == \A d \in SyncDevice : u[d] <= v[d]

\* What is read later is not older, and nothing is newer than the HCU.
InOrder ==
  /\ link = "down" => chan = <<>>
  /\ NotNewer(atConnect, hcu)
  /\ \A i \in 1 .. Len(chan) :
       NotNewer(atConnect, chan[i].ver) /\ NotNewer(chan[i].ver, hcu)
  /\ \A i, j \in 1 .. Len(chan) : i <= j => NotNewer(chan[i].ver, chan[j].ver)
  /\ mode = "plugin" => /\ NotNewer(cache, hcu)
                        /\ \A i \in 1 .. Len(chan) : NotNewer(cache, chan[i].ver)

\* How the setup, the connection and the fetches go together.
Stages ==
  /\ fetch["setup"].at \in UnderWay <=> setup = "fetching"
  /\ newest \in SyncRefresh => SetupOver /\ connectedBefore
  /\ ~SetupOver => \A f \in SyncRefresh : fetch[f].at = "idle"
  /\ link = "up" => connectedBefore
  /\ setup = "failed" => link = "down"
  /\ mode = "plugin" /\ setup \in {"fetching", "registering", "loaded"} => connectedBefore
  /\ mode = "plugin" /\ link = "down" =>
       \A f \in Fetch : fetch[f].at \notin {"asked", "answered"}

\* What the newest refresh was told is not older than the connection.
Answers ==
  newest \in SyncRefresh =>
    /\ fetch[newest].at = "answered" => NotNewer(atConnect, fetch[newest].ver)
    /\ mode = "plugin" /\ fetch[newest].at = "read" => NotNewer(atConnect, cache)

\* Each answer is expected, and a fetch has only one.
OneAnswerEach ==
  mode = "plugin" /\ ~gap =>
    /\ \A i \in 1 .. Len(chan) : chan[i].kind = "snapshot" => fetch[chan[i].of].at = "answered"
    /\ \A i, j \in 1 .. Len(chan) :
         chan[i].kind = "snapshot" /\ chan[j].kind = "snapshot" /\ chan[i].of = chan[j].of
         => i = j

\* The message m says what the device d is.
Tells(m, d) == m.kind = "snapshot" \/ m.of = d

\* Once everything was read, the cache holds what the HCU holds.
Covered ==
  /\ mode = "plugin" /\ ~gap /\ link = "up" /\ setup \in {"fetching", "registering", "loaded"}
  /\ \A f \in Fetch : fetch[f].at \notin {"wanted", "asked"}
  => \A d \in SyncDevice :
       \/ cache[d] = hcu[d]
       \/ \E i \in 1 .. Len(chan) : Tells(chan[i], d) /\ chan[i].ver[d] = hcu[d]

SyncInv == SyncTypeOK /\ InOrder /\ Stages /\ Answers /\ OneAnswerEach /\ Covered

-----------------------------------------------------------------------------
LEMMA Refreshes ==
  "setup" \in Fetch /\ \A f \in SyncRefresh : f \in Fetch /\ f # "setup"
BY ModeAssumption DEF Fetch

\* A message with what the HCU holds is put behind the others.
LEMMA AppendMessage ==
  ASSUME NEW m \in Messages, chan \in Seq(Messages), chan' = Append(chan, m)
  PROVE  /\ chan' \in Seq(Messages) /\ Len(chan') = Len(chan) + 1 /\ Len(chan) \in Nat
         /\ chan'[Len(chan')] = m
         /\ \A i \in 1 .. Len(chan) : chan'[i] = chan[i] /\ i \in 1 .. Len(chan')
         /\ \A i \in 1 .. Len(chan') : i \in 1 .. Len(chan) \/ i = Len(chan')
OBVIOUS

\* A message with the newest versions keeps the order.
LEMMA AppendedInOrder ==
  ASSUME SyncTypeOK, InOrder, hcu' \in Versions, NotNewer(hcu, hcu'),
         UNCHANGED <<mode, link, cache, atConnect>>, link = "up",
         Len(chan') = Len(chan) + 1, chan'[Len(chan')].ver = hcu',
         \A i \in 1 .. Len(chan) : chan'[i] = chan[i],
         \A i \in 1 .. Len(chan') : i \in 1 .. Len(chan) \/ i = Len(chan')
  PROVE  InOrder'
<1>1. /\ hcu \in Versions /\ cache \in Versions /\ atConnect \in Versions
      /\ \A i \in 1 .. Len(chan) : chan[i].ver \in Versions
      /\ Len(chan) \in Nat
  BY DEF SyncTypeOK, Messages
<1>2. ASSUME NEW u \in Versions, NotNewer(u, hcu) PROVE NotNewer(u, hcu')
  BY <1>1, <1>2 DEF NotNewer, Versions
<1>3. ASSUME NEW i \in 1 .. Len(chan')
      PROVE  /\ chan'[i].ver \in Versions
             /\ NotNewer(atConnect, chan'[i].ver) /\ NotNewer(chan'[i].ver, hcu')
             /\ mode = "plugin" => NotNewer(cache, chan'[i].ver)
  <2>1. CASE i \in 1 .. Len(chan)
    BY <1>1, <1>2, <2>1 DEF InOrder
  <2>2. CASE i = Len(chan')
    <3>1. NotNewer(hcu', hcu')
      BY DEF NotNewer, Versions
    <3> QED
      BY <1>1, <1>2, <2>2, <3>1 DEF InOrder
  <2> QED
    BY <2>1, <2>2
<1>4. ASSUME NEW i \in 1 .. Len(chan'), NEW j \in 1 .. Len(chan'), i <= j
      PROVE  NotNewer(chan'[i].ver, chan'[j].ver)
  <2>1. CASE j \in 1 .. Len(chan)
    <3>1. i \in 1 .. Len(chan)
      BY <1>1, <1>4, <2>1
    <3> QED
      BY <1>4, <2>1, <3>1 DEF InOrder
  <2>2. CASE j = Len(chan')
    BY <1>3, <2>2
  <2> QED
    BY <2>1, <2>2
<1>5. NotNewer(atConnect, hcu') /\ (mode = "plugin" => NotNewer(cache, hcu'))
  BY <1>1, <1>2 DEF InOrder
<1> QED
  BY <1>3, <1>4, <1>5 DEF InOrder

LEMMA NextMessage ==
  ASSUME chan \in Seq(Messages), chan # <<>>, chan' = Tail(chan)
  PROVE  /\ chan' \in Seq(Messages) /\ Len(chan') = Len(chan) - 1 /\ Len(chan) \in Nat
         /\ 1 \in 1 .. Len(chan) /\ Head(chan) = chan[1] /\ chan[1] \in Messages
         /\ \A i \in 1 .. Len(chan') : chan'[i] = chan[i + 1] /\ i + 1 \in 1 .. Len(chan)
         /\ \A i \in 1 .. Len(chan) : i = 1 \/ (i - 1 \in 1 .. Len(chan') /\ chan'[i - 1] = chan[i])
OBVIOUS

LEMMA InitSync == ASSUME Init PROVE SyncInv
<1> USE ModeAssumption DEF Init
<1>1. SyncTypeOK
  BY DEF SyncTypeOK, Versions, NoFetch, Nothing, Fetch
<1>2. InOrder
  BY DEF InOrder, NotNewer, Nothing
<1>3. Stages
  BY DEF Stages, NoFetch, UnderWay, Fetch, SetupOver
<1>4. Answers /\ OneAnswerEach /\ Covered
  BY DEF Answers, OneAnswerEach, Covered
<1> QED
  BY <1>1, <1>2, <1>3, <1>4 DEF SyncInv

LEMMA DeviceChangesStep == ASSUME SyncInv, DeviceChanges PROVE SyncInv'
<1> USE DEF SyncInv
<1>1. PICK d \in SyncDevice :
        /\ hcu' = [hcu EXCEPT ![d] = @ + 1]
        /\ chan' = IF link = "up"
                     THEN Append(chan, [kind |-> "event", of |-> d, ver |-> hcu'])
                     ELSE chan
  BY DEF DeviceChanges
<1>2. /\ UNCHANGED <<mode, link, setup, fetch, cache, gap, connectedBefore, atConnect, newest>>
  BY DEF DeviceChanges, loopVars
<1>3. hcu' \in Versions /\ NotNewer(hcu, hcu') /\ \A e \in SyncDevice \ {d} : hcu'[e] = hcu[e]
  BY <1>1 DEF SyncTypeOK, Versions, NotNewer
<1>4. CASE link = "up"
  <2> DEFINE m == [kind |-> "event", of |-> d, ver |-> hcu']
  <2>1. m \in Messages /\ chan' = Append(chan, m) /\ chan \in Seq(Messages)
    BY <1>1, <1>3, <1>4 DEF Messages, SyncTypeOK
  <2>2. m.kind = "event" /\ m.of = d /\ m.ver = hcu'
    OBVIOUS
  <2> HIDE DEF m
  <2>3. /\ chan' \in Seq(Messages) /\ Len(chan') = Len(chan) + 1 /\ Len(chan) \in Nat
        /\ chan'[Len(chan')] = m
        /\ \A i \in 1 .. Len(chan) : chan'[i] = chan[i] /\ i \in 1 .. Len(chan')
        /\ \A i \in 1 .. Len(chan') : i \in 1 .. Len(chan) \/ i = Len(chan')
    BY <2>1, AppendMessage
  <2>4. SyncTypeOK'
    BY <1>2, <1>3, <2>3 DEF SyncTypeOK
  <2>6. InOrder'
    BY <1>2, <1>3, <1>4, <2>2, <2>3, AppendedInOrder
  <2>7. Stages' /\ Answers'
    BY <1>2 DEF Stages, Answers, SetupOver
  <2>8. OneAnswerEach'
    BY <1>2, <2>2, <2>3 DEF OneAnswerEach
  <2>9. Covered'
    BY <1>2, <1>3, <2>2, <2>3 DEF Covered, Tells
  <2> QED
    BY <2>4, <2>6, <2>7, <2>8, <2>9
<1>5. CASE link # "up"
  <2>1. UNCHANGED chan /\ chan = <<>> /\ link = "down"
    BY <1>1, <1>5 DEF SyncTypeOK, InOrder
  <2>2. SyncTypeOK'
    BY <1>2, <1>3, <2>1 DEF SyncTypeOK
  <2>3. InOrder'
    BY <1>2, <1>3, <2>1 DEF InOrder, NotNewer, SyncTypeOK, Versions
  <2>4. Stages' /\ Answers' /\ OneAnswerEach' /\ Covered'
    BY <1>2, <2>1 DEF Stages, Answers, OneAnswerEach, Covered, SetupOver
  <2> QED
    BY <2>2, <2>3, <2>4
<1> QED
  BY <1>4, <1>5

LEMMA ConnectStep == ASSUME SyncInv, Connect PROVE SyncInv'
<1> USE DEF SyncInv
<1>1. /\ link = "down" /\ link' = "up" /\ setup # "failed" /\ atConnect' = hcu /\ chan = <<>>
      /\ connectedBefore'
      /\ UNCHANGED <<mode, hcu, chan, setup, cache>>
      /\ \A f \in Fetch : fetch[f].at # "read"
      /\ \/ /\ NeedsRefresh
            /\ \E f \in SyncRefresh : fetch[f].at = "idle" /\ newest' = f
                                      /\ fetch' = [fetch EXCEPT ![f].at = "wanted"]
         \/ ~NeedsRefresh /\ UNCHANGED <<fetch, newest>>
  BY DEF Connect, At, Moved, InOrder
<1>2. gap' <=> connectedBefore /\ setup = "registering"
  BY DEF Connect
<1>3. CASE NeedsRefresh
  <2>1. PICK f \in SyncRefresh : fetch[f].at = "idle" /\ newest' = f
                                 /\ fetch' = [fetch EXCEPT ![f].at = "wanted"]
    BY <1>1, <1>3
  <2>2. /\ f \in Fetch /\ f # "setup" /\ setup = "loaded" /\ connectedBefore
    BY <1>3, ModeAssumption DEF Fetch, NeedsRefresh, SetupOver
  <2>3. /\ fetch'[f].at = "wanted" /\ \A g \in Fetch \ {f} : fetch'[g] = fetch[g]
        /\ fetch'["setup"] = fetch["setup"] /\ "setup" \in Fetch
    BY <2>1, <2>2 DEF SyncTypeOK, Fetch
  <2>4. SyncTypeOK'
    BY <1>1, <2>1, <2>2 DEF SyncTypeOK, UnderWay
  <2>5. InOrder'
    BY <1>1 DEF InOrder, NotNewer, SyncTypeOK, Versions
  <2>6. Stages'
    BY <1>1, <2>1, <2>2, <2>3 DEF Stages, SetupOver
  <2>7. Answers' /\ OneAnswerEach' /\ Covered'
    BY <1>1, <2>1, <2>2, <2>3 DEF Answers, OneAnswerEach, Covered
  <2> QED
    BY <2>4, <2>5, <2>6, <2>7
<1>4. CASE ~NeedsRefresh
  <2>1. UNCHANGED <<fetch, newest>> /\ "setup" \in Fetch
    BY <1>1, <1>4 DEF Fetch
  <2>2. newest \notin SyncRefresh
    BY <1>4 DEF Stages, NeedsRefresh
  <2>3. SyncTypeOK'
    BY <1>1, <2>1 DEF SyncTypeOK
  <2>4. InOrder'
    BY <1>1 DEF InOrder, NotNewer, SyncTypeOK, Versions
  <2>5. Stages'
    BY <1>1, <2>1, <2>2 DEF Stages, SetupOver
  <2>6. Answers' /\ OneAnswerEach'
    BY <1>1, <2>1, <2>2 DEF Answers, OneAnswerEach
  <2>7. mode = "plugin" /\ setup = "fetching" => fetch["setup"].at = "wanted"
    BY <1>1, <2>1 DEF Stages, UnderWay
  <2>8. mode = "plugin" /\ setup \in {"registering", "loaded"} => gap'
    BY <1>2, <1>4 DEF Stages, NeedsRefresh, SetupOver
  <2>9. Covered'
    BY <1>1, <2>1, <2>7, <2>8 DEF Covered
  <2> QED
    BY <2>3, <2>4, <2>5, <2>6, <2>9
<1> QED
  BY <1>3, <1>4

LEMMA ConnectionLostStep == ASSUME SyncInv, ConnectionLost PROVE SyncInv'
<1> USE DEF SyncInv
<1>1. /\ link' = "down" /\ chan' = <<>>
      /\ UNCHANGED <<mode, hcu, connectedBefore, atConnect, newest, setup, cache, gap>>
      /\ fetch' = [f \in Fetch |-> IF mode = "plugin" /\ fetch[f].at \in {"asked", "answered"}
                                     THEN [NoFetch EXCEPT !.at = "wanted"] ELSE fetch[f]]
  BY DEF ConnectionLost, loopVars
<1>2. \A f \in Fetch :
        \/ fetch'[f] = fetch[f] /\ ~(mode = "plugin" /\ fetch[f].at \in {"asked", "answered"})
        \/ /\ mode = "plugin" /\ fetch[f].at \in {"asked", "answered"} /\ fetch'[f].at = "wanted"
           /\ fetch'[f] \in [at : {"idle", "done"} \cup UnderWay, ver : Versions]
  BY <1>1 DEF NoFetch, Nothing, Versions, UnderWay
<1>3. SyncTypeOK'
  BY <1>1, <1>2 DEF SyncTypeOK
<1>4. InOrder'
  BY <1>1 DEF InOrder
<1>5. Stages'
  <2>1. "setup" \in Fetch
    BY DEF Fetch
  <2>2. fetch'["setup"].at \in UnderWay <=> fetch["setup"].at \in UnderWay
    BY <1>2, <2>1 DEF UnderWay
  <2>3. mode = "plugin" => \A f \in Fetch : fetch'[f].at \notin {"asked", "answered"}
    BY <1>2
  <2> QED
    BY Refreshes, <1>1, <2>2, <2>3 DEF Stages, SetupOver
<1>6. Answers'
  BY <1>1, <1>2 DEF Answers, SyncTypeOK
<1>7. OneAnswerEach' /\ Covered'
  BY <1>1 DEF OneAnswerEach, Covered
<1> QED
  BY <1>3, <1>4, <1>5, <1>6, <1>7

\* The setup and the requests go on, with nothing received.
LEMMA SetupStep ==
  ASSUME SyncInv, StartSetup \/ ConnectTimeout \/ FinishSetup \/ SetUpAgain
  PROVE  SyncInv'
<1> USE DEF SyncInv
<1>s. "setup" \in Fetch
  BY DEF Fetch
<1>1. CASE StartSetup
  <2>1. /\ setup = "starting" /\ setup' = "fetching" /\ (mode = "plugin" => link = "up")
        /\ fetch' = [fetch EXCEPT !["setup"].at = "wanted"]
        /\ UNCHANGED <<mode, hcu, link, chan, connectedBefore, atConnect, newest, cache, gap>>
    BY <1>1 DEF StartSetup, Moved, hcuVars, loopVars
  <2>2. /\ fetch'["setup"].at = "wanted" /\ \A g \in Fetch \ {"setup"} : fetch'[g] = fetch[g]
    BY <1>s, <2>1 DEF SyncTypeOK
  <2>3. newest \notin SyncRefresh /\ fetch["setup"].at \notin UnderWay
    BY <2>1 DEF Stages, SetupOver
  <2>4. SyncTypeOK'
    BY <1>s, <2>1 DEF SyncTypeOK, UnderWay
  <2>5. InOrder' /\ Stages' /\ Answers'
    BY Refreshes, <1>s, <2>1, <2>2, <2>3 DEF InOrder, Stages, Answers, UnderWay, SetupOver
  <2>6. OneAnswerEach'
    BY <2>1, <2>2, <2>3 DEF OneAnswerEach, UnderWay
  <2>7. Covered'
    BY <1>s, <2>1, <2>2 DEF Covered
  <2> QED
    BY <2>4, <2>5, <2>6, <2>7
<1>2. CASE ConnectTimeout
  <2>1. /\ setup = "starting" /\ setup' = "failed" /\ link = "down"
        /\ UNCHANGED <<mode, hcu, link, chan, connectedBefore, atConnect, newest, cache, gap, fetch>>
    BY <1>2 DEF ConnectTimeout, hcuVars, loopVars
  <2>2. newest \notin SyncRefresh
    BY <2>1 DEF Stages, SetupOver
  <2> QED
    BY Refreshes, <2>1, <2>2
    DEF SyncTypeOK, InOrder, Stages, Answers, OneAnswerEach, Covered, SetupOver
<1>3. CASE FinishSetup
  <2>1. /\ setup = "registering" /\ setup' = "loaded"
        /\ UNCHANGED <<mode, hcu, link, chan, connectedBefore, atConnect, newest, cache, gap, fetch>>
    BY <1>3 DEF FinishSetup, hcuVars, loopVars
  <2> QED
    BY <2>1 DEF SyncTypeOK, InOrder, Stages, Answers, OneAnswerEach, Covered, SetupOver
<1>4. CASE SetUpAgain
  <2>1. /\ setup = "failed" /\ setup' = "starting" /\ link = "down" /\ chan = <<>>
        /\ atConnect' = Nothing /\ newest' = "setup" /\ cache' = Nothing
        /\ fetch' = [f \in Fetch |-> NoFetch]
        /\ UNCHANGED <<mode, hcu, link, chan>>
    BY <1>4 DEF SetUpAgain, Stages, InOrder, hcuVars
  <2>2. /\ Nothing \in Versions /\ NotNewer(Nothing, hcu)
        /\ NoFetch \in [at : {"idle", "done"} \cup UnderWay, ver : Versions]
        /\ NoFetch.at = "idle"
    BY DEF Nothing, Versions, NotNewer, SyncTypeOK, NoFetch
  <2>3. \A f \in Fetch : fetch'[f].at = "idle"
    BY <2>1, <2>2
  <2>4. SyncTypeOK'
    BY <1>s, <2>1, <2>2 DEF SyncTypeOK
  <2>5. InOrder' /\ Stages' /\ Answers' /\ OneAnswerEach' /\ Covered'
    BY Refreshes, <1>s, <2>1, <2>2, <2>3, ModeAssumption
    DEF InOrder, Stages, Answers, OneAnswerEach, Covered, SetupOver, UnderWay
  <2> QED
    BY <2>4, <2>5
<1> QED
  BY <1>1, <1>2, <1>3, <1>4

LEMMA AskStep == ASSUME SyncInv, NEW f \in Fetch, Ask(f) PROVE SyncInv'
<1> USE DEF SyncInv
<1>1. /\ fetch[f].at = "wanted" /\ (mode = "plugin" => link = "up")
      /\ fetch' = [fetch EXCEPT ![f].at = "asked"]
      /\ UNCHANGED <<mode, hcu, link, chan, connectedBefore, atConnect, newest, setup, cache, gap>>
  BY DEF Ask, At, Moved, hcuVars, loopVars
<1>2. /\ fetch'[f].at = "asked" /\ \A g \in Fetch \ {f} : fetch'[g] = fetch[g]
      /\ "setup" \in Fetch
  BY <1>1 DEF SyncTypeOK, Fetch
<1>3. SyncTypeOK'
  BY <1>1 DEF SyncTypeOK, UnderWay
<1>4. InOrder'
  BY <1>1 DEF InOrder
<1>5. Stages'
  <2>1. fetch'["setup"].at \in UnderWay <=> fetch["setup"].at \in UnderWay
    BY <1>1, <1>2 DEF UnderWay
  <2> QED
    BY <1>1, <1>2, <2>1 DEF Stages, SetupOver, SyncTypeOK
<1>6. Answers'
  BY <1>1, <1>2 DEF Answers, SyncTypeOK
<1>7. OneAnswerEach'
  <2>1. \A g \in Fetch : fetch[g].at = "answered" => fetch'[g].at = "answered"
    BY <1>1, <1>2
  <2>2. \A i \in 1 .. Len(chan) : chan[i].kind = "snapshot" => chan[i].of \in Fetch
    BY DEF SyncTypeOK, Messages
  <2> QED
    BY <1>1, <2>1, <2>2 DEF OneAnswerEach
<1>8. Covered'
  BY <1>2 DEF Covered
<1> QED
  BY <1>3, <1>4, <1>5, <1>6, <1>7, <1>8

LEMMA HcuAnswersStep == ASSUME SyncInv, NEW f \in Fetch, HcuAnswers(f) PROVE SyncInv'
<1> USE DEF SyncInv
<1> DEFINE m == [kind |-> "snapshot", of |-> f, ver |-> hcu]
<1>1. /\ fetch[f].at = "asked"
      /\ fetch' = [fetch EXCEPT ![f] = [at |-> "answered", ver |-> hcu]]
      /\ chan' = IF mode = "plugin" THEN Append(chan, m) ELSE chan
      /\ UNCHANGED <<mode, hcu, link, connectedBefore, atConnect, newest, setup, cache, gap>>
  BY DEF HcuAnswers, At, loopVars
<1>2. /\ fetch'[f] = [at |-> "answered", ver |-> hcu]
      /\ \A g \in Fetch \ {f} : fetch'[g] = fetch[g] /\ "setup" \in Fetch
  BY <1>1 DEF SyncTypeOK, Fetch
<1>3. m \in Messages /\ m.kind = "snapshot" /\ m.of = f /\ m.ver = hcu
  BY DEF Messages, SyncTypeOK
<1> HIDE DEF m
<1>4. fetch' \in [Fetch -> [at : {"idle", "done"} \cup UnderWay, ver : Versions]]
  BY <1>1 DEF SyncTypeOK, UnderWay
<1>5. mode = "plugin" => link = "up"
  BY <1>1 DEF Stages, SyncTypeOK
<1>6. Stages'
  <2>1. fetch'["setup"].at \in UnderWay <=> fetch["setup"].at \in UnderWay
    BY <1>1, <1>2 DEF UnderWay
  <2> QED
    BY <1>1, <1>2, <1>5, <2>1 DEF Stages, SetupOver, SyncTypeOK
<1>7. Answers'
  BY <1>1, <1>2 DEF Answers, InOrder, SyncTypeOK
<1>8. CASE mode = "plugin"
  <2>1. chan' = Append(chan, m) /\ chan \in Seq(Messages)
    BY <1>1, <1>8 DEF SyncTypeOK
  <2>2. /\ chan' \in Seq(Messages) /\ Len(chan') = Len(chan) + 1 /\ Len(chan) \in Nat
        /\ chan'[Len(chan')] = m
        /\ \A i \in 1 .. Len(chan) : chan'[i] = chan[i] /\ i \in 1 .. Len(chan')
        /\ \A i \in 1 .. Len(chan') : i \in 1 .. Len(chan) \/ i = Len(chan')
    BY <1>3, <2>1, AppendMessage
  <2>3. SyncTypeOK'
    BY <1>1, <1>4, <2>2 DEF SyncTypeOK
  <2>4. InOrder'
    <3>1. hcu' \in Versions /\ NotNewer(hcu, hcu')
      BY <1>1 DEF SyncTypeOK, NotNewer, Versions
    <3>2. chan'[Len(chan')].ver = hcu'
      BY <1>1, <1>3, <2>2
    <3> QED
      BY <1>1, <1>5, <1>8, <2>2, <3>1, <3>2, AppendedInOrder
  <2>5. OneAnswerEach'
    <3> SUFFICES ASSUME ~gap PROVE OneAnswerEach'
      BY <1>1 DEF OneAnswerEach
    <3>1. \A i \in 1 .. Len(chan) : chan[i].kind = "snapshot" => chan[i].of \in Fetch \ {f}
      BY <1>1, <1>8 DEF SyncTypeOK, Messages, OneAnswerEach
    <3>2. \A i \in 1 .. Len(chan') :
            chan'[i].kind = "snapshot" => fetch'[chan'[i].of].at = "answered"
      BY <1>2, <1>3, <1>8, <2>2, <3>1 DEF OneAnswerEach
    <3>3. ASSUME NEW i \in 1 .. Len(chan'), NEW j \in 1 .. Len(chan'),
                 chan'[i].kind = "snapshot", chan'[j].kind = "snapshot",
                 chan'[i].of = chan'[j].of
          PROVE  i = j
      BY <1>3, <1>8, <2>2, <3>1, <3>3 DEF OneAnswerEach
    <3> QED
      BY <3>2, <3>3 DEF OneAnswerEach
  <2>6. Covered'
    <3>1. \A d \in SyncDevice : Tells(chan'[Len(chan')], d) /\ chan'[Len(chan')].ver[d] = hcu'[d]
      BY <1>1, <1>3, <2>2 DEF Tells
    <3>2. Len(chan') \in 1 .. Len(chan')
      BY <2>2
    <3> QED
      BY <3>1, <3>2 DEF Covered
  <2> QED
    BY <1>6, <1>7, <2>3, <2>4, <2>5, <2>6
<1>9. CASE mode # "plugin"
  <2>1. chan' = chan
    BY <1>1, <1>9
  <2> QED
    BY <1>1, <1>4, <1>6, <1>7, <1>9, <2>1 DEF SyncTypeOK, InOrder, OneAnswerEach, Covered
<1> QED
  BY <1>8, <1>9

LEMMA ResumeStep == ASSUME SyncInv, NEW f \in Fetch, Resume(f) PROVE SyncInv'
<1> USE DEF SyncInv
<1>1. /\ fetch[f].at = IF mode = "plugin" THEN "read" ELSE "answered"
      /\ cache' = IF mode = "plugin" THEN cache ELSE fetch[f].ver
      /\ fetch' = [fetch EXCEPT ![f].at = "done"]
      /\ setup' = IF f = "setup" THEN "registering" ELSE setup
      /\ UNCHANGED <<mode, hcu, link, chan, connectedBefore, atConnect, newest, gap>>
  BY DEF Resume, At, Moved, AppliedBy, Snapshot, hcuVars, loopVars
<1>2. /\ fetch'[f].at = "done" /\ \A g \in Fetch \ {f} : fetch'[g] = fetch[g]
      /\ "setup" \in Fetch
  BY <1>1 DEF SyncTypeOK, Fetch
<1>3. f = "setup" => setup = "fetching"
  BY <1>1 DEF Stages, UnderWay
<1>4. SyncTypeOK'
  BY <1>1 DEF SyncTypeOK, UnderWay
<1>5. InOrder'
  BY <1>1 DEF InOrder
<1>6. Stages'
  <2>1. newest \in SyncRefresh => f # "setup"
    BY <1>3 DEF Stages, SetupOver
  <2>2. fetch'["setup"].at \in UnderWay <=> setup' = "fetching"
    BY <1>1, <1>2, <1>3 DEF Stages, UnderWay
  <2> QED
    BY <1>1, <1>2, <1>3, <2>1, <2>2 DEF Stages, SetupOver, SyncTypeOK
<1>7. Answers'
  BY <1>1, <1>2 DEF Answers, SyncTypeOK
<1>8. OneAnswerEach'
  <2>1. mode = "plugin" => \A g \in Fetch : fetch[g].at = "answered" => fetch'[g].at = "answered"
    BY <1>1, <1>2
  <2>2. \A i \in 1 .. Len(chan) : chan[i].kind = "snapshot" => chan[i].of \in Fetch
    BY DEF SyncTypeOK, Messages
  <2> QED
    BY <1>1, <2>1, <2>2 DEF OneAnswerEach
<1>9. Covered'
  <2>1. mode = "plugin" => \A g \in Fetch : fetch'[g].at \notin {"wanted", "asked"}
                                           => fetch[g].at \notin {"wanted", "asked"}
    BY <1>1, <1>2
  <2>2. setup' \in {"fetching", "registering", "loaded"} =>
          setup \in {"fetching", "registering", "loaded"}
    BY <1>1, <1>3
  <2> QED
    BY <1>1, <2>1, <2>2 DEF Covered
<1> QED
  BY <1>4, <1>5, <1>6, <1>7, <1>8, <1>9

LEMMA FetchFailsStep == ASSUME SyncInv, NEW f \in Fetch, FetchFails(f) PROVE SyncInv'
<1> USE DEF SyncInv
<1>1. /\ fetch[f].at \in UnderWay
      /\ fetch' = [fetch EXCEPT ![f].at = "done"] /\ gap'
      /\ \/ f = "setup" /\ setup' = "failed" /\ link' = "down" /\ chan' = <<>>
         \/ f # "setup" /\ UNCHANGED <<setup, link, chan>>
      /\ UNCHANGED <<mode, hcu, connectedBefore, atConnect, newest, cache>>
  BY DEF FetchFails, Fetching, At, Moved, UnderWay, loopVars
<1>2. /\ fetch'[f].at = "done" /\ \A g \in Fetch \ {f} : fetch'[g] = fetch[g]
      /\ "setup" \in Fetch
  BY <1>1 DEF SyncTypeOK, Fetch
<1>3. f = "setup" => setup = "fetching"
  BY <1>1 DEF Stages
<1>4. SyncTypeOK'
  <2>1. /\ chan' \in Seq(Messages) /\ link' \in {"down", "up"}
        /\ setup' \in {"starting", "fetching", "registering", "loaded", "failed"}
    <3>1. chan \in Seq(Messages) /\ <<>> \in Seq(Messages)
      BY DEF SyncTypeOK
    <3>2. chan' = <<>> \/ chan' = chan
      BY <1>1
    <3>3. /\ link' \in {"down", "up"}
          /\ setup' \in {"starting", "fetching", "registering", "loaded", "failed"}
      BY <1>1 DEF SyncTypeOK
    <3> QED
      BY <3>1, <3>2, <3>3
  <2>2. fetch' \in [Fetch -> [at : {"idle", "done"} \cup UnderWay, ver : Versions]]
    BY <1>1 DEF SyncTypeOK, UnderWay
  <2> QED
    BY <1>1, <2>1, <2>2 DEF SyncTypeOK
<1>5. InOrder'
  BY <1>1 DEF InOrder
<1>6. OneAnswerEach' /\ Covered'
  BY <1>1 DEF OneAnswerEach, Covered
<1>7. Answers'
  BY <1>1, <1>2 DEF Answers, SyncTypeOK
<1>8. CASE f = "setup"
  <2>1. newest \notin SyncRefresh /\ \A g \in SyncRefresh : fetch[g].at = "idle"
    BY <1>3, <1>8 DEF Stages, SetupOver
  <2>2. \A g \in Fetch : fetch'[g].at \in {"idle", "done"}
    BY <1>2, <1>8, <2>1 DEF Fetch
  <2>3. Stages'
    BY <1>1, <1>2, <1>8, <2>1, <2>2, ModeAssumption DEF Stages, UnderWay, SetupOver, Fetch
  <2> QED
    BY <1>4, <1>5, <1>6, <1>7, <2>3
<1>9. CASE f # "setup"
  <2>1. SetupOver
    BY <1>1, <1>9 DEF Fetch, Stages, UnderWay
  <2>2. Stages'
    BY Refreshes, <1>1, <1>2, <1>9, <2>1 DEF Stages, SetupOver
  <2> QED
    BY <1>4, <1>5, <1>6, <1>7, <2>2
<1> QED
  BY <1>8, <1>9

\* The listener reads a message.
LEMMA HandleMessageStep == ASSUME SyncInv, HandleMessage PROVE SyncInv'
<1> USE DEF SyncInv
<1> DEFINE msg == Head(chan)
<1>1. /\ chan # <<>> /\ chan' = Tail(chan)
      /\ UNCHANGED <<mode, hcu, link, connectedBefore, atConnect, newest, setup, gap>>
      /\ \/ /\ msg.kind = "event" /\ UNCHANGED fetch
            /\ cache' = [cache EXCEPT ![msg.of] = msg.ver[msg.of]]
         \/ /\ msg.kind = "snapshot" /\ fetch[msg.of].at = "answered"
            /\ cache' = IF mode = "plugin" THEN msg.ver ELSE cache
            /\ fetch' = [fetch EXCEPT ![msg.of].at = "read"]
         \/ /\ msg.kind = "snapshot" /\ fetch[msg.of].at # "answered"
            /\ UNCHANGED <<cache, fetch>>
  BY DEF HandleMessage, At, Moved, AppliedBy, loopVars
<1>2. /\ chan' \in Seq(Messages) /\ Len(chan') = Len(chan) - 1 /\ Len(chan) \in Nat
      /\ 1 \in 1 .. Len(chan) /\ msg = chan[1] /\ chan[1] \in Messages
      /\ \A i \in 1 .. Len(chan') : chan'[i] = chan[i + 1] /\ i + 1 \in 1 .. Len(chan)
      /\ \A i \in 1 .. Len(chan) : i = 1 \/ (i - 1 \in 1 .. Len(chan') /\ chan'[i - 1] = chan[i])
  BY <1>1, NextMessage DEF SyncTypeOK
<1>3. /\ msg.ver \in Versions /\ (msg.kind = "event" => msg.of \in SyncDevice)
      /\ (msg.kind = "snapshot" => msg.of \in Fetch) /\ msg.kind \in {"event", "snapshot"}
  BY <1>2 DEF Messages
<1>4. /\ cache' \in Versions
      /\ \A d \in SyncDevice : cache'[d] = cache[d] \/ cache'[d] = msg.ver[d]
  BY <1>1, <1>3 DEF SyncTypeOK, Versions
<1>5. /\ fetch' \in [Fetch -> [at : {"idle", "done"} \cup UnderWay, ver : Versions]]
      /\ \A g \in Fetch : \/ fetch'[g] = fetch[g]
                          \/ /\ msg.kind = "snapshot" /\ msg.of = g
                             /\ fetch[g].at = "answered" /\ fetch'[g].at = "read"
                             /\ mode = "plugin" => cache' = msg.ver
  BY <1>1, <1>3 DEF SyncTypeOK, UnderWay
<1> HIDE DEF msg
<1>6. SyncTypeOK'
  BY <1>1, <1>2, <1>4, <1>5 DEF SyncTypeOK
<1>7. InOrder'
  <2>1. \A i \in 1 .. Len(chan') : chan'[i] = chan[i + 1] /\ i + 1 \in 1 .. Len(chan)
                                   /\ NotNewer(msg.ver, chan'[i].ver)
    BY <1>2 DEF InOrder
  <2>2. \A i, j \in 1 .. Len(chan') : i <= j => NotNewer(chan'[i].ver, chan'[j].ver)
    BY <1>2, <2>1 DEF InOrder
  <2>3. mode = "plugin" => NotNewer(cache', hcu)
    BY <1>2, <1>4 DEF InOrder, NotNewer
  <2>4. ASSUME mode = "plugin", NEW i \in 1 .. Len(chan')
        PROVE  NotNewer(cache', chan'[i].ver)
    <3>1. NotNewer(cache, chan'[i].ver)
      BY <2>1, <2>4 DEF InOrder
    <3> QED
      BY <1>4, <2>1, <3>1 DEF NotNewer
  <2>5. link = "down" => chan' = <<>>
    BY <1>1 DEF InOrder
  <2>6. \A i \in 1 .. Len(chan') :
          NotNewer(atConnect, chan'[i].ver) /\ NotNewer(chan'[i].ver, hcu)
    BY <2>1 DEF InOrder
  <2> QED
    BY <1>1, <2>2, <2>3, <2>4, <2>5, <2>6 DEF InOrder
<1>8. Stages'
  <2>1. /\ fetch'["setup"].at \in UnderWay <=> fetch["setup"].at \in UnderWay
        /\ ~SetupOver => \A f \in SyncRefresh : fetch'[f].at = "idle"
    BY <1>5, Refreshes DEF UnderWay, Stages
  <2>2. link = "up"
    BY <1>1 DEF InOrder, SyncTypeOK
  <2> QED
    BY <1>1, <2>1, <2>2 DEF Stages, SetupOver
<1>9. Answers'
  <2> SUFFICES ASSUME newest \in SyncRefresh
               PROVE  /\ fetch'[newest].at = "answered" => NotNewer(atConnect, fetch'[newest].ver)
                      /\ mode = "plugin" /\ fetch'[newest].at = "read" =>
                           NotNewer(atConnect, cache')
    BY <1>1 DEF Answers
  <2>1. NotNewer(atConnect, msg.ver) /\ newest \in Fetch
    BY <1>2 DEF InOrder, SyncTypeOK
  <2>2. NotNewer(atConnect, cache) => NotNewer(atConnect, cache')
    BY <1>4, <2>1 DEF NotNewer
  <2> QED
    BY <1>5, <2>1, <2>2 DEF Answers
<1>10. OneAnswerEach'
  <2> SUFFICES ASSUME mode = "plugin", ~gap PROVE OneAnswerEach'
    BY <1>1 DEF OneAnswerEach
  <2>1. ASSUME NEW i \in 1 .. Len(chan'), chan'[i].kind = "snapshot"
        PROVE  fetch'[chan'[i].of].at = "answered"
    <3>1. /\ chan'[i] = chan[i + 1] /\ i + 1 \in 1 .. Len(chan) /\ i + 1 # 1
      BY <1>2
    <3>2. fetch[chan'[i].of].at = "answered" /\ chan'[i].of \in Fetch
      BY <2>1, <3>1 DEF OneAnswerEach, SyncTypeOK, Messages
    <3>3. msg.kind = "snapshot" => msg.of # chan'[i].of
      BY <1>2, <2>1, <3>1 DEF OneAnswerEach
    <3> QED
      BY <1>5, <3>2, <3>3
  <2>2. ASSUME NEW i \in 1 .. Len(chan'), NEW j \in 1 .. Len(chan'),
               chan'[i].kind = "snapshot", chan'[j].kind = "snapshot", chan'[i].of = chan'[j].of
        PROVE  i = j
    <3>1. /\ i + 1 \in 1 .. Len(chan) /\ chan'[i] = chan[i + 1]
          /\ j + 1 \in 1 .. Len(chan) /\ chan'[j] = chan[j + 1]
      BY <1>2
    <3>2. i + 1 = j + 1
      BY <2>2, <3>1 DEF OneAnswerEach
    <3> QED
      BY <3>2
  <2> QED
    BY <2>1, <2>2 DEF OneAnswerEach
<1>11. Covered'
  <2> SUFFICES ASSUME mode = "plugin", ~gap, link = "up",
                      setup \in {"fetching", "registering", "loaded"},
                      \A f \in Fetch : fetch'[f].at \notin {"wanted", "asked"},
                      NEW d \in SyncDevice
               PROVE  \/ cache'[d] = hcu[d]
                      \/ \E i \in 1 .. Len(chan') :
                           Tells(chan'[i], d) /\ chan'[i].ver[d] = hcu[d]
    BY <1>1 DEF Covered
  <2>1. \A f \in Fetch : fetch[f].at \notin {"wanted", "asked"}
    BY <1>5
  <2>2. /\ cache[d] <= msg.ver[d] /\ msg.ver[d] <= hcu[d]
        /\ cache[d] \in Nat /\ hcu[d] \in Nat /\ msg.ver[d] \in Nat
    BY <1>2, <1>3 DEF InOrder, NotNewer, SyncTypeOK, Versions
  <2>3. CASE cache[d] = hcu[d]
    BY <1>4, <2>2, <2>3
  <2>4. ASSUME NEW i \in 1 .. Len(chan), Tells(chan[i], d), chan[i].ver[d] = hcu[d]
        PROVE  \/ cache'[d] = hcu[d]
               \/ \E k \in 1 .. Len(chan') : Tells(chan'[k], d) /\ chan'[k].ver[d] = hcu[d]
    <3>1. CASE i = 1
      <4>1. msg.kind = "snapshot" => fetch[msg.of].at = "answered"
        BY <1>2 DEF OneAnswerEach
      <4>2. msg.kind = "snapshot" => cache' = msg.ver
        BY <1>1, <4>1
      <4>3. msg.kind = "event" /\ msg.of = d => cache'[d] = msg.ver[d]
        BY <1>1, <1>3 DEF SyncTypeOK, Versions
      <4>4. cache'[d] = msg.ver[d]
        BY <1>2, <1>3, <2>4, <3>1, <4>2, <4>3 DEF Tells
      <4> QED
        BY <1>2, <2>4, <3>1, <4>4
    <3>2. CASE i # 1
      BY <1>2, <2>4, <3>2
    <3> QED
      BY <3>1, <3>2
  <2> QED
    BY <2>1, <2>3, <2>4 DEF Covered
<1> QED
  BY <1>6, <1>7, <1>8, <1>9, <1>10, <1>11

-----------------------------------------------------------------------------
LEMMA SyncStep == ASSUME SyncInv, [Next]_vars PROVE SyncInv'
<1>1. CASE UNCHANGED vars
  BY <1>1 DEF vars, SyncInv, SyncTypeOK, InOrder, Stages, Answers, OneAnswerEach, Covered, SetupOver
<1>2. CASE Next
  BY <1>2, DeviceChangesStep, ConnectStep, ConnectionLostStep, SetupStep, HandleMessageStep,
     AskStep, HcuAnswersStep, ResumeStep, FetchFailsStep
  DEF Next
<1> QED
  BY <1>1, <1>2

LEMMA SyncInvariant == Spec => []SyncInv
BY InitSync, SyncStep, PTL DEF Spec

\* Only a message or a resumed request changes the cache while the setup goes on.
LEMMA CacheSteps ==
  ASSUME SyncInv, [Next]_vars, setup # "failed"
  PROVE  \/ cache' = cache
         \/ HandleMessage
         \/ \E f \in Fetch : Resume(f)
BY DEF Next, vars, DeviceChanges, Connect, ConnectionLost, ConnectTimeout, StartSetup,
       FinishSetup, SetUpAgain, Ask, HcuAnswers, FetchFails

\* For any number of devices, refreshes and changes, no step brings an older
\* state of a device back into the cache of a Plugin User: its snapshots are
\* applied by the listener, in line with the events (on_success of
\* get_system_state).
THEOREM PluginCacheGoesForward == Spec => PluginCacheNeverGoesBack
<1>1. SyncInv /\ [Next]_vars => [mode = "plugin" => Forward]_vars
  <2> SUFFICES ASSUME SyncInv, [Next]_vars, mode = "plugin", setup # "failed",
                      NEW d \in SyncDevice
               PROVE  cache'[d] >= cache[d]
    BY DEF Forward
  <2>1. cache[d] \in Nat
    BY DEF SyncInv, SyncTypeOK, Versions
  <2>2. CASE HandleMessage
    <3>1. /\ chan # <<>> /\ Head(chan) = chan[1] /\ 1 \in 1 .. Len(chan)
          /\ chan[1].ver \in Versions
      BY <2>2 DEF HandleMessage, SyncInv, SyncTypeOK, Messages
    <3>2. chan[1].ver[d] >= cache[d]
      BY <2>1, <3>1 DEF SyncInv, InOrder, NotNewer, Versions
    <3>3. cache'[d] = cache[d] \/ cache'[d] = chan[1].ver[d]
      BY <2>2, <3>1 DEF HandleMessage, AppliedBy, SyncInv, SyncTypeOK, Versions
    <3> QED
      BY <2>1, <3>2, <3>3
  <2>3. CASE \E f \in Fetch : Resume(f)
    BY <2>1, <2>3 DEF Resume, AppliedBy
  <2> QED
    BY <2>1, <2>2, <2>3, CacheSteps
<1> QED
  BY <1>1, SyncInvariant, PTL DEF Spec, PluginCacheNeverGoesBack

\* For any number of devices, refreshes and changes: with a Plugin User
\* connected, every message read and no fetch under way, the cache holds what the
\* HCU holds (_async_refresh_state_after_reconnect), unless a refresh failed or
\* the connection was lost while the setup registered the HCU device.
THEOREM CacheStaysCurrent == Spec => []StaysCurrent
<1>1. SyncInv => StaysCurrent
  <2> SUFFICES ASSUME SyncInv, mode = "plugin", SetupOver, link = "up", chan = <<>>,
                      Fetching = {}, ~gap
               PROVE  cache = hcu
    BY DEF StaysCurrent
  <2>1. \A f \in Fetch : fetch[f].at \notin {"wanted", "asked"}
    BY DEF Fetching
  <2>2. \A d \in SyncDevice : cache[d] = hcu[d]
    BY <2>1 DEF SyncInv, Covered, SetupOver
  <2> QED
    BY <2>2 DEF SyncInv, SyncTypeOK, Versions
<1> QED
  BY <1>1, SyncInvariant, PTL

\* For any number of devices, refreshes and changes: when the latest refresh ends
\* well, no device is older in the cache than it was on the HCU when the
\* connection came back (_async_refresh_state_after_reconnect).
THEOREM RefreshCovers == Spec => RefreshCoversTheOutage
<1> DEFINE Ends(f) == f = newest /\ ~At(f, "done") /\ fetch'[f].at = "done" /\ ~gap'
           Covers == \A f \in SyncRefresh :
                       Ends(f) => \A d \in SyncDevice : cache'[d] >= atConnect[d]
<1>1. SyncInv /\ [Next]_vars => [Covers]_vars
  <2> SUFFICES ASSUME SyncInv, Next, NEW f \in SyncRefresh, Ends(f), NEW d \in SyncDevice
               PROVE  cache'[d] >= atConnect[d]
    OBVIOUS
  <2>1. f \in Fetch /\ f # "setup" /\ fetch[f].at # "done"
    BY Refreshes DEF At
  <2>2. Resume(f)
    <3>1. ASSUME NEW g \in Fetch, Ask(g) \/ HcuAnswers(g) \/ FetchFails(g) PROVE FALSE
      BY <2>1, <3>1 DEF Ask, HcuAnswers, FetchFails, Moved, SyncInv, SyncTypeOK
    <3>2. ASSUME NEW g \in Fetch, Resume(g) PROVE g = f
      BY <2>1, <3>2 DEF Resume, Moved, SyncInv, SyncTypeOK
    <3>3. CASE DeviceChanges \/ ConnectTimeout \/ FinishSetup
      BY <2>1, <3>3 DEF DeviceChanges, ConnectTimeout, FinishSetup
    <3>4. CASE Connect \/ StartSetup \/ HandleMessage
      BY <2>1, <3>4 DEF Connect, StartSetup, HandleMessage, Moved, SyncInv, SyncTypeOK
    <3>5. CASE ConnectionLost \/ SetUpAgain
      BY <2>1, <3>5 DEF ConnectionLost, SetUpAgain, NoFetch
    <3> QED
      BY <3>1, <3>2, <3>3, <3>4, <3>5 DEF Next
  <2>3. NotNewer(atConnect, cache')
    BY <2>1, <2>2 DEF Resume, At, AppliedBy, Snapshot, SyncInv, Answers
  <2> QED
    BY <2>3 DEF NotNewer, SyncInv, SyncTypeOK, Versions
<1> QED
  BY <1>1, SyncInvariant, PTL DEF Spec, RefreshCoversTheOutage

-----------------------------------------------------------------------------
(* The entities *)

\* Without the last part a platform could be there before the first discovery,
\* which hands over nothing, and a refresh could look at an unloaded entry.
InclusionInv ==
  /\ InclusionTypeOK
  /\ AddedOnce
  /\ ~Loaded => entities = {} /\ registered = {}
  /\ \A r \in Refresh : refresh[r].at \in {"asked", "applied"} => Loaded

\* However often the same ids come, only what has no entity yet is handed over,
\* and only to a platform that will not take it by itself any more.
LEMMA Inclusion ==
  ASSUME InclusionInv, Loaded, NEW ids \in SUBSET Item, NEW kn \in SUBSET Item,
         HandleInclusions(ids, kn), UNCHANGED <<stage, registered>>
  PROVE  /\ entities' \subseteq Item /\ pending' \subseteq Group
         /\ added' \in [Item -> Nat]
         /\ AddedOnce'
<1> DEFINE looked == ToDiscover(ids, kn)
           held == HeldBack(looked, kn)
           fresh == ((looked \ held) \cap kn) \ entities
<1>1. /\ pending' = (pending \cup held) \ (looked \ held)
      /\ entities' = entities \cup fresh
      /\ added' = [x \in Item |-> IF x \in fresh /\ PlatformOf[x] \in registered
                                    THEN added[x] + 1 ELSE added[x]]
  BY DEF HandleInclusions
<1>2. fresh \subseteq Item /\ fresh \cap entities = {} /\ held \subseteq Group
  BY DEF HeldBack
<1>3. added' \in [Item -> Nat]
  BY <1>1 DEF InclusionInv, InclusionTypeOK
<1>4. ASSUME NEW x \in Item
      PROVE  added'[x] = IF x \in entities' /\ PlatformOf[x] \in registered THEN 1 ELSE 0
  <2> HIDE DEF fresh
  <2>1. added[x] = IF x \in entities /\ PlatformOf[x] \in registered THEN 1 ELSE 0
    BY <1>4 DEF InclusionInv, AddedOnce
  <2> QED
    BY <1>1, <1>2, <1>4, <2>1
<1>5. entities' \subseteq Item /\ pending' \subseteq Group
  <2> HIDE DEF fresh, held, looked
  <2> QED
    BY <1>1, <1>2 DEF InclusionInv, InclusionTypeOK
<1> QED
  BY <1>3, <1>4, <1>5 DEF AddedOnce

\* A step that leaves the entities and the platforms alone.
LEMMA Elsewhere ==
  ASSUME InclusionInv, UNCHANGED <<discovery, registered>>
  PROVE  /\ entities' \subseteq Item /\ pending' \subseteq Group
         /\ registered' \subseteq Platform /\ added' \in [Item -> Nat]
         /\ AddedOnce'
BY DEF InclusionInv, InclusionTypeOK, discovery, AddedOnce

LEMMA HandleEventStep ==
  ASSUME InclusionInv, NEW items \in SUBSET Item, NEW again \in SUBSET Item,
         HandleEvent(items, again), exists' \subseteq Item,
         UNCHANGED <<stage, registered, refresh>>
  PROVE  InclusionInv'
<1>1. known' \subseteq Item
  BY DEF HandleEvent, InclusionInv, InclusionTypeOK
<1>2. /\ entities' \subseteq Item /\ pending' \subseteq Group
      /\ added' \in [Item -> Nat] /\ AddedOnce'
  <2>1. CASE connected /\ stage # "unloaded" /\ Loaded
    <3>1. HandleInclusions((items \ known) \cup again, known')
      BY <2>1 DEF HandleEvent
    <3> QED
      BY <1>1, <2>1, <3>1, Inclusion
  <2>2. CASE ~(connected /\ stage # "unloaded" /\ Loaded)
    <3>1. UNCHANGED discovery
      BY <2>2 DEF HandleEvent, discovery
    <3> QED
      BY <3>1, Elsewhere
  <2> QED
    BY <2>1, <2>2
<1>3. ~Loaded' => entities' = {} /\ registered' = {}
  BY DEF HandleEvent, InclusionInv, Loaded, discovery
<1> QED
  BY <1>1, <1>2, <1>3 DEF InclusionInv, InclusionTypeOK, Loaded

LEMMA InclusionStep ==
  ASSUME InclusionInv, [InclusionNext]_inclusionVars PROVE InclusionInv'
<1> USE InclusionAssumption
<1>1. CASE HcuAdds
  <2>1. PICK items \in SUBSET (Item \ exists) \ {{}} :
          exists' = exists \cup items /\ HandleEvent(items, {})
    BY <1>1 DEF HcuAdds
  <2>2. UNCHANGED <<stage, registered, refresh>> /\ exists' \subseteq Item
    BY <1>1, <2>1 DEF HcuAdds, InclusionInv, InclusionTypeOK
  <2> QED
    BY <2>1, <2>2, HandleEventStep
<1>2. CASE HcuChanges
  <2>1. PICK d \in exists \cap Device, again \in BOOLEAN :
          HandleEvent({d}, IF again /\ d \in known THEN {d} ELSE {})
    BY <1>2 DEF HcuChanges
  <2>2. UNCHANGED <<stage, registered, refresh>> /\ exists' \subseteq Item
    BY <1>2 DEF HcuChanges, hcuSide, InclusionInv, InclusionTypeOK
  <2>3. {d} \subseteq Item /\ (IF again /\ d \in known THEN {d} ELSE {}) \in SUBSET Item
    BY <2>1 DEF Item
  <2> QED
    BY <2>1, <2>2, <2>3, HandleEventStep
<1>3. CASE HcuRemoves \/ Disconnect \/ UpdateData
  <2>1. UNCHANGED <<discovery, registered>> /\ stage' = stage /\ refresh' = refresh
    BY <1>3 DEF HcuRemoves, Disconnect, UpdateData
  <2>2. known' \subseteq Item /\ exists' \subseteq Item
    BY <1>3 DEF HcuRemoves, Disconnect, UpdateData, hcuSide, InclusionInv, InclusionTypeOK
  <2> QED
    BY <2>1, <2>2, Elsewhere DEF InclusionInv, InclusionTypeOK, Loaded, discovery
<1>4. CASE Reconnect \/ (\E r \in Refresh : RefreshApplies(r) \/ RefreshFails(r))
  <2>1. UNCHANGED <<discovery, registered, stage>>
    BY <1>4 DEF Reconnect, RefreshApplies, RefreshFails
  <2>2. known' \subseteq Item /\ exists' \subseteq Item
    BY <1>4 DEF Reconnect, RefreshApplies, RefreshFails, hcuSide, InclusionInv, InclusionTypeOK
  <2>3. /\ refresh' \in [Refresh -> [at : {"idle", "asked", "applied", "done"}, old : SUBSET Item]]
        /\ \A r \in Refresh : refresh'[r].at \in {"asked", "applied"} => Loaded
    BY <1>4 DEF Reconnect, RefreshApplies, RefreshFails, InclusionInv, InclusionTypeOK
  <2> QED
    BY <2>1, <2>2, <2>3, Elsewhere DEF InclusionInv, InclusionTypeOK, Loaded, discovery
<1>5. ASSUME NEW r \in Refresh, RefreshEnds(r) PROVE InclusionInv'
  <2>1. Loaded /\ known \subseteq Item /\ (known \ refresh[r].old) \in SUBSET Item
    BY <1>5 DEF RefreshEnds, InclusionInv, InclusionTypeOK
  <2>2. HandleInclusions(known \ refresh[r].old, known) /\ UNCHANGED <<stage, registered>>
    BY <1>5 DEF RefreshEnds
  <2>3. /\ entities' \subseteq Item /\ pending' \subseteq Group
        /\ added' \in [Item -> Nat] /\ AddedOnce'
    BY <2>1, <2>2, Inclusion
  <2>4. /\ refresh' \in [Refresh -> [at : {"idle", "asked", "applied", "done"}, old : SUBSET Item]]
        /\ known' = known /\ exists' = exists
    BY <1>5 DEF RefreshEnds, hcuSide, InclusionInv, InclusionTypeOK
  <2> QED
    BY <2>1, <2>2, <2>3, <2>4 DEF InclusionInv, InclusionTypeOK, Loaded
<1>6. CASE LoadState \/ DiscoverAll
  <2>1. UNCHANGED <<registered, added, refresh, exists, pending>> /\ ~Loaded
    BY <1>6 DEF LoadState, DiscoverAll, discovery, hcuSide, Loaded
  <2>2. known' \subseteq Item /\ entities' \subseteq Item /\ registered = {}
    BY <1>6, <2>1 DEF LoadState, DiscoverAll, discovery, InclusionInv, InclusionTypeOK
  <2>3. \A x \in Item : added[x] = 0
    BY <2>1, <2>2 DEF InclusionInv, AddedOnce
  <2>4. ~Loaded' => entities' = {}
    BY <1>6, <2>1 DEF LoadState, DiscoverAll, Loaded, discovery, InclusionInv
  <2> QED
    BY <2>1, <2>2, <2>3, <2>4 DEF InclusionInv, InclusionTypeOK, AddedOnce
<1>7. ASSUME NEW p \in Platform, SetUpPlatform(p) PROVE InclusionInv'
  <2>1. /\ Loaded /\ p \notin registered
        /\ registered' = registered \cup {p}
        /\ UNCHANGED <<hcuSide, stage, known, entities, pending, refresh>>
        /\ added' = [x \in Item |-> IF x \in entities /\ PlatformOf[x] = p
                                      THEN added[x] + 1 ELSE added[x]]
    BY <1>7 DEF SetUpPlatform
  <2>2. added' \in [Item -> Nat]
    BY <2>1 DEF InclusionInv, InclusionTypeOK
  <2>3. AddedOnce'
    BY <2>1 DEF InclusionInv, InclusionTypeOK, AddedOnce
  <2> QED
    BY <2>1, <2>2, <2>3 DEF InclusionInv, InclusionTypeOK, Loaded, hcuSide
<1>8. CASE Unload
  <2>1. /\ added' = Nowhere /\ entities' = {} /\ registered' = {} /\ known' = {}
        /\ pending' = {} /\ exists' = exists
        /\ refresh' = [r \in Refresh |-> IF refresh[r].at = "idle" THEN NoRefresh
                                           ELSE [at |-> "done", old |-> {}]]
    BY <1>8 DEF Unload, hcuSide
  <2>2. refresh' \in [Refresh -> [at : {"idle", "asked", "applied", "done"}, old : SUBSET Item]]
    BY <2>1 DEF NoRefresh
  <2>3. \A r \in Refresh : refresh'[r].at \notin {"asked", "applied"}
    BY <2>1 DEF NoRefresh
  <2> QED
    BY <2>1, <2>2, <2>3 DEF InclusionInv, InclusionTypeOK, AddedOnce, Nowhere
<1>9. CASE UNCHANGED inclusionVars
  BY <1>9 DEF inclusionVars, hcuSide, discovery, InclusionInv, InclusionTypeOK, AddedOnce, Loaded
<1> QED
  BY <1>1, <1>2, <1>3, <1>4, <1>5, <1>6, <1>7, <1>8, <1>9 DEF InclusionNext

LEMMA InclusionInvariant == InclusionSpec => []InclusionInv
<1>1. InclusionInit => InclusionInv
  BY DEF InclusionInit, InclusionInv, InclusionTypeOK, AddedOnce, Nowhere, NoRefresh, Loaded
<1> QED
  BY <1>1, InclusionStep, PTL DEF InclusionSpec

\* For any number of devices, groups, platforms, refreshes and changes: every
\* entity goes to its platform exactly once, whether it was found before, while
\* or after the platforms were set up (_handle_dynamic_inclusions,
\* async_setup_entry of the platforms).
THEOREM EntitiesAddedOnce == InclusionSpec => []AddedOnce
<1>1. InclusionInv => AddedOnce
  BY DEF InclusionInv
<1> QED
  BY <1>1, InclusionInvariant, PTL

\* For any number of devices and refreshes: the connection, the cache and the
\* fetches of the coordinator and the client stay well typed.
THEOREM SyncTypes == Spec => []SyncTypeOK
<1>1. SyncInv => SyncTypeOK
  BY DEF SyncInv
<1> QED
  BY <1>1, SyncInvariant, PTL

\* For any number of devices and groups: the bookkeeping of their discovery stays
\* well typed, and only groups are held back.
THEOREM InclusionTypes == InclusionSpec => []InclusionTypeOK
<1>1. InclusionInv => InclusionTypeOK
  BY DEF InclusionInv
<1> QED
  BY <1>1, InclusionInvariant, PTL

-----------------------------------------------------------------------------
(* Nothing is forgotten *)

Runs(r) == refresh[r].at \in {"asked", "applied"}

\* The refresh r will look at x, if x is in the client's state when it ends; if
\* it fails, x counts as unnoticed.
Brings(r, x) ==
  /\ Runs(r) /\ x \notin refresh[r].old
  /\ refresh[r].at = "applied" \/ (\E q \in Refresh \ {r} : refresh[q].at # "idle")

\* A group held back is tried again, when a member is still to come.
Waits(x) ==
  /\ x \in Group /\ x \in pending
  /\ \/ HasUnknownMembers(x, known)
     \/ \E d \in MembersOf[x], r \in Refresh : Brings(r, d)

Settled(x) ==
  \/ x \in entities
  \/ \E r \in Refresh : Brings(r, x)
  \/ x \in Group /\ MembersOf[x] \cap unnoticed # {}
  \/ Waits(x)

\* Whatever the client knows has its entity, or somebody will look at it.
AllSettled == Loaded => \A x \in known \ unnoticed : Settled(x)

\* What the client missed while it was not connected is new to a refresh that is
\* still to be applied; only when that failed is none under way.
MissedIsAsked ==
  Loaded /\ connected =>
    \/ \A r \in Refresh : ~Runs(r)
    \/ \A x \in (exists \ known) \ unnoticed :
         \E r \in Refresh : refresh[r].at = "asked" /\ x \notin refresh[r].old

SettledInv == InclusionInv /\ AllSettled /\ MissedIsAsked

\* What HandleInclusions looks at gets its entity or is held back, and nothing
\* held back is lost.
LEMMA LookedAt ==
  ASSUME NEW ids \in SUBSET Item, NEW kn \in SUBSET Item, HandleInclusions(ids, kn),
         NEW x \in kn
  PROVE  /\ x \in entities => x \in entities'
         /\ x \in pending => x \in entities' \/ x \in pending'
         /\ x \in ToDiscover(ids, kn) =>
              x \in entities' \/ (x \in Group /\ x \in pending' /\ HasUnknownMembers(x, kn))
<1> DEFINE looked == ToDiscover(ids, kn)
           held == HeldBack(looked, kn)
<1>1. /\ pending' = (pending \cup held) \ (looked \ held)
      /\ entities' = entities \cup (((looked \ held) \cap kn) \ entities)
  BY DEF HandleInclusions
<1>2. x \in held => x \in Group /\ HasUnknownMembers(x, kn)
  BY DEF HeldBack
<1> HIDE DEF looked, held
<1>3. x \in looked => x \in entities' \/ (x \in Group /\ x \in pending' /\ HasUnknownMembers(x, kn))
  BY <1>1, <1>2
<1>4. x \in pending => x \in entities' \/ x \in pending'
  BY <1>1
<1> QED
  BY <1>1, <1>3, <1>4 DEF looked

\* A step that starts no refresh and loses none keeps what they bring.
LEMMA BringsKept ==
  ASSUME refresh' = refresh, NEW r, NEW x
  PROVE  Brings(r, x)' <=> Brings(r, x)
BY DEF Brings, Runs

LEMMA EventSettles ==
  ASSUME SettledInv, NEW items \in SUBSET Item, NEW again \in SUBSET Item,
         HandleEvent(items, again), exists' \subseteq exists \cup items,
         UNCHANGED <<connected, stage, refresh, unnoticed>>
  PROVE  AllSettled' /\ MissedIsAsked'
<1> USE InclusionAssumption
<1>1. MissedIsAsked'
  <2> SUFFICES ASSUME Loaded, connected PROVE MissedIsAsked'
    BY DEF MissedIsAsked, Loaded
  <2>1. known' = known \cup items
    BY DEF HandleEvent, Loaded
  <2>2. exists' \ known' \subseteq exists \ known
    BY <2>1
  <2> QED
    BY <2>2 DEF MissedIsAsked, SettledInv, Runs
<1>2. ASSUME Loaded, NEW x \in known' \ unnoticed PROVE Settled(x)'
  <2>1. CASE ~connected
    <3>1. known' = known /\ UNCHANGED <<entities, pending>>
      BY <1>2, <2>1 DEF HandleEvent, discovery
    <3> QED
      BY <1>2, <3>1 DEF SettledInv, AllSettled, Settled, Waits, Brings, Runs
  <2>2. CASE connected
    <3> DEFINE included == (items \ known) \cup again
    <3>1. known' = known \cup items /\ HandleInclusions(included, known')
      BY <1>2, <2>2 DEF HandleEvent, Loaded
    <3>2. known' \in SUBSET Item /\ included \in SUBSET Item
      BY <3>1 DEF SettledInv, InclusionInv, InclusionTypeOK
    <3>3. /\ x \in entities => x \in entities'
          /\ x \in pending => x \in entities' \/ x \in pending'
          /\ x \in ToDiscover(included, known') =>
               \/ x \in entities'
               \/ x \in Group /\ x \in pending' /\ HasUnknownMembers(x, known')
      <4> HIDE DEF included
      <4> QED
        BY <1>2, <3>1, <3>2, LookedAt
    <3>4. CASE x \in items \ known
      <4>1. x \in ToDiscover(included, known')
        BY <3>4 DEF ToDiscover
      <4> QED
        BY <3>3, <4>1 DEF Settled, Waits
    <3>5. CASE x \in known
      <4>1. Settled(x)
        BY <1>2, <3>5 DEF SettledInv, AllSettled
      <4>2. CASE x \in entities \/ (x \in Group /\ MembersOf[x] \cap unnoticed # {})
        BY <3>3, <4>2 DEF Settled
      <4>3. CASE \E r \in Refresh : Brings(r, x)
        BY <4>3, BringsKept DEF Settled
      <4>4. CASE Waits(x)
        <5>1. x \in Group /\ x \in pending /\ (x \in entities' \/ x \in pending')
          BY <3>3, <4>4 DEF Waits
        <5>2. CASE \E d \in MembersOf[x], r \in Refresh : Brings(r, d)
          BY <5>1, <5>2, BringsKept DEF Settled, Waits
        <5>3. CASE HasUnknownMembers(x, known)
          <6>1. CASE HasUnknownMembers(x, known')
            BY <5>1, <6>1 DEF Settled, Waits
          <6>2. CASE ~HasUnknownMembers(x, known')
            <7>1. PICK d \in MembersOf[x] : d \notin known /\ d \in known'
              BY <5>3, <6>2 DEF HasUnknownMembers
            <7>2. d \in included /\ d \in Device
              BY <3>1, <5>1, <7>1
            <7>3. x \in ToDiscover(included, known')
              BY <5>1, <7>1, <7>2 DEF ToDiscover
            <7> QED
              BY <3>3, <6>2, <7>3 DEF Settled
          <6> QED
            BY <6>1, <6>2
        <5> QED
          BY <4>4, <5>2, <5>3 DEF Waits
      <4> QED
        BY <4>1, <4>2, <4>3, <4>4 DEF Settled
    <3> QED
      BY <1>2, <3>1, <3>4, <3>5
  <2> QED
    BY <2>1, <2>2
<1> QED
  BY <1>1, <1>2 DEF AllSettled, Loaded

LEMMA RemovesSettles ==
  ASSUME SettledInv, HcuRemoves PROVE AllSettled' /\ MissedIsAsked'
<1>1. UNCHANGED <<connected, stage, entities, pending, refresh, unnoticed>>
  BY DEF HcuRemoves, discovery
<1>2. PICK x \in exists :
        /\ exists' = exists \ {x}
        /\ IF connected /\ stage # "unloaded" THEN known' = known \ {x} ELSE known' = known
  BY DEF HcuRemoves
<1>3. ASSUME Loaded, NEW y \in known' \ unnoticed PROVE Settled(y)'
  <2>1. y \in known /\ Settled(y)
    BY <1>2, <1>3 DEF SettledInv, AllSettled
  <2>2. HasUnknownMembers(y, known) => HasUnknownMembers(y, known')
    BY <1>2 DEF HasUnknownMembers
  <2>3. Waits(y) => Waits(y)'
    BY <1>1, <2>2, BringsKept DEF Waits
  <2> QED
    BY <1>1, <2>1, <2>3, BringsKept DEF Settled
<1>4. MissedIsAsked'
  <2>1. connected => exists' \ known' \subseteq exists \ known \/ ~Loaded
    BY <1>2 DEF Loaded
  <2> QED
    BY <1>1, <2>1 DEF SettledInv, MissedIsAsked, Runs, Loaded
<1> QED
  BY <1>1, <1>3, <1>4 DEF AllSettled, Loaded

LEMMA ReconnectSettles ==
  ASSUME SettledInv, Reconnect PROVE AllSettled' /\ MissedIsAsked'
<1>1. UNCHANGED <<exists, stage, known, entities, pending, unnoticed>>
  BY DEF Reconnect, discovery
<1>2. CASE ~Loaded
  BY <1>1, <1>2 DEF AllSettled, MissedIsAsked, Loaded
<1>3. CASE Loaded
  <2>1. PICK r \in Refresh :
          /\ refresh[r].at = "idle"
          /\ refresh' = [refresh EXCEPT ![r] = [at |-> "asked", old |-> known]]
    BY <1>3 DEF Reconnect
  <2>2. /\ refresh'[r] = [at |-> "asked", old |-> known]
        /\ \A q \in Refresh : q # r => refresh'[q] = refresh[q]
    BY <2>1 DEF SettledInv, InclusionInv, InclusionTypeOK
  <2>3. ASSUME NEW q \in Refresh, NEW x, Brings(q, x) PROVE Brings(q, x)'
    BY <2>1, <2>2, <2>3 DEF Brings, Runs
  <2>4. AllSettled'
    BY <1>1, <2>3 DEF AllSettled, SettledInv, Settled, Waits, Loaded
  <2>5. MissedIsAsked'
    BY <1>1, <2>2 DEF MissedIsAsked
  <2> QED
    BY <2>4, <2>5
<1> QED
  BY <1>2, <1>3

LEMMA AppliesSettles ==
  ASSUME SettledInv, NEW r \in Refresh, RefreshApplies(r)
  PROVE  AllSettled' /\ MissedIsAsked'
<1>1. /\ refresh[r].at = "asked" /\ connected /\ known' = exists /\ exists' = exists
      /\ refresh' = [refresh EXCEPT ![r].at = "applied"]
      /\ UNCHANGED <<stage, entities, pending, unnoticed>>
  BY DEF RefreshApplies, hcuSide, discovery
<1>2. Loaded /\ Loaded'
  BY <1>1 DEF SettledInv, InclusionInv, Loaded
<1>3. /\ refresh'[r].at = "applied" /\ refresh'[r].old = refresh[r].old
      /\ \A q \in Refresh : q # r => refresh'[q] = refresh[q]
  BY <1>1 DEF SettledInv, InclusionInv, InclusionTypeOK
<1>4. ASSUME NEW q \in Refresh, NEW x, Brings(q, x) PROVE Brings(q, x)'
  <2>1. CASE q = r
    BY <1>3, <1>4, <2>1 DEF Brings, Runs
  <2>2. CASE q # r
    BY <1>3, <1>4, <2>2 DEF Brings, Runs
  <2> QED
    BY <2>1, <2>2
<1>5. ASSUME NEW x \in (exists \ known) \ unnoticed PROVE \E q \in Refresh : Brings(q, x)'
  <2>1. PICK q \in Refresh : refresh[q].at = "asked" /\ x \notin refresh[q].old
    BY <1>1, <1>2, <1>5 DEF SettledInv, MissedIsAsked, Runs
  <2>2. CASE q = r
    BY <1>3, <2>1, <2>2 DEF Brings, Runs
  <2>3. CASE q # r
    BY <1>3, <2>1, <2>3 DEF Brings, Runs
  <2> QED
    BY <2>2, <2>3
<1>6. ASSUME NEW x \in exists \ unnoticed PROVE Settled(x)'
  <2>1. CASE x \notin known
    BY <1>5, <1>6, <2>1 DEF Settled
  <2>2. CASE x \in known
    <3>1. Settled(x)
      BY <1>2, <1>6, <2>2 DEF SettledInv, AllSettled
    <3>2. CASE Waits(x)
      <4>1. x \in Group /\ x \in pending
        BY <3>2 DEF Waits
      <4>2. CASE \E d \in MembersOf[x], q \in Refresh : Brings(q, d)
        BY <1>1, <1>4, <4>1, <4>2 DEF Settled, Waits
      <4>3. CASE HasUnknownMembers(x, known)
        <5>1. PICK d \in MembersOf[x] : d \notin known
          BY <4>3 DEF HasUnknownMembers
        <5>2. CASE d \notin exists
          BY <1>1, <4>1, <5>1, <5>2 DEF Settled, Waits, HasUnknownMembers
        <5>3. CASE d \in unnoticed
          BY <1>1, <4>1, <5>1, <5>3 DEF Settled
        <5>4. CASE d \in (exists \ known) \ unnoticed
          BY <1>1, <1>5, <4>1, <5>1, <5>4 DEF Settled, Waits
        <5> QED
          BY <5>1, <5>2, <5>3, <5>4
      <4> QED
        BY <3>2, <4>2, <4>3 DEF Waits
    <3> QED
      BY <1>1, <1>4, <3>1, <3>2 DEF Settled
  <2> QED
    BY <2>1, <2>2
<1> QED
  BY <1>1, <1>6 DEF AllSettled, MissedIsAsked

LEMMA EndsSettles ==
  ASSUME SettledInv, NEW r \in Refresh, RefreshEnds(r)
  PROVE  AllSettled' /\ MissedIsAsked'
<1> USE InclusionAssumption
<1> DEFINE new == known \ refresh[r].old
<1>1. /\ refresh[r].at = "applied" /\ HandleInclusions(new, known)
      /\ refresh' = [refresh EXCEPT ![r].at = "done"]
      /\ UNCHANGED <<exists, connected, stage, known, unnoticed>>
  BY DEF RefreshEnds, hcuSide
<1>2. Loaded
  BY <1>1 DEF SettledInv, InclusionInv
<1>3. /\ refresh'[r].at = "done"
      /\ \A q \in Refresh : q # r => refresh'[q] = refresh[q]
  BY <1>1 DEF SettledInv, InclusionInv, InclusionTypeOK
<1>4. ASSUME NEW q \in Refresh, NEW x, Brings(q, x), q # r PROVE Brings(q, x)'
  BY <1>3, <1>4 DEF Brings, Runs
<1>5. MissedIsAsked'
  <2>1. \A q \in Refresh : refresh[q].at = "asked" => refresh'[q] = refresh[q]
    BY <1>1, <1>3
  <2> QED
    BY <1>1, <1>2, <2>1 DEF SettledInv, MissedIsAsked, Runs
<1>6. ASSUME NEW x \in known \ unnoticed PROVE Settled(x)'
  <2>1. known \in SUBSET Item /\ new \in SUBSET Item
    BY DEF SettledInv, InclusionInv, InclusionTypeOK
  <2>2. /\ x \in entities => x \in entities'
        /\ x \in pending => x \in entities' \/ x \in pending'
        /\ x \in ToDiscover(new, known) =>
             \/ x \in entities'
             \/ x \in Group /\ x \in pending' /\ HasUnknownMembers(x, known)
    <3> HIDE DEF new
    <3> QED
      BY <1>1, <1>6, <2>1, LookedAt
  <2>3. x \in ToDiscover(new, known) => Settled(x)'
    BY <1>1, <2>2 DEF Settled, Waits
  <2>4. Settled(x)
    BY <1>2, <1>6 DEF SettledInv, AllSettled
  <2>5. CASE x \in entities \/ (x \in Group /\ MembersOf[x] \cap unnoticed # {})
    BY <1>1, <2>2, <2>5 DEF Settled
  <2>6. ASSUME NEW q \in Refresh, Brings(q, x) PROVE Settled(x)'
    <3>1. CASE q = r
      BY <1>6, <2>3, <2>6, <3>1 DEF ToDiscover, Brings
    <3>2. CASE q # r
      BY <1>4, <2>6, <3>2 DEF Settled
    <3> QED
      BY <3>1, <3>2
  <2>7. CASE Waits(x)
    <3>1. x \in Group /\ x \in pending /\ (x \in entities' \/ x \in pending')
      BY <2>2, <2>7 DEF Waits
    <3>2. CASE HasUnknownMembers(x, known)
      BY <1>1, <3>1, <3>2 DEF Settled, Waits
    <3>3. ASSUME NEW d \in MembersOf[x], NEW q \in Refresh, Brings(q, d),
                 ~HasUnknownMembers(x, known)
          PROVE  Settled(x)'
      <4>1. CASE q = r
        <5>1. d \in new /\ d \in Device /\ d \in known
          BY <3>1, <3>3, <4>1 DEF Brings, HasUnknownMembers
        <5>2. x \in ToDiscover(new, known)
          BY <3>1, <5>1 DEF ToDiscover
        <5> QED
          BY <2>3, <5>2
      <4>2. CASE q # r
        BY <1>4, <3>1, <3>3, <4>2 DEF Settled, Waits
      <4> QED
        BY <4>1, <4>2
    <3> QED
      BY <2>7, <3>2, <3>3 DEF Waits
  <2> QED
    BY <2>4, <2>5, <2>6, <2>7 DEF Settled
<1> QED
  BY <1>1, <1>5, <1>6 DEF AllSettled

LEMMA FailsSettles ==
  ASSUME SettledInv, NEW r \in Refresh, RefreshFails(r)
  PROVE  AllSettled' /\ MissedIsAsked'
<1> USE InclusionAssumption
<1>1. /\ refresh[r].at = "asked"
      /\ refresh' = [refresh EXCEPT ![r].at = "done"]
      /\ unnoticed' = unnoticed \cup IF \E q \in Refresh \ {r} : refresh[q].at # "idle"
                                       THEN Item \ refresh[r].old ELSE {}
      /\ UNCHANGED <<exists, connected, stage, known, entities, pending>>
  BY DEF RefreshFails, hcuSide, discovery
<1>2. Loaded /\ exists \subseteq Item /\ known \subseteq Item
  BY <1>1 DEF SettledInv, InclusionInv, InclusionTypeOK
<1>3. /\ refresh'[r].at = "done"
      /\ \A q \in Refresh : q # r => refresh'[q] = refresh[q]
  BY <1>1 DEF SettledInv, InclusionInv, InclusionTypeOK
<1>4. ASSUME NEW q \in Refresh, NEW x \in Item \ unnoticed', Brings(q, x) PROVE Brings(q, x)'
  <2>1. CASE q = r
    BY <1>1, <1>4, <2>1 DEF Brings
  <2>2. CASE q # r
    BY <1>3, <1>4, <2>2 DEF Brings, Runs
  <2> QED
    BY <2>1, <2>2
<1>5. ASSUME NEW x \in known \ unnoticed' PROVE Settled(x)'
  <2>1. x \in Item /\ x \in known \ unnoticed /\ Settled(x)
    BY <1>1, <1>2, <1>5 DEF SettledInv, AllSettled
  <2>2. ASSUME Waits(x), MembersOf[x] \cap unnoticed' = {} PROVE Waits(x)'
    <3>1. \A d \in MembersOf[x] : d \in Item \ unnoticed'
      BY <2>2 DEF Waits, Item
    <3> QED
      BY <1>1, <1>4, <2>2, <3>1 DEF Waits
  <2> QED
    BY <1>1, <1>4, <1>5, <2>1, <2>2 DEF Settled, Waits
<1>6. MissedIsAsked'
  <2>1. CASE \A q \in Refresh \ {r} : refresh[q].at = "idle"
    <3>1. \A q \in Refresh : ~Runs(q)'
      BY <1>3, <2>1 DEF Runs
    <3> QED
      BY <3>1 DEF MissedIsAsked
  <2>2. CASE ~(\A q \in Refresh \ {r} : refresh[q].at = "idle")
    <3>1. unnoticed' = unnoticed \cup (Item \ refresh[r].old)
      BY <1>1, <2>2
    <3>2. ASSUME connected, NEW x \in (exists \ known) \ unnoticed'
          PROVE  \E q \in Refresh : refresh'[q].at = "asked" /\ x \notin refresh'[q].old
      <4>1. PICK q \in Refresh : refresh[q].at = "asked" /\ x \notin refresh[q].old
        BY <1>1, <1>2, <3>1, <3>2 DEF SettledInv, MissedIsAsked, Runs
      <4>2. q # r
        BY <1>2, <3>1, <3>2, <4>1
      <4> QED
        BY <1>3, <4>1, <4>2
    <3> QED
      BY <1>1, <3>2 DEF MissedIsAsked
  <2> QED
    BY <2>1, <2>2
<1> QED
  BY <1>1, <1>5, <1>6 DEF AllSettled

LEMMA UpdateSettles ==
  ASSUME SettledInv, UpdateData PROVE AllSettled' /\ MissedIsAsked'
<1>1. /\ Loaded /\ known' = exists /\ unnoticed' = unnoticed \cup (exists \ known)
      /\ UNCHANGED <<exists, connected, stage, entities, pending, refresh>>
  BY DEF UpdateData, hcuSide, discovery
<1>2. ASSUME NEW x \in exists \ unnoticed' PROVE Settled(x)'
  <2>1. x \in known \ unnoticed /\ Settled(x)
    BY <1>1, <1>2 DEF SettledInv, AllSettled
  <2>2. ASSUME Waits(x), MembersOf[x] \cap unnoticed' = {} PROVE Waits(x)'
    <3>1. HasUnknownMembers(x, known) => HasUnknownMembers(x, known')
      BY <1>1, <2>2 DEF HasUnknownMembers
    <3> QED
      BY <1>1, <2>2, <3>1, BringsKept DEF Waits
  <2> QED
    BY <1>1, <2>1, <2>2, BringsKept DEF Settled, Waits
<1> QED
  BY <1>1, <1>2 DEF AllSettled, MissedIsAsked

LEMMA SettledStep ==
  ASSUME SettledInv, [InclusionNext]_inclusionVars PROVE SettledInv'
<1> USE InclusionAssumption
<1>1. InclusionInv'
  BY InclusionStep DEF SettledInv
<1>2. ASSUME HcuAdds PROVE AllSettled' /\ MissedIsAsked'
  <2>1. PICK items \in SUBSET (Item \ exists) \ {{}} :
          exists' = exists \cup items /\ HandleEvent(items, {})
    BY <1>2 DEF HcuAdds
  <2>2. UNCHANGED <<connected, stage, refresh, unnoticed>> /\ items \in SUBSET Item
    BY <1>2, <2>1 DEF HcuAdds
  <2> QED
    BY <2>1, <2>2, EventSettles
<1>3. ASSUME HcuChanges PROVE AllSettled' /\ MissedIsAsked'
  <2>1. PICK d \in exists \cap Device, again \in BOOLEAN :
          HandleEvent({d}, IF again /\ d \in known THEN {d} ELSE {})
    BY <1>3 DEF HcuChanges
  <2>2. UNCHANGED <<exists, connected, stage, refresh, unnoticed>>
    BY <1>3 DEF HcuChanges, hcuSide
  <2>3. {d} \in SUBSET Item /\ (IF again /\ d \in known THEN {d} ELSE {}) \in SUBSET Item
    BY <2>1 DEF Item
  <2>4. exists' \subseteq exists \cup {d}
    BY <2>2
  <2> QED
    BY <2>1, <2>2, <2>3, <2>4, EventSettles
<1>4. ASSUME Disconnect PROVE AllSettled' /\ MissedIsAsked'
  <2>1. /\ connected' = FALSE
        /\ UNCHANGED <<stage, known, entities, pending, refresh, unnoticed>>
    BY <1>4 DEF Disconnect, discovery
  <2> QED
    BY <2>1, BringsKept
       DEF SettledInv, AllSettled, MissedIsAsked, Settled, Waits, Loaded
<1>5. ASSUME LoadState \/ Unload PROVE AllSettled' /\ MissedIsAsked'
  BY <1>5 DEF LoadState, Unload, AllSettled, MissedIsAsked, Loaded
<1>6. ASSUME DiscoverAll PROVE AllSettled' /\ MissedIsAsked'
  <2>1. /\ ~Loaded /\ entities' = known /\ UNCHANGED <<exists, known, refresh>>
    BY <1>6 DEF DiscoverAll, Loaded, hcuSide
  <2>2. \A r \in Refresh : ~Runs(r)'
    BY <2>1 DEF SettledInv, InclusionInv, Runs
  <2> QED
    BY <2>1, <2>2 DEF AllSettled, MissedIsAsked, Settled
<1>7. ASSUME NEW p \in Platform, SetUpPlatform(p) PROVE AllSettled' /\ MissedIsAsked'
  <2>1. UNCHANGED <<exists, connected, stage, known, entities, pending, refresh, unnoticed>>
    BY <1>7 DEF SetUpPlatform, hcuSide
  <2> QED
    BY <2>1, BringsKept
       DEF SettledInv, AllSettled, MissedIsAsked, Settled, Waits, Loaded, Runs
<1>8. ASSUME UNCHANGED inclusionVars PROVE AllSettled' /\ MissedIsAsked'
  <2>1. UNCHANGED <<exists, connected, stage, known, entities, pending, refresh, unnoticed>>
    BY <1>8 DEF inclusionVars, hcuSide, discovery
  <2> QED
    BY <2>1, BringsKept
       DEF SettledInv, AllSettled, MissedIsAsked, Settled, Waits, Loaded, Runs
<1> QED
  BY <1>1, <1>2, <1>3, <1>4, <1>5, <1>6, <1>7, <1>8, RemovesSettles, ReconnectSettles,
     AppliesSettles, EndsSettles, FailsSettles, UpdateSettles
     DEF InclusionNext, SettledInv

LEMMA SettledAlways == InclusionSpec => []SettledInv
<1>1. InclusionInit => SettledInv
  <2>1. InclusionInit => InclusionInv
    BY DEF InclusionInit, InclusionInv, InclusionTypeOK, AddedOnce, Nowhere, NoRefresh, Loaded
  <2> QED
    BY <2>1 DEF InclusionInit, SettledInv, AllSettled, MissedIsAsked, Loaded
<1> QED
  BY <1>1, SettledStep, PTL DEF InclusionSpec

\* For any number of devices, groups, refreshes and changes: with no refresh under
\* way, everything the client knows has its entity, except what a failed or
\* overlapping refresh took for old, and groups with a member that is unknown or
\* was taken for old (_handle_dynamic_inclusions and the refresh after a
\* reconnect).
THEOREM NobodyForgotten == InclusionSpec => []NothingForgotten
<1>1. SettledInv => NothingForgotten
  BY DEF SettledInv, AllSettled, Settled, Waits, Brings, Runs, NothingForgotten
<1> QED
  BY <1>1, SettledAlways, PTL
=============================================================================
