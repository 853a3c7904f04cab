---------------------------- MODULE BridgeProofs ----------------------------
(***************************************************************************)
(* Theorems about what the bridge does for an entity of another            *)
(* integration: its auto-off, for every number of control requests, what   *)
(* the HCU is told of its state, for every configured device, and what a   *)
(* request to a light leaves behind, for every request.                    *)
(***************************************************************************)
EXTENDS BridgeAutoOff, BridgeStatus, SequenceTheorems, FiniteSetTheorems, TLAPS

(* The auto-off *)
\* A request has a timer only after its service call, and the last one to
\* succeed is over.
CallsOK ==
  /\ \A r \in Req : call[r] # "done" => timer[r] = "none"
  /\ lastDone \in Req => call[lastDone] = "done"

\* The task that can be cancelled is not one that turns the entity off.
TrackedOK == tracked \in Req => timer[tracked] # "turningOff"

AutoOffInv ==
  AutoOffTypeOK /\ CallsOK /\ TrackedOK /\ NewestCommandDecides /\ TimedTurnOnHasTimer

\* Cancelling leaves no task asleep and touches none that turns off.
LEMMA CancelledTimers ==
  ASSUME AutoOffInv
  PROVE  /\ Cancelled \in [Req -> Timer]
         /\ \A r \in Req : /\ Cancelled[r] # "armed"
                           /\ Cancelled[r] \in {timer[r], "cancelled"}
                           /\ timer[r] # "armed" => Cancelled[r] = timer[r]
BY DEF Cancelled, AutoOffInv, AutoOffTypeOK, TrackedOK, Armed, Timer

\* A new state of the entity, seen by the listener or not.
LEMMA ChangesKeep ==
  ASSUME AutoOffInv, NEW value \in {"on", "off"}, NEW finished \in SUBSET Req,
         Changes(value, finished), UNCHANGED <<kind, listening, lastDone>>,
         \/ call' = call
         \/ \E r \in Req : call[r] = "calling" /\ call' = [call EXCEPT ![r] = "acted"]
  PROVE  /\ AutoOffInv'
         /\ entity = "on" /\ entity' = "off" /\ listening => Armed' = {}
         /\ \A r \in Req : timer[r] = "turningOff" => timer'[r] \in {"turningOff", "over"}
<1> USE DEF AutoOffInv
<1> DEFINE noticed == value = "off" /\ entity = "on" /\ listening
           changed == IF noticed THEN Cancelled ELSE timer
<1>1. /\ changed \in [Req -> Timer]
      /\ \A r \in Req : /\ noticed => changed[r] # "armed"
                        /\ changed[r] \in {timer[r], "cancelled"}
                        /\ timer[r] # "armed" => changed[r] = timer[r]
                        /\ ~noticed => changed[r] = timer[r]
  BY CancelledTimers DEF AutoOffTypeOK
<1>2. /\ timer' = [r \in Req |-> IF r \in finished /\ changed[r] = "turningOff"
                                   THEN "over" ELSE changed[r]]
      /\ tracked' = IF noticed THEN NoReq ELSE tracked
      /\ entity' = value
      /\ offSince' = IF value = "off" /\ entity = "on"
                       THEN offSince \cup {r \in Req : call[r] \in {"acted", "done"}}
                       ELSE offSince
  BY DEF Changes
<1> HIDE DEF changed
<1>3. \A r \in Req : /\ timer'[r] = "armed" => timer[r] = "armed" /\ ~noticed
                     /\ timer'[r] = "turningOff" => timer[r] = "turningOff"
                     /\ timer[r] = "turningOff" => timer'[r] \in {"turningOff", "over"}
                     /\ timer[r] = "none" => timer'[r] = "none"
                     /\ timer[r] = "over" => timer'[r] = "over"
                     /\ ~noticed /\ timer[r] = "armed" => timer'[r] = "armed"
  BY <1>1, <1>2 DEF AutoOffTypeOK, TrackedOK, Armed, Timer
<1>4. call' \in [Req -> Call] /\ \A r \in Req : call'[r] = "done" <=> call[r] = "done"
  BY DEF AutoOffTypeOK, Call
<1>5. timer' \in [Req -> Timer]
  BY <1>1, <1>2 DEF Timer
<1>6. AutoOffTypeOK'
  BY <1>2, <1>3, <1>4, <1>5 DEF AutoOffTypeOK, Armed
<1>7. CallsOK' /\ TrackedOK'
  BY <1>2, <1>3, <1>4, ReqAssumption DEF CallsOK, TrackedOK
<1>8. NewestCommandDecides'
  BY <1>3 DEF NewestCommandDecides, Armed
<1>9. TimedTurnOnHasTimer'
  <2> SUFFICES ASSUME NEW r \in Req, r = lastDone, kind[r] = "onTimed",
                      r \notin offSince', listening
               PROVE  timer'[r] \in {"armed", "turningOff", "over"}
    BY DEF TimedTurnOnHasTimer
  <2>1. call[r] = "done"
    BY DEF CallsOK
  <2>2. ~noticed /\ r \notin offSince
    BY <1>2, <2>1
  <2>3. timer[r] \in {"armed", "turningOff", "over"}
    BY <2>2 DEF TimedTurnOnHasTimer
  <2> QED
    BY <1>3, <2>2, <2>3
<1>10. entity = "on" /\ entity' = "off" /\ listening => Armed' = {}
  BY <1>2, <1>3 DEF Armed
<1> QED
  BY <1>3, <1>6, <1>7, <1>8, <1>9, <1>10

\* What each step keeps, with what it may do to the timers.
StepOK ==
  /\ AutoOffInv'
  /\ entity = "on" /\ entity' = "off" /\ listening => Armed' = {}
  /\ \A r \in Req : timer[r] = "turningOff" => timer'[r] \in {"turningOff", "over"}

LEMMA ReturnsKeeps ==
  ASSUME AutoOffInv, NEW r \in Req, ServiceReturns(r)
  PROVE  StepOK
<1> USE DEF AutoOffInv
<1>1. /\ call[r] = "acted" /\ call' = [call EXCEPT ![r] = "done"] /\ lastDone' = r
      /\ timer' = [Cancelled EXCEPT ![r] = IF kind[r] = "onTimed" THEN "armed" ELSE @]
      /\ tracked' = IF kind[r] = "onTimed" THEN r ELSE NoReq
      /\ UNCHANGED <<kind, entity, listening, offSince>>
  BY DEF ServiceReturns
<1>2. timer[r] = "none"
  BY <1>1 DEF CallsOK
<1>3. /\ timer' \in [Req -> Timer]
      /\ kind[r] = "onTimed" => timer'[r] = "armed"
      /\ kind[r] # "onTimed" => timer'[r] = "none"
      /\ \A q \in Req \ {r} : timer'[q] # "armed"
                              /\ (timer[q] # "armed" => timer'[q] = timer[q])
  BY <1>1, <1>2, CancelledTimers DEF Timer
<1>4. AutoOffTypeOK'
  BY <1>1, <1>3 DEF AutoOffTypeOK, Armed, Call
<1>5. CallsOK' /\ TrackedOK'
  BY <1>1, <1>3, ReqAssumption DEF CallsOK, TrackedOK, AutoOffTypeOK
<1>6. NewestCommandDecides' /\ TimedTurnOnHasTimer'
  BY <1>1, <1>3 DEF NewestCommandDecides, TimedTurnOnHasTimer, Armed
<1> QED
  BY <1>1, <1>2, <1>3, <1>4, <1>5, <1>6 DEF StepOK

LEMMA ElapsesKeeps ==
  ASSUME AutoOffInv, NEW r \in Req, Elapses(r)
  PROVE  StepOK
<1> USE DEF AutoOffInv
<1>1. /\ timer[r] = "armed" /\ timer' = [timer EXCEPT ![r] = "turningOff"]
      /\ tracked = r /\ tracked' = NoReq
      /\ UNCHANGED <<kind, call, entity, listening, lastDone, offSince>>
  BY DEF Elapses, AutoOffTypeOK, Armed
<1>2. AutoOffTypeOK'
  BY <1>1 DEF AutoOffTypeOK, Armed, Timer
<1>3. CallsOK' /\ TrackedOK'
  BY <1>1, ReqAssumption DEF CallsOK, TrackedOK, AutoOffTypeOK
<1>4. NewestCommandDecides' /\ TimedTurnOnHasTimer'
  BY <1>1 DEF NewestCommandDecides, TimedTurnOnHasTimer, Armed, AutoOffTypeOK
<1> QED
  BY <1>1, <1>2, <1>3, <1>4 DEF StepOK, AutoOffTypeOK

\* Steps that leave the entity and the timers alone.
LEMMA CallStepKeeps ==
  ASSUME AutoOffInv, NEW r \in Req, Receive(r) \/ ServiceFails(r)
  PROVE  StepOK
<1> USE DEF AutoOffInv
<1>1. /\ UNCHANGED <<kind, entity, timer, tracked, listening, lastDone, offSince>>
      /\ call' \in [Req -> Call]
      /\ \A q \in Req : call[q] = "done" => call'[q] = "done"
  BY DEF Receive, ServiceFails, AutoOffTypeOK, Call
<1>2. AutoOffTypeOK' /\ TrackedOK'
  BY <1>1 DEF AutoOffTypeOK, TrackedOK, Armed
<1>3. CallsOK'
  BY <1>1 DEF CallsOK
<1>4. NewestCommandDecides' /\ TimedTurnOnHasTimer'
  BY <1>1 DEF NewestCommandDecides, TimedTurnOnHasTimer, Armed
<1> QED
  BY <1>1, <1>2, <1>3, <1>4 DEF StepOK, AutoOffTypeOK

LEMMA TurnOffFailsKeeps ==
  ASSUME AutoOffInv, NEW r \in Req, TurnOffFails(r)
  PROVE  StepOK
<1> USE DEF AutoOffInv
<1>1. /\ timer[r] = "turningOff" /\ timer' = [timer EXCEPT ![r] = "over"]
      /\ UNCHANGED <<kind, call, entity, tracked, listening, lastDone, offSince>>
  BY DEF TurnOffFails
<1>2. AutoOffTypeOK'
  BY <1>1 DEF AutoOffTypeOK, Armed, Timer
<1>3. CallsOK' /\ TrackedOK'
  BY <1>1 DEF CallsOK, TrackedOK, AutoOffTypeOK
<1>4. NewestCommandDecides' /\ TimedTurnOnHasTimer'
  BY <1>1 DEF NewestCommandDecides, TimedTurnOnHasTimer, Armed, AutoOffTypeOK
<1> QED
  BY <1>1, <1>2, <1>3, <1>4 DEF StepOK, AutoOffTypeOK

LEMMA StopKeeps ==
  ASSUME AutoOffInv, StopListening
  PROVE  StepOK
<1> USE DEF AutoOffInv
<1>1. /\ timer' = Cancelled /\ tracked' = NoReq /\ listening' = FALSE
      /\ UNCHANGED <<kind, call, entity, lastDone, offSince>>
  BY DEF StopListening
<1>2. /\ timer' \in [Req -> Timer]
      /\ \A r \in Req : /\ timer'[r] # "armed"
                        /\ timer[r] # "armed" => timer'[r] = timer[r]
  BY <1>1, CancelledTimers
<1>3. AutoOffTypeOK' /\ TrackedOK'
  BY <1>1, <1>2, ReqAssumption DEF AutoOffTypeOK, TrackedOK, Armed
<1>4. CallsOK' /\ NewestCommandDecides' /\ TimedTurnOnHasTimer'
  BY <1>1, <1>2 DEF CallsOK, NewestCommandDecides, TimedTurnOnHasTimer, Armed
<1> QED
  BY <1>1, <1>2, <1>3, <1>4 DEF StepOK, Armed

LEMMA AutoOffInvInit == AutoOffInit => AutoOffInv
BY ReqAssumption
  DEF AutoOffInit, AutoOffInv, AutoOffTypeOK, CallsOK, TrackedOK, NewestCommandDecides,
      TimedTurnOnHasTimer, Armed, Call, Timer

LEMMA AutoOffInvNext ==
  ASSUME AutoOffInv, [AutoOffNext]_autoOffVars
  PROVE  AutoOffInv' /\ [StepOK]_autoOffVars
<1>1. CASE UNCHANGED autoOffVars
  BY <1>1 DEF autoOffVars, AutoOffInv, AutoOffTypeOK, CallsOK, TrackedOK,
              NewestCommandDecides, TimedTurnOnHasTimer, Armed
<1>2. CASE AutoOffNext
  <2>1. CASE Switched
    <3>1. PICK value \in {"on", "off"} : Changes(value, {})
      BY <2>1 DEF Switched
    <3> QED
      BY <2>1, <3>1, ChangesKeep DEF Switched, StepOK
  <2>2. CASE StopListening
    BY <2>2, StopKeeps DEF StepOK
  <2>3. CASE \E r \in Req : \/ Receive(r) \/ ServiceActs(r) \/ ServiceFails(r)
                           \/ ServiceReturns(r) \/ Elapses(r) \/ TurnsOff(r)
                           \/ TurnOffFails(r)
    <3>1. PICK r \in Req : \/ Receive(r) \/ ServiceActs(r) \/ ServiceFails(r)
                           \/ ServiceReturns(r) \/ Elapses(r) \/ TurnsOff(r)
                           \/ TurnOffFails(r)
      BY <2>3
    <3>2. CASE ServiceActs(r)
      <4>1. PICK value \in {"on", "off"} : Changes(value, {})
        BY <3>2 DEF ServiceActs
      <4> QED
        BY <3>2, <4>1, ChangesKeep DEF ServiceActs, StepOK
    <3>3. CASE TurnsOff(r)
      BY <3>3, ChangesKeep DEF TurnsOff, StepOK
    <3> QED
      BY <3>1, <3>2, <3>3, CallStepKeeps, ReturnsKeeps, ElapsesKeeps, TurnOffFailsKeeps
        DEF StepOK
  <2> QED
    BY <1>2, <2>1, <2>2, <2>3 DEF AutoOffNext
<1> QED
  BY <1>1, <1>2

LEMMA AutoOffInvAlways == AutoOffSpec => []AutoOffInv
BY AutoOffInvInit, AutoOffInvNext, PTL DEF AutoOffSpec

\* However many requests overlap, only the newest one that succeeded has a timer
\* asleep (handle_control_request).
THEOREM NewestDecides == AutoOffSpec => []NewestCommandDecides
<1>1. AutoOffInv => NewestCommandDecides
  BY DEF AutoOffInv
<1> QED
  BY <1>1, AutoOffInvAlways, PTL

\* The types, and that at most one task sleeps, which is the one that can be
\* cancelled.
THEOREM AutoOffTypes == AutoOffSpec => []AutoOffTypeOK
<1>1. AutoOffInv => AutoOffTypeOK
  BY DEF AutoOffInv
<1> QED
  BY <1>1, AutoOffInvAlways, PTL

\* A timed turn-on that nothing replaced or ended has its timer.
THEOREM TimersAreKept == AutoOffSpec => []TimedTurnOnHasTimer
<1>1. AutoOffInv => TimedTurnOnHasTimer
  BY DEF AutoOffInv
<1> QED
  BY <1>1, AutoOffInvAlways, PTL

\* An off state the bridge sees leaves no timer asleep (_on_state_changed).
THEOREM OffEndsTimers == AutoOffSpec => OffEndsPendingTimer
<1>1. AutoOffInv /\ [AutoOffNext]_autoOffVars =>
        [entity = "on" /\ entity' = "off" /\ listening => Armed' = {}]_autoOffVars
  BY AutoOffInvNext DEF StepOK
<1> QED
  BY <1>1, AutoOffInvAlways, PTL DEF AutoOffSpec, OffEndsPendingTimer

\* A timer that elapsed is never cancelled by the off state it causes itself, nor
\* by a later request (_auto_off_after).
THEOREM ElapsedTimersComplete == AutoOffSpec => ElapsedTurnOffCompletes
<1>1. AutoOffInv /\ [AutoOffNext]_autoOffVars =>
        [\A r \in Req : timer[r] = "turningOff"
                         => timer'[r] \in {"turningOff", "over"}]_autoOffVars
  BY AutoOffInvNext DEF StepOK
<1> QED
  BY <1>1, AutoOffInvAlways, PTL DEF AutoOffSpec, ElapsedTurnOffCompletes

-----------------------------------------------------------------------------
(* Sequences of features *)

\* AtPlaces takes the members at the given places, each once.
TakesEachOnce(seq, places) ==
  /\ Cardinality(places) \in Nat
  /\ DOMAIN AtPlaces(seq, places) = 1 .. Cardinality(places)
  /\ \E p \in [1 .. Cardinality(places) -> places] :
       /\ \A k \in 1 .. Cardinality(places) : AtPlaces(seq, places)[k] = seq[p[k]]
       /\ \A i \in places : \E k \in 1 .. Cardinality(places) : p[k] = i
       /\ \A k, l \in 1 .. Cardinality(places) : p[k] = p[l] => k = l

LEMMA Placed ==
  ASSUME NEW m \in Nat, NEW places \in SUBSET (1 .. m), NEW seq
  PROVE  TakesEachOnce(seq, places)
<1> DEFINE n == Cardinality(places)
           upTo(i) == {j \in places : j <= i}
           rank == [i \in places |-> Cardinality(upTo(i))]
<1>0. \A i \in places : i \in Int
  OBVIOUS
<1>1. IsFiniteSet(places) /\ n \in Nat
  <2>1. IsFiniteSet(1 .. m)
    BY FS_Interval
  <2>2. IsFiniteSet(places)
    BY <2>1, FS_Subset
  <2> QED
    BY <2>2, FS_CardinalityType
<1>2. IsFiniteSet(1 .. n) /\ Cardinality(1 .. n) = n
  BY <1>1, FS_Interval
<1>3. ASSUME NEW i \in places
      PROVE  IsFiniteSet(upTo(i)) /\ rank[i] \in 1 .. n /\ i \in upTo(i)
  <2>1. IsFiniteSet(upTo(i)) /\ Cardinality(upTo(i)) <= n /\ Cardinality(upTo(i)) \in Nat
    BY <1>1, FS_Subset, FS_CardinalityType
  <2>2. i \in upTo(i)
    OBVIOUS
  <2>3. Cardinality(upTo(i)) # 0
    BY <2>1, <2>2, FS_EmptySet
  <2> QED
    BY <1>1, <2>1, <2>2, <2>3
<1>4. ASSUME NEW i \in places, NEW j \in places, i < j
      PROVE  rank[i] # rank[j]
  <2>0. i \in Int /\ j \in Int /\ ~(j <= i)
    BY <1>0, <1>4
  <2>1. ASSUME NEW x \in places, x <= i PROVE x <= j
    BY <1>0, <1>4, <2>0, <2>1
  <2>2. upTo(i) \in SUBSET upTo(j) /\ j \notin upTo(i)
    BY <2>0, <2>1
  <2> QED
    BY <1>3, <2>2, FS_Subset
<1>5. \A i, j \in places : rank[i] = rank[j] => i = j
  BY <1>4
<1>6. rank \in Injection(places, 1 .. n)
  BY <1>3, <1>5 DEF Injection, IsInjective
<1>7. rank \in Surjection(places, 1 .. n)
  BY <1>1, <1>2, <1>6, FS_Injection
<1>8. \A k \in 1 .. n : \E i \in places : rank[i] = k
  BY <1>7 DEF Surjection
<1> DEFINE p == [k \in 1 .. n |-> CHOOSE i \in places : Cardinality(upTo(i)) = k]
<1>9. ASSUME NEW k \in 1 .. n PROVE p[k] \in places /\ rank[p[k]] = k
  BY <1>8
<1>10. AtPlaces(seq, places) = [k \in 1 .. n |-> seq[p[k]]]
  BY DEF AtPlaces
<1> HIDE DEF p, rank, n
<1>11. p \in [1 .. n -> places]
  BY <1>9 DEF p
<1>12. \A i \in places : \E k \in 1 .. n : p[k] = i
  BY <1>3, <1>5, <1>9
<1>13. \A k, l \in 1 .. n : p[k] = p[l] => k = l
  BY <1>9
<1>14. /\ DOMAIN AtPlaces(seq, places) = 1 .. n
       /\ \A k \in 1 .. n : AtPlaces(seq, places)[k] = seq[p[k]]
  BY <1>10
<1> QED
  BY <1>1, <1>11, <1>12, <1>13, <1>14 DEF n, TakesEachOnce

LEMMA FunctionIsSeq ==
  ASSUME NEW n \in Nat, NEW S, NEW s \in [1 .. n -> S]
  PROVE  s \in Seq(S) /\ Len(s) = n
<1>1. s \in Seq(S)
  BY SeqDef
<1>2. Len(s) \in Nat /\ DOMAIN s = 1 .. Len(s)
  BY <1>1, LenProperties
<1>3. DOMAIN s = 1 .. n
  OBVIOUS
<1>4. Len(s) = n
  <2>1. \A i \in Nat : i \in 1 .. Len(s) <=> i \in 1 .. n
    BY <1>2, <1>3
  <2>2. Len(s) <= n
    <3>1. CASE Len(s) = 0
      BY <1>2, <3>1
    <3>2. CASE Len(s) # 0
      <4>1. Len(s) \in 1 .. Len(s)
        BY <1>2, <3>2
      <4> QED  BY <1>2, <2>1, <4>1
    <3> QED  BY <3>1, <3>2
  <2>3. n <= Len(s)
    <3>1. CASE n = 0
      BY <1>2, <3>1
    <3>2. CASE n # 0
      <4>1. n \in 1 .. n
        BY <3>2
      <4> QED  BY <1>2, <2>1, <4>1
    <3> QED  BY <3>1, <3>2
  <2> QED  BY <1>2, <2>2, <2>3
<1> QED
  BY <1>1, <1>4


Members(s) == {s[i] : i \in DOMAIN s}
IsList(s) == s \in Seq(Members(s))
Once(s) == \A i, j \in DOMAIN s : s[i][1] = s[j][1] => i = j

LEMMA Lists ==
  ASSUME NEW n \in Nat, NEW s, DOMAIN s = 1 .. n, s = [i \in 1 .. n |-> s[i]]
  PROVE  IsList(s) /\ Len(s) = n
<1>1. s \in [1 .. n -> Members(s)]
  BY DEF Members
<1> QED
  BY <1>1, FunctionIsSeq DEF IsList

LEMMA ListFacts ==
  ASSUME NEW s, IsList(s)
  PROVE  /\ Len(s) \in Nat /\ DOMAIN s = 1 .. Len(s)
         /\ s = [i \in 1 .. Len(s) |-> s[i]]
BY LenProperties DEF IsList

LEMMA PlacedMembers ==
  ASSUME NEW s, IsList(s), NEW places \in SUBSET DOMAIN s
  PROVE  /\ IsList(AtPlaces(s, places))
         /\ Members(AtPlaces(s, places)) = {s[i] : i \in places}
<1> DEFINE q == AtPlaces(s, places)
           n == Cardinality(places)
<1>1. Len(s) \in Nat /\ places \in SUBSET (1 .. Len(s))
  BY ListFacts
<1>2. /\ n \in Nat /\ DOMAIN q = 1 .. n
      /\ \E p \in [1 .. n -> places] :
           /\ \A k \in 1 .. n : q[k] = s[p[k]]
           /\ \A i \in places : \E k \in 1 .. n : p[k] = i
           /\ \A k, l \in 1 .. n : p[k] = p[l] => k = l
  <2>1. TakesEachOnce(s, places)
    BY <1>1, Placed
  <2> QED
    BY <2>1 DEF TakesEachOnce
<1>3. q = [k \in 1 .. n |-> q[k]]
  BY DEF AtPlaces
<1> HIDE DEF q, n
<1>4. IsList(q)
  BY <1>2, <1>3, Lists
<1>5. Members(q) = {s[i] : i \in places}
  <2>1. PICK p \in [1 .. n -> places] :
           /\ \A k \in 1 .. n : q[k] = s[p[k]]
           /\ \A i \in places : \E k \in 1 .. n : p[k] = i
    BY <1>2
  <2>2. ASSUME NEW x \in Members(q) PROVE x \in {s[i] : i \in places}
    <3>1. PICK k \in 1 .. n : x = q[k]
      BY <1>2 DEF Members
    <3>2. p[k] \in places /\ x = s[p[k]]
      BY <2>1, <3>1
    <3> QED  BY <3>2
  <2>3. ASSUME NEW i \in places PROVE s[i] \in Members(q)
    <3>1. PICK k \in 1 .. n : p[k] = i
      BY <2>1
    <3>2. k \in DOMAIN q /\ q[k] = s[i]
      BY <1>2, <2>1, <3>1
    <3> QED
      BY <3>2 DEF Members
  <2> QED
    BY <2>2, <2>3
<1> QED
  BY <1>4, <1>5 DEF q

\* The least place with a property.
LEMMA Least ==
  ASSUME NEW S \in SUBSET Nat, S # {}
  PROVE  \E i \in S : \A j \in S : ~(j < i)
<1>1. \E i \in S : \A j \in S : ~(<<j, i>> \in OpToRel(<, Nat))
  BY NatLessThanWellFounded, WFMin
<1> QED
  BY <1>1 DEF OpToRel

LEMMA OneOfEach ==
  ASSUME NEW s, IsList(s)
  PROVE  /\ IsList(OnePerType(s)) /\ Once(OnePerType(s))
         /\ Members(OnePerType(s)) \subseteq Members(s)
         /\ Types(OnePerType(s)) = Types(s)
<1> DEFINE q == OnePerType(s)
           n == Cardinality(Firsts(s))
<1>1. Len(s) \in Nat /\ DOMAIN s = 1 .. Len(s)
  BY ListFacts
<1>2. Firsts(s) \in SUBSET DOMAIN s
  BY DEF Firsts
<1>3. IsList(q) /\ Members(q) = {s[i] : i \in Firsts(s)}
  BY <1>2, PlacedMembers DEF OnePerType
<1>4. ASSUME NEW i \in DOMAIN s PROVE \E j \in Firsts(s) : s[j][1] = s[i][1]
  <2> DEFINE S == {j \in DOMAIN s : s[j][1] = s[i][1]}
  <2>1. S \in SUBSET Nat /\ S # {}
    BY <1>1, <1>4
  <2>2. PICK j \in S : \A k \in S : ~(k < j)
    BY <2>1, Least
  <2>3. j \in Firsts(s)
    BY <2>2 DEF Firsts
  <2> QED
    BY <2>2, <2>3
<1>5. Types(q) = Types(s)
  <2> HIDE DEF q
  <2>1. Types(q) = {x[1] : x \in Members(q)}
    BY DEF Types, Members
  <2>2. Types(q) = {s[i][1] : i \in Firsts(s)}
    BY <1>3, <2>1
  <2> QED
    BY <1>2, <1>4, <2>2 DEF Types
<1>6. Once(q)
  <2>1. /\ n \in Nat /\ DOMAIN q = 1 .. n
        /\ \E p \in [1 .. n -> Firsts(s)] :
             /\ \A k \in 1 .. n : q[k] = s[p[k]]
             /\ \A i \in Firsts(s) : \E k \in 1 .. n : p[k] = i
             /\ \A k, l \in 1 .. n : p[k] = p[l] => k = l
    <3>1. TakesEachOnce(s, Firsts(s))
      BY <1>1, <1>2, Placed
    <3> QED
      BY <3>1 DEF TakesEachOnce, OnePerType
  <2> HIDE DEF q, n
  <2>2. PICK p \in [1 .. n -> Firsts(s)] :
             /\ \A k \in 1 .. n : q[k] = s[p[k]]
             /\ \A k, l \in 1 .. n : p[k] = p[l] => k = l
    BY <2>1
  <2>3. ASSUME NEW i \in Firsts(s), NEW j \in Firsts(s), s[i][1] = s[j][1]
        PROVE  i = j
    <3>1. ~(i < j) /\ ~(j < i) /\ i \in Int /\ j \in Int
      BY <1>1, <2>3 DEF Firsts
    <3> QED
      BY <3>1
  <2> QED
    BY <2>1, <2>2, <2>3 DEF Once
<1>7. Members(q) \subseteq Members(s)
  BY <1>2, <1>3 DEF Members
<1> QED
  BY <1>3, <1>5, <1>6, <1>7

LEMMA TypesOfMembers == \A s : Types(s) = {x[1] : x \in Members(s)}
BY DEF Types, Members

LEMMA Joined ==
  ASSUME NEW a, NEW b, IsList(a), IsList(b)
  PROVE  /\ IsList(a \o b) /\ Members(a \o b) = Members(a) \cup Members(b)
         /\ Once(a) /\ Once(b) /\ Types(a) \cap Types(b) = {} => Once(a \o b)
<1> DEFINE S == Members(a) \cup Members(b)
           q == a \o b
           m == Len(a)
           n == Len(b)
<1>1. a \in Seq(S) /\ b \in Seq(S)
  BY SeqMonotonic DEF IsList
<1>2. /\ m \in Nat /\ DOMAIN a = 1 .. m
      /\ n \in Nat /\ DOMAIN b = 1 .. n
  BY ListFacts
<1>3. /\ q \in Seq(S) /\ Len(q) = m + n
      /\ \A i \in 1 .. m + n : q[i] = IF i <= m THEN a[i] ELSE b[i - m]
  BY <1>1, ConcatProperties
<1>4. DOMAIN q = 1 .. m + n /\ q = [i \in 1 .. m + n |-> q[i]]
  <2> HIDE DEF q, m, n, S
  <2> QED  BY <1>3, LenProperties
<1> HIDE DEF q, m, n, S
<1>5. IsList(q)
  BY <1>2, <1>4, Lists
<1>6. ASSUME NEW i \in 1 .. m + n
      PROVE  \/ i \in 1 .. m /\ q[i] = a[i]
             \/ i - m \in 1 .. n /\ q[i] = b[i - m] /\ i > m
  BY <1>2, <1>3
<1>7. Members(q) = Members(a) \cup Members(b)
  <2>1. Members(q) \subseteq Members(a) \cup Members(b)
    BY <1>2, <1>4, <1>6 DEF Members
  <2>2. ASSUME NEW i \in 1 .. m PROVE a[i] \in Members(q)
    <3>1. i \in 1 .. m + n /\ q[i] = a[i]
      BY <1>2, <1>3
    <3> QED  BY <1>4, <3>1 DEF Members
  <2>3. ASSUME NEW i \in 1 .. n PROVE b[i] \in Members(q)
    <3>1. i + m \in 1 .. m + n /\ q[i + m] = b[i]
      BY <1>2, <1>3
    <3> QED  BY <1>4, <3>1 DEF Members
  <2> QED
    BY <1>2, <2>1, <2>2, <2>3 DEF Members
<1>8. ASSUME Once(a), Once(b), Types(a) \cap Types(b) = {} PROVE Once(q)
  <2> SUFFICES ASSUME NEW i \in 1 .. m + n, NEW j \in 1 .. m + n, q[i][1] = q[j][1] PROVE i = j
    BY <1>4 DEF Once
  <2>1. CASE i \in 1 .. m /\ q[i] = a[i] /\ j \in 1 .. m /\ q[j] = a[j]
    BY <1>2, <1>8, <2>1 DEF Once
  <2>2. CASE i - m \in 1 .. n /\ q[i] = b[i - m] /\ j - m \in 1 .. n /\ q[j] = b[j - m]
    <3>1. i - m = j - m
      BY <1>2, <1>8, <2>2 DEF Once
    <3> QED
      BY <1>2, <3>1
  <2>3. CASE i \in 1 .. m /\ q[i] = a[i] /\ j - m \in 1 .. n /\ q[j] = b[j - m]
    <3>1. q[i][1] \in Types(a) /\ q[j][1] \in Types(b)
      BY <1>2, <2>3 DEF Types
    <3> QED
      BY <1>8, <3>1
  <2>4. CASE j \in 1 .. m /\ q[j] = a[j] /\ i - m \in 1 .. n /\ q[i] = b[i - m]
    <3>1. q[j][1] \in Types(a) /\ q[i][1] \in Types(b)
      BY <1>2, <2>4 DEF Types
    <3> QED
      BY <1>8, <3>1
  <2> QED
    BY <1>6, <2>1, <2>2, <2>3, <2>4
<1> QED
  BY <1>5, <1>7, <1>8 DEF q

LEMMA ValueOfMember ==
  ASSUME NEW s, NEW x \in Members(s),
         \A y, z \in Members(s) : y[1] = z[1] => y = z
  PROVE  ValueOf(x[1], s) = x[2]
<1>1. \E i \in DOMAIN s : s[i][1] = x[1]
  BY DEF Members
<1> DEFINE i == CHOOSE i \in DOMAIN s : s[i][1] = x[1]
<1>2. i \in DOMAIN s /\ s[i][1] = x[1]
  BY <1>1
<1>3. s[i] \in Members(s)
  BY <1>2 DEF Members
<1>4. s[i] = x
  BY <1>2, <1>3
<1> QED
  BY <1>4 DEF ValueOf

-----------------------------------------------------------------------------
(* What is announced and what is reported *)

\* The plain features of a device, announced and with their values.
PlainTypes(cf) == [i \in DOMAIN PlainKeys(cf) |-> <<TypeOf(PlainKeys(cf)[i][1]), NoValue>>]
PlainValues(cf, s) ==
  [i \in DOMAIN PlainKeys(cf) |->
     <<TypeOf(PlainKeys(cf)[i][1]), FeatureValue(PlainKeys(cf)[i][1], s[PlainKeys(cf)[i][2]])>>]
MaintenanceType(cf) ==
  IF Maintained(cf) # {} THEN << <<"maintenance", NoValue>> >> ELSE <<>>

LEMMA MappedList ==
  ASSUME NEW s, IsList(s), NEW q, DOMAIN q = DOMAIN s, q = [i \in DOMAIN s |-> q[i]]
  PROVE  IsList(q)
<1>1. Len(s) \in Nat /\ DOMAIN s = 1 .. Len(s)
  BY ListFacts
<1> QED
  BY <1>1, Lists

LEMMA Short ==
  /\ IsList(<<>>) /\ Members(<<>>) = {} /\ Types(<<>>) = {} /\ Once(<<>>)
  /\ \A x : IsList(<<x>>) /\ Members(<<x>>) = {x} /\ Types(<<x>>) = {x[1]} /\ Once(<<x>>)
<1>1. IsList(<<>>) /\ Members(<<>>) = {} /\ Types(<<>>) = {} /\ Once(<<>>)
  BY EmptySeq DEF IsList, Members, Types, Once
<1>2. ASSUME NEW x
      PROVE  IsList(<<x>>) /\ Members(<<x>>) = {x} /\ Types(<<x>>) = {x[1]} /\ Once(<<x>>)
  <2>1. DOMAIN <<x>> = {1} /\ <<x>>[1] = x
    OBVIOUS
  <2>2. Members(<<x>>) = {x} /\ Types(<<x>>) = {x[1]} /\ Once(<<x>>)
    BY <2>1 DEF Members, Types, Once
  <2>3. <<x>> \in Seq({x})
    OBVIOUS
  <2> QED
    BY <2>2, <2>3 DEF IsList
<1> QED
  BY <1>1, <1>2

LEMMA ConfLists ==
  ASSUME NEW cf \in Conf
  PROVE  /\ IsList(cf) /\ IsList(PlainKeys(cf))
         /\ \A i \in DOMAIN PlainKeys(cf) : PlainKeys(cf)[i][1] \in Keys \ Maintenance
<1>1. cf \in Seq(Keys \X DOMAIN Readings)
  BY StatusAssumption
<1>2. Len(cf) \in Nat /\ DOMAIN cf = 1 .. Len(cf) /\ cf \in [1 .. Len(cf) -> Keys \X DOMAIN Readings]
  BY <1>1, LenProperties
<1>3. IsList(cf)
  BY <1>2, Lists
<1>4. DOMAIN cf \ Maintained(cf) \in SUBSET DOMAIN cf
  OBVIOUS
<1>5. /\ IsList(PlainKeys(cf))
      /\ Members(PlainKeys(cf)) = {cf[i] : i \in DOMAIN cf \ Maintained(cf)}
  BY <1>3, <1>4, PlacedMembers DEF PlainKeys
<1>6. ASSUME NEW i \in DOMAIN PlainKeys(cf)
      PROVE  PlainKeys(cf)[i][1] \in Keys \ Maintenance
  <2>1. PlainKeys(cf)[i] \in Members(PlainKeys(cf))
    BY DEF Members
  <2>2. PICK j \in DOMAIN cf \ Maintained(cf) : PlainKeys(cf)[i] = cf[j]
    BY <1>5, <2>1
  <2>3. cf[j] \in Keys \X DOMAIN Readings
    BY <1>2
  <2> QED
    BY <2>2, <2>3 DEF Maintained
<1> QED
  BY <1>3, <1>5, <1>6

LEMMA NoMaintenanceType ==
  ASSUME NEW key \in Keys \ Maintenance
  PROVE  TypeOf(key) # "maintenance"
BY DEF TypeOf, Keys, Binary, Words, Numbers, Presence, Contacts

LEMMA Discovered ==
  ASSUME NEW cf \in Conf
  PROVE  /\ IsList(DiscoverFeatures(cf)) /\ Once(DiscoverFeatures(cf))
         /\ \A x \in Members(DiscoverFeatures(cf)) : x[2] = NoValue
         /\ Types(DiscoverFeatures(cf)) =
              {TypeOf(PlainKeys(cf)[i][1]) : i \in DOMAIN PlainKeys(cf)}
                \cup (IF Maintained(cf) # {} THEN {"maintenance"} ELSE {})
<1> DEFINE a == PlainTypes(cf)
           b == OnePerType(PlainTypes(cf))
           c == MaintenanceType(cf)
<1>1. DiscoverFeatures(cf) = b \o c
  BY DEF DiscoverFeatures, PlainTypes, MaintenanceType
<1>2. IsList(a)
  BY ConfLists, MappedList DEF PlainTypes
<1>3. /\ IsList(b) /\ Once(b) /\ Members(b) \subseteq Members(a) /\ Types(b) = Types(a)
  BY <1>2, OneOfEach
<1>4. /\ \A x \in Members(a) : x[2] = NoValue
      /\ Types(a) = {TypeOf(PlainKeys(cf)[i][1]) : i \in DOMAIN PlainKeys(cf)}
  BY DEF PlainTypes, Members, Types
<1>5. /\ IsList(c) /\ Once(c) /\ \A x \in Members(c) : x[2] = NoValue
      /\ Types(c) = IF Maintained(cf) # {} THEN {"maintenance"} ELSE {}
  <2>1. CASE Maintained(cf) # {}
    <3>1. c = << <<"maintenance", NoValue>> >>
      BY <2>1 DEF MaintenanceType
    <3> HIDE DEF c
    <3> QED
      BY <2>1, <3>1, Short
  <2>2. CASE Maintained(cf) = {}
    <3>1. c = <<>>
      BY <2>2 DEF MaintenanceType
    <3> HIDE DEF c
    <3> QED
      BY <2>2, <3>1, Short
  <2> QED
    BY <2>1, <2>2
<1>6. "maintenance" \notin Types(b)
  BY <1>3, <1>4, ConfLists, NoMaintenanceType
<1> HIDE DEF a, b, c
<1>7. /\ IsList(b \o c) /\ Once(b \o c) /\ Members(b \o c) = Members(b) \cup Members(c)
  BY <1>3, <1>5, <1>6, Joined
<1>8. Types(b \o c) = Types(b) \cup Types(c)
  BY <1>7, TypesOfMembers
<1> QED
  BY <1>1, <1>3, <1>4, <1>5, <1>7, <1>8

LEMMA Reported ==
  ASSUME NEW cf \in Conf, NEW s
  PROVE  /\ IsList(ValueFeatures(cf, s)) /\ Once(ValueFeatures(cf, s))
         /\ \A x \in Members(ValueFeatures(cf, s)) : x[2] # NoValue
         /\ Types(ValueFeatures(cf, s)) \subseteq Types(DiscoverFeatures(cf))
<1> DEFINE a == PlainValues(cf, s)
           v == Valued(PlainValues(cf, s))
           b == OnePerType(Valued(PlainValues(cf, s)))
           c == MaintenanceFeature(cf, s)
<1>1. ValueFeatures(cf, s) = b \o c
  BY DEF ValueFeatures, PlainValues
<1>2. IsList(a)
  BY ConfLists, MappedList DEF PlainValues
<1>3. IsList(v) /\ Members(v) = {a[i] : i \in {j \in DOMAIN a : a[j][2] # NoValue}}
  BY <1>2, PlacedMembers DEF Valued
<1>4. IsList(b) /\ Once(b) /\ Members(b) \subseteq Members(v)
  BY <1>3, OneOfEach
<1>5. \A x \in Members(b) : x[2] # NoValue
  BY <1>3, <1>4
<1>6. Types(b) \subseteq {TypeOf(PlainKeys(cf)[i][1]) : i \in DOMAIN PlainKeys(cf)}
  <2>1. \A i \in DOMAIN a : i \in DOMAIN PlainKeys(cf) /\ a[i][1] = TypeOf(PlainKeys(cf)[i][1])
    BY DEF PlainValues
  <2> HIDE DEF a, b, v
  <2>2. \A x \in Members(b) : \E i \in DOMAIN a : x = a[i]
    BY <1>3, <1>4
  <2> QED
    BY <2>1, <2>2, TypesOfMembers
<1>7. /\ IsList(c) /\ Once(c) /\ \A x \in Members(c) : x[2] # NoValue
      /\ Types(c) \subseteq IF Maintained(cf) # {} THEN {"maintenance"} ELSE {}
  <2> DEFINE read == {i \in Maintained(cf) : ~Unread(s[cf[i][2]])}
             on == {i \in read : s[cf[i][2]].word = "on"}
             known == {cf[i][1] : i \in read}
             ons == {cf[i][1] : i \in on}
             x == <<"maintenance", [known |-> known, on |-> ons]>>
  <2>1. c = IF read = {} THEN <<>> ELSE <<x>>
    BY DEF MaintenanceFeature
  <2>2. known \in SUBSET Maintenance /\ ons \in SUBSET Maintenance
    BY DEF Maintained
  <2>3. x[2] # NoValue /\ x[1] = "maintenance"
    BY <2>2, StatusAssumption
  <2>4. read # {} => Maintained(cf) # {}
    OBVIOUS
  <2> HIDE DEF c, x, read
  <2>5. CASE read = {}
    BY <2>1, <2>5, Short
  <2>6. CASE read # {}
    BY <2>1, <2>3, <2>4, <2>6, Short
  <2> QED
    BY <2>5, <2>6
<1>8. "maintenance" \notin Types(b)
  BY <1>6, ConfLists, NoMaintenanceType
<1> HIDE DEF a, b, c, v
<1>9. /\ IsList(b \o c) /\ Once(b \o c) /\ Members(b \o c) = Members(b) \cup Members(c)
  BY <1>4, <1>7, <1>8, Joined
<1>10. Types(b \o c) = Types(b) \cup Types(c)
  BY <1>9, TypesOfMembers
<1>11. Types(b \o c) \subseteq Types(DiscoverFeatures(cf))
  BY <1>6, <1>7, <1>10, Discovered
<1> QED
  BY <1>1, <1>5, <1>7, <1>9, <1>11

LEMMA OnceByMember ==
  ASSUME NEW s, Once(s)
  PROVE  \A x, y \in Members(s) : x[1] = y[1] => x = y
BY DEF Once, Members

\* The discovery answer names the values a report would name.
LEMMA AnswerIsReport ==
  ASSUME NEW cf \in Conf, NEW s
  PROVE  Members(Valued(Announced(cf, s))) = Members(ValueFeatures(cf, s))
<1> DEFINE v == ValueFeatures(cf, s)
           d == DiscoverFeatures(cf)
           same(i) == {j \in DOMAIN v : v[j][1] = d[i][1]}
           a == Announced(cf, s)
<1>1. /\ IsList(v) /\ Once(v) /\ \A j \in DOMAIN v : v[j][2] # NoValue
      /\ Types(v) \subseteq Types(d)
  BY Reported DEF Members
<1>2. /\ IsList(d) /\ \A i \in DOMAIN d : d[i][2] = NoValue
  BY Discovered DEF Members
<1>3. a = [i \in DOMAIN d |-> IF same(i) = {} THEN d[i] ELSE v[CHOOSE j \in same(i) : TRUE]]
  BY DEF Announced
<1>4. IsList(a)
  BY <1>2, <1>3, MappedList
<1>5. Members(Valued(a)) = {a[i] : i \in {k \in DOMAIN a : a[k][2] # NoValue}}
  BY <1>4, PlacedMembers DEF Valued
<1> HIDE DEF a, v, d
<1>6. ASSUME NEW i \in DOMAIN d, same(i) # {}
      PROVE  \E j \in same(i) : a[i] = v[j]
  BY <1>3, <1>6
<1>7. ASSUME NEW x \in Members(Valued(a)) PROVE x \in Members(v)
  <2>1. PICK i \in DOMAIN d : x = a[i] /\ a[i][2] # NoValue
    BY <1>3, <1>5
  <2>2. same(i) # {}
    BY <1>2, <1>3, <2>1
  <2> QED
    BY <1>6, <2>1, <2>2 DEF Members
<1>8. ASSUME NEW j \in DOMAIN v PROVE v[j] \in Members(Valued(a))
  <2>1. PICK i \in DOMAIN d : d[i][1] = v[j][1]
    BY <1>1 DEF Types
  <2>2. j \in same(i)
    BY <2>1
  <2>3. PICK k \in same(i) : a[i] = v[k]
    BY <1>6, <2>2
  <2>4. k = j
    BY <1>1, <2>1, <2>3 DEF Once
  <2> QED
    BY <1>1, <1>3, <1>5, <2>3, <2>4
<1> QED
  BY <1>7, <1>8 DEF Members, a, v

-----------------------------------------------------------------------------
(* The reports *)

Knows(features) ==
  \A t \in Types(features) : t \in DOMAIN hcuValue /\ hcuValue[t] = ValueOf(t, features)

Now == ValueFeatures(conf, states)

\* The states are those of the configured entities.
StatesOK ==
  /\ conf \in Conf
  /\ DOMAIN states = {conf[i][2] : i \in DOMAIN conf}
  /\ states = [e \in DOMAIN states |-> states[e]]

FlagsOK ==
  /\ discovered \in BOOLEAN /\ recent \in BOOLEAN /\ received \in BOOLEAN /\ fresh \in BOOLEAN
  /\ socket \in {"up", "dying", "down"}
  /\ fresh \/ lastSent # <<>> => discovered
  /\ recent => lastSent # <<>>

\* What was noted as sent is what there is to report, unless there is nothing;
\* and it reached the HCU, unless it was noted without a connection.
NotedOK ==
  /\ lastSent # <<>> => Now \in {lastSent, <<>>}
  /\ received /\ lastSent # <<>> => Knows(lastSent)
  /\ fresh /\ lastSent = <<>> => Knows(Now)
  /\ Once(lastSent)
  /\ DOMAIN hcuValue \subseteq Types(DiscoverFeatures(conf))

ReportInv == StatesOK /\ FlagsOK /\ NotedOK

\* What the HCU is told it knows, and nothing else changes.
LEMMA Merged ==
  ASSUME NEW features, hcuValue' = Merge(features)
  PROVE  /\ DOMAIN hcuValue' = DOMAIN hcuValue \cup Types(features)
         /\ \A t \in Types(features) : hcuValue'[t] = ValueOf(t, features)
         /\ \A t \in DOMAIN hcuValue \ Types(features) : hcuValue'[t] = hcuValue[t]
BY DEF Merge

LEMMA NothingToKnow == Types(<<>>) = {} /\ Once(<<>>)
BY Short

LEMMA EmptyList ==
  ASSUME NEW s, IsList(s), Types(s) = {}
  PROVE  s = <<>>
<1>1. s # <<>> => Len(s) \in Nat \ {0}
  BY EmptySeq DEF IsList
<1>2. Len(s) \in Nat /\ DOMAIN s = 1 .. Len(s)
  BY ListFacts
<1>3. 1 \in DOMAIN s => s[1][1] \in Types(s)
  BY DEF Types
<1> QED
  BY <1>1, <1>2, <1>3

LEMMA SendKeeps ==
  ASSUME ReportInv, NEW s, SendStatusEvent(s), states' = s, StatesOK',
         conf' = conf, discovered' = discovered, fresh' = fresh, socket' = socket
  PROVE  ReportInv'
<1> DEFINE v == ValueFeatures(conf, s)
<1>1. Now' = v
  BY DEF Now
<1>2. conf \in Conf /\ FlagsOK /\ NotedOK
  BY DEF ReportInv, StatesOK
<1>3. Once(v) /\ Types(v) \subseteq Types(DiscoverFeatures(conf))
  BY <1>2, Reported
<1>4. CASE Skipped(v)
  <2>1. UNCHANGED <<lastSent, recent, hcuValue, received>>
    BY <1>4 DEF SendStatusEvent, reportVars
  <2>2. FlagsOK'
    BY <1>2, <2>1 DEF FlagsOK
  <2>3. ~discovered \/ v = <<>> \/ v = lastSent
    BY <1>4 DEF Skipped, Repeats
  <2> HIDE DEF v
  <2>4. lastSent # <<>> => v \in {lastSent, <<>>}
    BY <1>2, <2>3 DEF FlagsOK
  <2>5. fresh /\ lastSent = <<>> => Knows(Now)'
    <3> SUFFICES ASSUME fresh, lastSent = <<>> PROVE Knows(Now)'
      OBVIOUS
    <3>1. Now' = <<>>
      BY <1>1, <1>2, <2>3 DEF FlagsOK
    <3>2. Types(Now)' = {}
      BY <3>1, NothingToKnow DEF Types
    <3> QED
      BY <3>2 DEF Knows
  <2>6. Knows(lastSent) => Knows(lastSent)'
    BY <2>1 DEF Knows
  <2>7. NotedOK'
    BY <1>1, <1>2, <2>1, <2>4, <2>5, <2>6 DEF NotedOK
  <2> QED
    BY <2>2, <2>7 DEF ReportInv
<1>5. CASE ~Skipped(v)
  <2>1. /\ lastSent' = v /\ recent' = TRUE /\ received' = (socket = "up")
        /\ hcuValue' = IF socket = "up" THEN Merge(v) ELSE hcuValue
    BY <1>5 DEF SendStatusEvent
  <2>2. discovered /\ v # <<>>
    BY <1>5 DEF Skipped
  <2> HIDE DEF v
  <2>3. FlagsOK'
    <3>1. (socket = "up") \in BOOLEAN
      BY Zenon
    <3> QED
      BY <1>2, <2>1, <2>2, <3>1 DEF FlagsOK
  <2>4. CASE socket = "up"
    <3>1. DOMAIN hcuValue' = DOMAIN hcuValue \cup Types(v)
          /\ \A t \in Types(v) : hcuValue'[t] = ValueOf(t, v)
      BY <2>1, <2>4, Merged
    <3>2. Knows(lastSent)'
      BY <2>1, <3>1 DEF Knows
    <3>3. NotedOK'
      BY <1>1, <1>2, <1>3, <2>1, <2>2, <3>1, <3>2 DEF NotedOK
    <3> QED
      BY <2>3, <3>3 DEF ReportInv
  <2>5. CASE socket # "up"
    <3>1. received' = FALSE /\ hcuValue' = hcuValue
      BY <2>1, <2>5
    <3> QED
      BY <1>1, <1>2, <1>3, <2>1, <2>2, <2>3, <3>1 DEF ReportInv, NotedOK
  <2> QED
    BY <2>4, <2>5
<1> QED
  BY <1>4, <1>5

\* A step that reports nothing.
LEMMA QuietKeeps ==
  ASSUME ReportInv, UNCHANGED <<conf, states, discovered, lastSent, hcuValue, received>>,
         fresh' \in BOOLEAN, fresh' => fresh, recent' \in BOOLEAN, recent' => recent,
         socket' \in {"up", "dying", "down"}
  PROVE  ReportInv'
<1>1. StatesOK' /\ FlagsOK'
  BY DEF ReportInv, StatesOK, FlagsOK
<1>2. NotedOK'
  BY DEF ReportInv, NotedOK, Knows, Now
<1> QED
  BY <1>1, <1>2 DEF ReportInv

\* An answer tells the HCU what a report would tell it.
LEMMA AnswerKeeps ==
  ASSUME ReportInv, NEW features, Answers(features), Members(features) = Members(Now),
         IsList(features), UNCHANGED <<conf, states, lastSent, recent>>,
         discovered' \in BOOLEAN, fresh' \in BOOLEAN, discovered => discovered',
         fresh' => discovered', socket' = socket
  PROVE  ReportInv'
<1>1. conf \in Conf /\ FlagsOK /\ NotedOK
  BY DEF ReportInv, StatesOK
<1>2. Once(Now) /\ Types(Now) \subseteq Types(DiscoverFeatures(conf))
  BY <1>1, Reported DEF Now
<1>3. Types(features) = Types(Now)
  BY TypesOfMembers
<1>4. ASSUME NEW t \in Types(Now) PROVE ValueOf(t, features) = ValueOf(t, Now)
  <2>1. PICK x \in Members(Now) : x[1] = t
    BY <1>4, TypesOfMembers
  <2>2. \A y, z \in Members(Now) : y[1] = z[1] => y = z
    BY <1>2, OnceByMember
  <2> QED
    BY <2>1, <2>2, ValueOfMember
<1>5. /\ DOMAIN hcuValue' = DOMAIN hcuValue \cup Types(Now)
      /\ \A t \in Types(Now) : hcuValue'[t] = ValueOf(t, Now)
      /\ \A t \in DOMAIN hcuValue \ Types(Now) : hcuValue'[t] = hcuValue[t]
  <2>1. hcuValue' = Merge(features)
    BY DEF Answers
  <2> QED
    BY <1>3, <1>4, <2>1, Merged
<1>6. Now' = Now
  BY DEF Now
<1>7. Knows(Now)'
  BY <1>5, <1>6 DEF Knows
<1>8. received' = (received \/ features # <<>>)
  BY DEF Answers
<1>9. features # <<>> => Now # <<>>
  BY <1>3, NothingToKnow, EmptyList
<1>10. StatesOK' /\ FlagsOK'
  <2>1. received' \in BOOLEAN
    BY <1>8, Zenon
  <2> QED
    BY <1>1, <2>1 DEF ReportInv, StatesOK, FlagsOK
<1>11. received' /\ lastSent # <<>> => Knows(lastSent)'
  <2> SUFFICES ASSUME received', lastSent # <<>> PROVE Knows(lastSent)'
    OBVIOUS
  <2>1. CASE Now = lastSent
    BY <1>6, <1>7, <2>1 DEF Knows
  <2>2. CASE Now = <<>>
    <3>1. Types(Now) = {}
      BY <2>2, NothingToKnow
    <3>2. features = <<>>
      BY <1>9, <2>2
    <3>3. received
      BY <1>1, <1>8, <3>2 DEF FlagsOK
    <3> QED
      BY <1>1, <1>5, <3>1, <3>3 DEF NotedOK, Knows
  <2> QED
    BY <1>1, <2>1, <2>2 DEF NotedOK
<1>12. NotedOK'
  BY <1>1, <1>2, <1>5, <1>6, <1>7, <1>11 DEF NotedOK, Knows
<1> QED
  BY <1>10, <1>12 DEF ReportInv

LEMMA AnswerLists ==
  ASSUME NEW cf \in Conf, NEW s
  PROVE  IsList(ValueFeatures(cf, s)) /\ IsList(Valued(Announced(cf, s)))
<1>1. IsList(Announced(cf, s))
  BY Discovered, MappedList DEF Announced
<1> QED
  BY <1>1, Reported, PlacedMembers DEF Valued

LEMMA ReportStart == StatusInit => ReportInv
<1> SUFFICES ASSUME StatusInit PROVE ReportInv
  OBVIOUS
<1>1. conf \in Conf /\ DOMAIN states = {conf[i][2] : i \in DOMAIN conf}
      /\ states = [e \in DOMAIN states |-> states[e]]
  BY DEF StatusInit
<1>2. lastSent = <<>> /\ discovered = FALSE /\ recent = FALSE /\ socket = "down"
      /\ fresh = FALSE /\ received = TRUE /\ DOMAIN hcuValue = {}
  BY DEF StatusInit
<1>3. NotedOK
  BY <1>2, NothingToKnow DEF NotedOK
<1> QED
  BY <1>1, <1>2, <1>3 DEF ReportInv, StatesOK, FlagsOK

\* An entity that takes a state is reported unless it has it already.
LEMMA TakesKeeps ==
  ASSUME ReportInv, NEW e \in DOMAIN states, NEW s, Takes(e, s),
         conf' = conf, discovered' = discovered, fresh' = fresh, socket' = socket
  PROVE  ReportInv'
<1>1. StatesOK /\ states' = [states EXCEPT ![e] = s]
  BY DEF ReportInv, Takes
<1>2. StatesOK'
  BY <1>1 DEF StatesOK
<1>3. CASE s = states[e]
  <2>1. states' = states /\ UNCHANGED reportVars
    BY <1>1, <1>3 DEF StatesOK, Takes
  <2>2. FlagsOK
    BY DEF ReportInv
  <2> QED
    BY <2>1, <2>2, QuietKeeps DEF reportVars, FlagsOK
<1>4. CASE s # states[e]
  <2>1. SendStatusEvent(states')
    BY <1>4 DEF Takes
  <2> QED
    BY <1>2, <2>1, SendKeeps
<1> QED
  BY <1>3, <1>4

LEMMA ReportStep ==
  ASSUME ReportInv, [StatusNext]_statusVars
  PROVE  ReportInv'
<1>1. StatesOK /\ FlagsOK /\ conf \in Conf
  BY DEF ReportInv, StatesOK
<1>2. \A keys : EntitiesOf(conf, keys) \subseteq DOMAIN states
  BY <1>1 DEF EntitiesOf, StatesOK
<1>3. \A f : Targets(f) \subseteq DOMAIN states
  BY <1>2 DEF Targets
<1>4. CASE StateChanged
  BY <1>4, TakesKeeps DEF StateChanged
<1>5. CASE AutoOff
  <2>1. PICK e \in EntitiesOf(conf, {"on_off"}) :
          IF Unread(states[e]) \/ states[e] = Off
            THEN UNCHANGED <<states, reportVars>>
            ELSE states' = [states EXCEPT ![e] = Off] /\ SendStatusEvent(states')
    BY <1>5 DEF AutoOff
  <2>2. UNCHANGED <<conf, discovered, socket, fresh>>
    BY <1>5 DEF AutoOff
  <2>3. CASE Unread(states[e]) \/ states[e] = Off
    BY <1>1, <2>1, <2>2, <2>3, QuietKeeps DEF reportVars, FlagsOK
  <2>4. CASE ~(Unread(states[e]) \/ states[e] = Off)
    <3>1. states' = [states EXCEPT ![e] = Off] /\ SendStatusEvent(states')
      BY <2>1, <2>4
    <3>2. StatesOK'
      BY <1>1, <2>2, <3>1 DEF StatesOK
    <3> QED
      BY <2>2, <3>1, <3>2, SendKeeps
  <2> QED
    BY <2>3, <2>4
<1>6. CASE OrderComes \/ PassOver \/ CallService \/ FeatureDone \/ FeatureFails \/ Forget
  <2>1. UNCHANGED bridgedVars
    BY <1>6 DEF OrderComes, PassOver, CallService, FeatureDone, FeatureFails, Forget
  <2> QED
    BY <1>1, <2>1, QuietKeeps DEF bridgedVars, reportVars, FlagsOK
<1>7. CASE ServiceDone
  <2>1. PICK e \in Targets(order[step]) :
       IF Unread(states[e])
         THEN undisturbed' = FALSE /\ UNCHANGED <<states, reportVars, autoOff>>
         ELSE Takes(e, After(order[step], e)) /\ UNCHANGED undisturbed
    BY <1>7 DEF ServiceDone
  <2>2. UNCHANGED <<conf, discovered, socket, fresh>> /\ e \in DOMAIN states
    BY <1>3, <1>7, <2>1 DEF ServiceDone
  <2>3. CASE Unread(states[e])
    BY <1>1, <2>1, <2>2, <2>3, QuietKeeps DEF reportVars, FlagsOK
  <2>4. CASE ~Unread(states[e])
    BY <2>1, <2>2, <2>4, TakesKeeps
  <2> QED
    BY <2>3, <2>4
<1>8. CASE Respond \/ Included
  <2>1. UNCHANGED <<conf, states, discovered, socket, fresh>>
        /\ (UNCHANGED reportVars \/ SendStatusEvent(states))
    BY <1>8 DEF Respond, Included, controlVars
  <2>2. StatesOK'
    BY <1>1, <2>1 DEF StatesOK
  <2>3. CASE UNCHANGED reportVars
    BY <1>1, <2>1, <2>3, QuietKeeps DEF reportVars, FlagsOK
  <2>4. CASE SendStatusEvent(states)
    BY <2>1, <2>2, <2>4, SendKeeps
  <2> QED
    BY <2>1, <2>3, <2>4
<1>9. CASE StatusRequest
  <2>1. Answers(Now) /\ UNCHANGED <<conf, states, discovered, lastSent, recent, socket, fresh>>
    BY <1>9 DEF StatusRequest, Now, controlVars
  <2>2. IsList(Now)
    BY <1>1, AnswerLists DEF Now
  <2> QED
    BY <1>1, <2>1, <2>2, AnswerKeeps DEF FlagsOK
<1>10. CASE ThrottleExpires
  BY <1>1, <1>10, QuietKeeps DEF ThrottleExpires, controlVars, FlagsOK
<1>11. CASE DiscoverRequest \/ DiscoverRequestLate
  <2>1. discovered' = TRUE /\ UNCHANGED <<conf, states, lastSent, recent, socket>>
    BY <1>11 DEF DiscoverRequest, DiscoverRequestLate, SendDiscoverResponse, controlVars
  <2>2. CASE socket = "up"
    <3>1. fresh' = TRUE /\ Answers(Valued(Announced(conf, states)))
      BY <1>11, <2>2 DEF DiscoverRequest, DiscoverRequestLate, SendDiscoverResponse
    <3>2. /\ IsList(Valued(Announced(conf, states)))
          /\ Members(Valued(Announced(conf, states))) = Members(Now)
      BY <1>1, AnswerLists, AnswerIsReport DEF Now
    <3> QED
      BY <2>1, <3>1, <3>2, AnswerKeeps
  <2>3. CASE socket # "up"
    <3>1. UNCHANGED <<fresh, hcuValue, received>>
      BY <1>11, <2>3 DEF DiscoverRequest, DiscoverRequestLate, SendDiscoverResponse
    <3> QED
      BY <1>1, <2>1, <3>1 DEF ReportInv, StatesOK, FlagsOK, NotedOK, Knows, Now
  <2> QED
    BY <2>2, <2>3
<1>12. CASE SocketDies
  BY <1>1, <1>12, QuietKeeps DEF SocketDies, controlVars, reportVars, FlagsOK
<1>14. CASE SocketClosed
  BY <1>1, <1>14, QuietKeeps DEF SocketClosed, controlVars, reportVars, FlagsOK
<1>15. CASE Connect
  BY <1>1, <1>15, QuietKeeps DEF Connect, controlVars, reportVars, FlagsOK
<1>13. CASE UNCHANGED statusVars
  BY <1>1, <1>13, QuietKeeps DEF statusVars, bridgedVars, reportVars, FlagsOK
<1> QED
  BY <1>4, <1>5, <1>6, <1>7, <1>8, <1>9, <1>10, <1>11, <1>12, <1>13, <1>14, <1>15 DEF StatusNext

LEMMA ReportInvAlways == StatusSpec => []ReportInv
BY ReportStart, ReportStep, PTL DEF StatusSpec

\* For every configuration, set of states and request: once the HCU discovered a
\* device on this connection it holds the current value of every feature that has
\* one, unless a report was noted without a connection and no answer came since.
THEOREM HcuStaysUpToDate == StatusSpec => []HcuUpToDate
<1>1. ReportInv => HcuUpToDate
  <2> SUFFICES ASSUME ReportInv, fresh, received PROVE HcuKnows
    BY DEF HcuUpToDate
  <2>1. Knows(Now) => HcuKnows
    BY DEF Knows, HcuKnows, Now
  <2>2. lastSent # <<>> => (Knows(lastSent) /\ Now \in {lastSent, <<>>})
    BY DEF ReportInv, NotedOK
  <2>3. lastSent = <<>> => Knows(Now)
    BY DEF ReportInv, NotedOK
  <2>4. Now = <<>> => Knows(Now)
    BY NothingToKnow DEF Knows
  <2> QED
    BY <2>1, <2>2, <2>3, <2>4
<1> QED
  BY <1>1, ReportInvAlways, PTL

-----------------------------------------------------------------------------
(* The control requests *)

\* An entity is in a state it can have, or in one that a service left it in.
EntitiesOK ==
  \A e \in DOMAIN states : /\ DOMAIN states[e] = Attribute
                           /\ states[e] \in Readings[e] \/ states[e].word \in {"on", "off"}

\* A call is made for a feature of the request, and nothing is done for none.
HandlingOK ==
  /\ order \in Orders \cup {<<>>}
  /\ step \in 1..(Len(order) + 2)
  /\ calling \in {"no", "called", "acted"}
  /\ calling # "no" => Handling

HandlingInv == EntitiesOK /\ HandlingOK

LEMMA HandlingStart == StatusInit => HandlingInv
<1> SUFFICES ASSUME StatusInit PROVE HandlingInv
  OBVIOUS
<1>1. HandlingOK
  BY EmptySeq DEF StatusInit, HandlingOK
<1>2. conf \in Seq(Keys \X DOMAIN Readings) /\ DOMAIN states = {conf[i][2] : i \in DOMAIN conf}
  BY StatusAssumption DEF StatusInit
<1>3. \A i \in DOMAIN conf : conf[i] \in Keys \X DOMAIN Readings
  BY <1>2
<1>4. DOMAIN states \subseteq DOMAIN Readings
  BY <1>2, <1>3
<1>5. EntitiesOK
  BY <1>4, StatusAssumption DEF StatusInit, EntitiesOK
<1> QED
  BY <1>1, <1>5 DEF HandlingInv

\* A service leaves what it acts on on or off.
LEMMA ServiceSwitches ==
  ASSUME EntitiesOK, NEW f, NEW e \in Targets(f), e \in DOMAIN states
  PROVE  DOMAIN After(f, e) = Attribute /\ After(f, e).word \in {"on", "off"}
<1>1. DOMAIN Off = Attribute /\ Off.word = "off"
  BY DEF Off, Attribute
<1>2. DOMAIN Lit(e) = Attribute /\ Lit(e).word = "on"
  BY StatusAssumption DEF Lit, Off, Attribute, EntitiesOK
<1>3. f.type \in {"switchState", "dimming", "colorTemperature"}
  BY DEF Targets
<1>4. CASE f.type = "switchState"
  BY <1>1, <1>2, <1>4 DEF After
<1>5. CASE f.type = "dimming"
  BY <1>1, <1>2, <1>5 DEF After, Attribute
<1>6. CASE f.type = "colorTemperature"
  BY <1>1, <1>2, <1>6 DEF After, Attribute
<1> QED
  BY <1>3, <1>4, <1>5, <1>6

\* Whatever an entity is made of is a state it can have.
LEMMA EntityChanges ==
  ASSUME EntitiesOK, NEW e, NEW s, DOMAIN s = Attribute,
         s \in Readings[e] \/ s.word \in {"on", "off"},
         states' = [states EXCEPT ![e] = s]
  PROVE  EntitiesOK'
BY DEF EntitiesOK

LEMMA HandlingStep ==
  ASSUME ReportInv, HandlingInv, [StatusNext]_statusVars
  PROVE  HandlingInv'
<1>1. StatesOK /\ EntitiesOK /\ HandlingOK
  BY DEF HandlingInv, ReportInv
<1>2. \A keys : EntitiesOf(conf, keys) \subseteq DOMAIN states
  BY <1>1 DEF EntitiesOf, StatesOK
<1>3. \A f : Targets(f) \subseteq DOMAIN states
  BY <1>2 DEF Targets
<1>4. DOMAIN states \subseteq DOMAIN Readings
  <2>1. conf \in Seq(Keys \X DOMAIN Readings) /\ DOMAIN states = {conf[i][2] : i \in DOMAIN conf}
    BY <1>1, StatusAssumption DEF StatesOK
  <2>2. \A i \in DOMAIN conf : conf[i] \in Keys \X DOMAIN Readings
    BY <2>1
  <2> QED
    BY <2>1, <2>2
<1>5. \A o \in Orders \cup {<<>>} : Len(o) \in Nat
  BY OrderAssumption, EmptySeq
<1>6. Len(order) \in Nat /\ step \in Int
  BY <1>1, <1>5 DEF HandlingOK
<1>7. DOMAIN Off = Attribute /\ Off.word = "off"
  BY DEF Off, Attribute
<1>8. CASE StateChanged
  <2>1. PICK e \in DOMAIN states : \E s \in Readings[e] : Takes(e, s)
    BY <1>8 DEF StateChanged
  <2>2. EntitiesOK'
    BY <1>1, <1>4, <2>1, EntityChanges, StatusAssumption DEF Takes
  <2> QED
    BY <1>1, <1>8, <2>2 DEF StateChanged, orderVars, HandlingInv, HandlingOK, Handling
<1>9. CASE AutoOff
  <2>1. states' = states \/ \E e : states' = [states EXCEPT ![e] = Off]
    BY <1>9 DEF AutoOff
  <2>2. EntitiesOK'
    BY <1>1, <1>7, <2>1, EntityChanges DEF EntitiesOK
  <2> QED
    BY <1>1, <1>9, <2>2 DEF AutoOff, orderVars, HandlingInv, HandlingOK, Handling
<1>10. CASE OrderComes
  <2>1. order' \in Orders /\ step' = 1 /\ calling' = "no" /\ states' = states
    BY <1>10 DEF OrderComes, bridgedVars
  <2>2. Len(order') \in Nat
    BY <1>5, <2>1
  <2> QED
    BY <1>1, <2>1, <2>2 DEF HandlingInv, HandlingOK, EntitiesOK
<1>11. CASE PassOver
  BY <1>1, <1>6, <1>11 DEF PassOver, bridgedVars, HandlingInv, HandlingOK, Handling, EntitiesOK
<1>12. CASE CallService
  BY <1>1, <1>6, <1>12 DEF CallService, bridgedVars, HandlingInv, HandlingOK, Handling, EntitiesOK
<1>13. CASE ServiceDone
  <2>1. UNCHANGED <<order, step>> /\ calling' = "acted" /\ calling = "called"
    BY <1>13 DEF ServiceDone
  <2>2. PICK e \in Targets(order[step]) :
          states' = states \/ states' = [states EXCEPT ![e] = After(order[step], e)]
    BY <1>13 DEF ServiceDone, Takes
  <2>3. EntitiesOK'
    BY <1>1, <1>3, <2>2, ServiceSwitches, EntityChanges DEF EntitiesOK
  <2> QED
    BY <1>1, <2>1, <2>3 DEF HandlingInv, HandlingOK, Handling
<1>14. CASE FeatureDone
  BY <1>1, <1>6, <1>14 DEF FeatureDone, bridgedVars, HandlingInv, HandlingOK, Handling, EntitiesOK
<1>15. CASE FeatureFails
  BY <1>1, <1>6, <1>15 DEF FeatureFails, bridgedVars, HandlingInv, HandlingOK, Handling, EntitiesOK
<1>16. CASE Respond
  BY <1>1, <1>6, <1>16 DEF Respond, HandlingInv, HandlingOK, Handling, EntitiesOK
<1>17. CASE Forget
  <2>1. calling = "no"
    BY <1>1, <1>6, <1>17 DEF Forget, Answered, HandlingOK, Handling
  <2>2. order' = <<>> /\ step' = 1 /\ calling' = "no" /\ states' = states
    BY <1>17, <2>1 DEF Forget, bridgedVars
  <2> QED
    BY <1>1, <1>5, <2>2 DEF HandlingInv, HandlingOK, EntitiesOK
<1>18. CASE \/ Included \/ StatusRequest \/ ThrottleExpires \/ DiscoverRequest
            \/ DiscoverRequestLate \/ SocketDies \/ SocketClosed \/ Connect
            \/ UNCHANGED statusVars
  <2>1. UNCHANGED <<states, order, step, calling>>
    BY <1>18 DEF Included, StatusRequest, ThrottleExpires, DiscoverRequest, DiscoverRequestLate,
                 SendDiscoverResponse, SocketDies, SocketClosed, Connect, controlVars,
                 orderVars, statusVars, bridgedVars
  <2> QED
    BY <1>1, <2>1 DEF HandlingInv, HandlingOK, Handling, EntitiesOK
<1> QED
  BY <1>8, <1>9, <1>10, <1>11, <1>12, <1>13, <1>14, <1>15, <1>16, <1>17, <1>18 DEF StatusNext

\* Only a discovered device is reported, what is reported names each feature type
\* once and only types that are announced, and a service call belongs to a feature
\* of the request, for every configuration and request.
THEOREM StatusTypes == StatusSpec => []StatusTypeOK
<1>1. ReportInv /\ HandlingInv => StatusTypeOK
  BY DEF ReportInv, HandlingInv, StatesOK, FlagsOK, NotedOK, EntitiesOK, HandlingOK, Once,
         StatusTypeOK
<1> QED
  BY <1>1, ReportInvAlways, HandlingStart, HandlingStep, PTL DEF StatusSpec

-----------------------------------------------------------------------------
(* What a control request leaves behind *)

LightKeys == {"on_off", "brightness", "color_temp"}

\* A brightness that was cut off is reported less than one step below the level.
LEMMA Levels ==
  ASSUME NEW level \in Nat, level >= 40
  PROVE  /\ level \in Int /\ Brightness(level) \in Int /\ Brightness(level) # 0
         /\ Level(Brightness(level)) \in Int
         /\ Level(Brightness(level)) <= level /\ level - Level(Brightness(level)) < 40
<1>1. level \in Int /\ level >= 40
  OBVIOUS
<1>2. PICK b \in Int : b = Brightness(level)
  BY <1>1 DEF Brightness
<1>3. 10000 * b <= level * 255 /\ level * 255 < 10000 * b + 10000
  BY <1>1, <1>2 DEF Brightness
<1>4. PICK l \in Int : l = Level(b)
  BY <1>2 DEF Level
<1>5. 510 * l <= b * 20000 + 255 /\ b * 20000 + 255 < 510 * l + 510
  BY <1>2, <1>4 DEF Level
<1>6. b # 0 /\ l <= level /\ level - l < 40
  BY <1>1, <1>2, <1>3, <1>4, <1>5
<1> QED
  BY <1>1, <1>2, <1>4, <1>6

\* The plain keys of a device are its keys that are no maintenance.
LEMMA PlainMembers ==
  ASSUME NEW cf \in Conf
  PROVE  Members(PlainKeys(cf)) = {cf[i] : i \in DOMAIN cf \ Maintained(cf)}
BY ConfLists, PlacedMembers DEF PlainKeys

LEMMA OwnType ==
  ASSUME NEW k \in Keys, NEW key \in LightKeys
  PROVE  TypeOf(k) = key <=> k = key
BY DEF TypeOf, Presence, Contacts, LightKeys

\* What is reported of a light is what its state says.
LEMMA LightReported ==
  ASSUME NEW cf \in Conf, NEW s, NEW e, EntitiesOf(cf, LightKeys) = {e}, NEW key \in LightKeys,
         EntitiesOf(cf, {key}) # {}, FeatureValue(key, s[e]) # NoValue
  PROVE  /\ key \in Types(ValueFeatures(cf, s))
         /\ ValueOf(key, ValueFeatures(cf, s)) = FeatureValue(key, s[e])
<1> DEFINE a == PlainValues(cf, s)
           v == Valued(PlainValues(cf, s))
           b == OnePerType(Valued(PlainValues(cf, s)))
           c == MaintenanceFeature(cf, s)
           all == ValueFeatures(cf, s)
<1>1. all = b \o c
  BY DEF ValueFeatures, PlainValues
<1>2. IsList(a)
  BY ConfLists, MappedList DEF PlainValues
<1>3. IsList(v) /\ Members(v) = {a[i] : i \in {j \in DOMAIN a : a[j][2] # NoValue}}
  BY <1>2, PlacedMembers DEF Valued
<1>4. IsList(b) /\ Members(b) \subseteq Members(v) /\ Types(b) = Types(v)
  BY <1>3, OneOfEach
<1>5. IsList(c) /\ \A x \in Members(c) : x[1] = "maintenance"
  <2> DEFINE read == {i \in Maintained(cf) : ~Unread(s[cf[i][2]])}
             on == {i \in read : s[cf[i][2]].word = "on"}
             x == <<"maintenance", [known |-> {cf[i][1] : i \in read},
                                    on |-> {cf[i][1] : i \in on}]>>
  <2>1. c = IF read = {} THEN <<>> ELSE <<x>>
    BY DEF MaintenanceFeature
  <2>2. x[1] = "maintenance"
    OBVIOUS
  <2> HIDE DEF c, x, read
  <2>3. CASE read = {}
    BY <2>1, <2>3, Short
  <2>4. CASE read # {}
    BY <2>1, <2>2, <2>4, Short
  <2> QED
    BY <2>3, <2>4
<1>6. cf \in Seq(Keys \X DOMAIN Readings) /\ \A i \in DOMAIN cf : cf[i][1] \in Keys
  <2>1. cf \in Seq(Keys \X DOMAIN Readings)
    BY StatusAssumption
  <2>2. \A i \in DOMAIN cf : cf[i] \in Keys \X DOMAIN Readings
    BY <2>1
  <2> QED
    BY <2>1, <2>2
<1>7. \A i \in DOMAIN cf : cf[i][1] = key => cf[i][2] = e
  BY DEF EntitiesOf
<1>8. /\ \A i \in DOMAIN a : i \in DOMAIN PlainKeys(cf)
                              /\ a[i] = <<TypeOf(PlainKeys(cf)[i][1]),
                                          FeatureValue(PlainKeys(cf)[i][1], s[PlainKeys(cf)[i][2]])>>
      /\ DOMAIN a = DOMAIN PlainKeys(cf)
  BY DEF PlainValues
<1>9. \E x \in Members(v) : x[1] = key
  <2>1. PICK i \in DOMAIN cf : cf[i][1] = key
    BY DEF EntitiesOf
  <2>2. i \notin Maintained(cf)
    BY <2>1 DEF Maintained, Maintenance, LightKeys
  <2>3. cf[i] \in Members(PlainKeys(cf))
    BY <2>2, PlainMembers
  <2>4. PICK j \in DOMAIN PlainKeys(cf) : PlainKeys(cf)[j] = cf[i]
    BY <2>3 DEF Members
  <2>5. TypeOf(key) = key
    BY <1>6, <2>1, OwnType
  <2>6. a[j] = <<key, FeatureValue(key, s[e])>> /\ j \in DOMAIN a
    BY <1>7, <1>8, <2>1, <2>4, <2>5
  <2> HIDE DEF a, v
  <2>7. a[j][1] = key /\ a[j][2] # NoValue
    BY <2>6
  <2>8. a[j] \in Members(v)
    BY <1>3, <2>6, <2>7
  <2> QED
    BY <2>7, <2>8
<1>10. ASSUME NEW x \in Members(b), x[1] = key PROVE x[2] = FeatureValue(key, s[e])
  <2> HIDE DEF a, v, b
  <2>1. PICK i \in DOMAIN a : x = a[i]
    BY <1>3, <1>4
  <2>2. PlainKeys(cf)[i] \in Members(PlainKeys(cf))
    BY <1>8 DEF Members
  <2>3. PICK j \in DOMAIN cf : PlainKeys(cf)[i] = cf[j]
    BY <2>2, PlainMembers
  <2>4. TypeOf(cf[j][1]) = key
    BY <1>8, <1>10, <2>1, <2>3
  <2>5. cf[j][1] = key /\ cf[j][2] = e
    BY <1>6, <1>7, <2>4, OwnType
  <2> QED
    BY <1>8, <2>1, <2>3, <2>5
<1> HIDE DEF a, v, b, c
<1>11. "maintenance" \notin LightKeys
  BY DEF LightKeys
<1>12. key \in Types(b)
  BY <1>4, <1>9, TypesOfMembers
<1>13. Members(b \o c) = Members(b) \cup Members(c)
  BY <1>4, <1>5, Joined
<1>14. PICK y \in Members(b \o c) : y[1] = key
  BY <1>12, <1>13, TypesOfMembers
<1>15. y[2] = FeatureValue(key, s[e])
  BY <1>5, <1>10, <1>11, <1>13, <1>14
<1>16. \A x, z \in Members(all) : x[1] = z[1] => x = z
  BY Reported, OnceByMember
<1>17. y \in Members(all)
  BY <1>1, <1>14
<1> HIDE DEF all
<1>18. ValueOf(y[1], all) = y[2] /\ y[1] \in Types(all)
  BY <1>16, <1>17, ValueOfMember, TypesOfMembers
<1> QED
  BY <1>14, <1>15, <1>18 DEF all

\* The members of b come behind those of a.
Appends(a, b) ==
  /\ Len(a \o b) = Len(a) + Len(b)
  /\ \A i \in 1 .. Len(a) : (a \o b)[i] = a[i]
  /\ \A i \in 1 .. Len(b) : (a \o b)[Len(a) + i] = b[i]

LEMMA Following ==
  ASSUME NEW a, NEW b, IsList(a), IsList(b)
  PROVE  Appends(a, b)
<1> DEFINE S == Members(a) \cup Members(b)
           q == a \o b
           m == Len(a)
           n == Len(b)
<1>1. a \in Seq(S) /\ b \in Seq(S)
  BY SeqMonotonic DEF IsList
<1>2. m \in Nat /\ n \in Nat
  BY ListFacts
<1>3. Len(q) = m + n /\ \A i \in 1 .. m + n : q[i] = IF i <= m THEN a[i] ELSE b[i - m]
  BY <1>1, ConcatProperties
<1> HIDE DEF q, m, n
<1>4. \A i \in 1 .. m : q[i] = a[i]
  BY <1>2, <1>3
<1>5. ASSUME NEW i \in 1 .. n PROVE q[m + i] = b[i]
  <2>1. m + i \in 1 .. m + n /\ ~(m + i <= m) /\ (m + i) - m = i
    BY <1>2
  <2> QED
    BY <1>3, <2>1
<1> QED
  BY <1>3, <1>4, <1>5 DEF q, m, n, Appends

\* The first member at some places is the one at the least of them.
LEMMA FirstPlaced ==
  ASSUME NEW m \in Nat, NEW places \in SUBSET (1 .. m), NEW seq,
         NEW k \in places, \A j \in places : ~(j < k)
  PROVE  AtPlaces(seq, places) # <<>> /\ Head(AtPlaces(seq, places)) = seq[k]
<1> DEFINE n == Cardinality(places)
           upTo(i) == {j \in places : j <= i}
           q == AtPlaces(seq, places)
<1>1. IsFiniteSet(places) /\ n \in Nat
  <2>1. IsFiniteSet(1 .. m)
    BY FS_Interval
  <2>2. IsFiniteSet(places)
    BY <2>1, FS_Subset
  <2> QED
    BY <2>2, FS_CardinalityType
<1>0. \A i \in places : i \in Int
  OBVIOUS
<1>2. upTo(k) = {k}
  <2>1. \A j \in upTo(k) : j = k
    BY <1>0
  <2>2. k \in upTo(k)
    BY <1>0
  <2> HIDE DEF upTo
  <2> QED
    BY <2>1, <2>2
<1>3. Cardinality(upTo(k)) = 1
  BY <1>2, FS_Singleton
<1>4. ASSUME NEW i \in places, Cardinality(upTo(i)) = 1 PROVE i = k
  <2>1. k \in upTo(i) /\ i \in upTo(i)
    OBVIOUS
  <2>2. IsFiniteSet(upTo(i))
    BY <1>1, FS_Subset
  <2>3. {k} \in SUBSET upTo(i)
    BY <2>1
  <2>4. Cardinality({k}) = 1
    BY FS_Singleton
  <2>5. {k} = upTo(i)
    BY <1>4, <2>2, <2>3, <2>4, FS_Subset
  <2> QED
    BY <2>1, <2>5
<1>5. n # 0
  BY <1>1, FS_EmptySet
<1> DEFINE first == CHOOSE i \in places : Cardinality(upTo(i)) = 1
<1>6. first = k
  BY <1>3, <1>4
<1>7. q = [r \in 1 .. n |-> seq[CHOOSE i \in places : Cardinality(upTo(i)) = r]]
  BY DEF AtPlaces
<1>8. q[1] = seq[k] /\ DOMAIN q = 1 .. n /\ q = [r \in 1 .. n |-> q[r]]
  <2>1. 1 \in 1 .. n
    BY <1>1, <1>5
  <2>2. q[1] = seq[first]
    BY <1>7, <2>1
  <2> QED
    BY <1>6, <1>7, <2>2
<1> HIDE DEF q, n
<1>9. IsList(q) /\ Len(q) = n
  BY <1>1, <1>8, Lists
<1>10. q # <<>> /\ Head(q) = q[1]
  BY <1>1, <1>5, <1>9, EmptySeq, HeadTailProperties DEF IsList
<1> QED
  BY <1>8, <1>10 DEF q

\* A delay that the request gives goes before the configured one.
LEMMA DelayGiven ==
  ASSUME order \in Orders, conf \in Conf, NEW f, GivenDelays(f) # {}
  PROVE  ControlOnTime(f, order, conf, states) \in GivenDelays(f)
<1> DEFINE P == {i \in DOMAIN order : order[i].type = "onTime"}
           T == {i \in DOMAIN conf : conf[i][1] = "on_time"}
           others == AtPlaces(order, P)
           timers == AtPlaces(conf, T)
           d1 == <<f.onTime>>
           d2 == [i \in DOMAIN others |-> others[i].onTime]
           d3 == [i \in DOMAIN timers |-> NumberValue("on_time", states[timers[i][2]])]
           delays == d1 \o d2 \o d3
           G == {i \in DOMAIN delays : delays[i] # NoValue}
           n == Cardinality(P)
<1>1. Len(order) \in Nat /\ P \in SUBSET (1 .. Len(order)) /\ DOMAIN order = 1 .. Len(order)
  BY OrderAssumption
<1>2. Len(conf) \in Nat /\ T \in SUBSET (1 .. Len(conf))
  BY ConfLists, ListFacts
<1>3. TakesEachOnce(order, P) /\ TakesEachOnce(conf, T)
  BY <1>1, <1>2, Placed
<1>4. /\ n \in Nat /\ DOMAIN others = 1 .. n
      /\ \E p \in [1 .. n -> P] :
           /\ \A k \in 1 .. n : others[k] = order[p[k]]
           /\ \A i \in P : \E k \in 1 .. n : p[k] = i
      /\ Cardinality(T) \in Nat /\ DOMAIN timers = 1 .. Cardinality(T)
  BY <1>3 DEF TakesEachOnce
<1>5. IsList(d1) /\ d1[1] = f.onTime /\ DOMAIN d1 = {1}
  BY Short
<1>6. /\ IsList(d2) /\ Len(d2) = n /\ DOMAIN d2 = 1 .. n
      /\ \A i \in 1 .. n : d2[i] = others[i].onTime
  <2>1. DOMAIN d2 = 1 .. n /\ d2 = [i \in 1 .. n |-> d2[i]]
        /\ \A i \in 1 .. n : d2[i] = others[i].onTime
    BY <1>4
  <2> HIDE DEF d2, n
  <2> QED
    BY <1>4, <2>1, Lists
<1>7. IsList(d3)
  <2>1. DOMAIN d3 = 1 .. Cardinality(T) /\ d3 = [i \in 1 .. Cardinality(T) |-> d3[i]]
    BY <1>4
  <2> HIDE DEF d3, T
  <2> QED
    BY <1>4, <2>1, Lists
<1>8. ControlOnTime(f, order, conf, states) =
        IF AtPlaces(delays, G) = <<>> THEN NoValue ELSE Head(AtPlaces(delays, G))
  BY DEF ControlOnTime
<1> HIDE DEF others, timers, d1, d2, d3, n, T
<1>9. Len(d1) = 1
  BY <1>5, ListFacts
<1>10. /\ IsList(d1 \o d2) /\ Len(d1 \o d2) = 1 + n
       /\ (d1 \o d2)[1] = f.onTime
       /\ \A i \in 1 .. n : (d1 \o d2)[1 + i] = d2[i]
  <2>1. IsList(d1 \o d2)
    BY <1>5, <1>6, Joined
  <2>2. /\ Len(d1 \o d2) = 1 + n
        /\ (d1 \o d2)[1] = d1[1]
        /\ \A i \in 1 .. n : (d1 \o d2)[1 + i] = d2[i]
    <3>1. IsList(d1) /\ IsList(d2) /\ Len(d1) = 1 /\ Len(d2) = n /\ 1 \in 1 .. 1
      BY <1>5, <1>6, <1>9
    <3>2. Appends(d1, d2)
      BY <3>1, Following
    <3> DEFINE q == d1 \o d2
    <3> HIDE DEF q
    <3>3. Len(q) = 1 + n /\ q[1] = d1[1]
      BY <3>1, <3>2 DEF q, Appends
    <3>4. \A i \in 1 .. n : q[1 + i] = d2[i]
      BY <3>1, <3>2 DEF q, Appends
    <3> QED
      BY <3>3, <3>4 DEF q
  <2> QED
    BY <1>5, <2>1, <2>2
<1>11. /\ Len(delays) \in Nat /\ DOMAIN delays = 1 .. Len(delays) /\ 1 + n <= Len(delays)
       /\ \A i \in 1 .. 1 + n : delays[i] = (d1 \o d2)[i]
  <2> DEFINE h == d1 \o d2
  <2>1. IsList(h) /\ Len(h) = 1 + n
    BY <1>10
  <2>2. Len(d3) \in Nat
    BY <1>7, ListFacts
  <2> HIDE DEF h
  <2>3. Len(h \o d3) = 1 + n + Len(d3) /\ \A i \in 1 .. 1 + n : (h \o d3)[i] = h[i]
    <3>1. Appends(h, d3)
      BY <1>7, <2>1, Following
    <3> QED
      BY <2>1, <3>1 DEF Appends
  <2>4. IsList(h \o d3)
    BY <1>7, <2>1, Joined
  <2>5. Len(h \o d3) \in Nat /\ DOMAIN (h \o d3) = 1 .. Len(h \o d3)
    BY <2>4, ListFacts
  <2>6. 1 + n <= 1 + n + Len(d3)
    BY <1>4, <2>2
  <2> QED
    BY <2>3, <2>5, <2>6 DEF h
<1> HIDE DEF delays
<1>12. PICK p \in [1 .. n -> P] :
         /\ \A k \in 1 .. n : others[k] = order[p[k]]
         /\ \A i \in P : \E k \in 1 .. n : p[k] = i
  BY <1>4
<1>13. delays[1] = f.onTime /\ 1 \in DOMAIN delays
  BY <1>4, <1>10, <1>11
<1>14. \A i \in 1 .. n : delays[1 + i] = order[p[i]].onTime /\ 1 + i \in DOMAIN delays
  <2> SUFFICES ASSUME NEW i \in 1 .. n
               PROVE  delays[1 + i] = order[p[i]].onTime /\ 1 + i \in DOMAIN delays
    OBVIOUS
  <2>1. 1 + i \in 1 .. 1 + n /\ 1 + i \in 1 .. Len(delays)
    BY <1>4, <1>11
  <2>2. delays[1 + i] = (d1 \o d2)[1 + i]
    BY <1>11, <2>1
  <2>3. delays[1 + i] = others[i].onTime
    BY <1>6, <1>10, <2>2
  <2> QED
    BY <1>11, <1>12, <2>1, <2>3
<1>15. \E k \in G : k <= 1 + n /\ \A j \in G : ~(j < k)
  <2>1. \E l \in G : l <= 1 + n
    <3>1. CASE f.onTime # NoValue
      <4>1. 1 \in G /\ 1 <= 1 + n
        BY <1>4, <1>13, <3>1
      <4> QED
        BY <4>1
    <3>2. CASE f.onTime = NoValue
      <4>1. PICK i \in P : order[i].onTime # NoValue
        BY <3>2 DEF GivenDelays
      <4>2. PICK k \in 1 .. n : p[k] = i
        BY <1>12
      <4>3. 1 + k \in G /\ 1 + k <= 1 + n
        BY <1>4, <1>14, <4>1, <4>2
      <4> QED
        BY <4>3
    <3> QED
      BY <3>1, <3>2
  <2>2. G \in SUBSET Nat /\ G # {}
    BY <1>11, <2>1
  <2> HIDE DEF G
  <2>3. PICK k \in G : \A j \in G : ~(j < k)
    BY <2>2, Least
  <2>4. PICK l \in G : l <= 1 + n
    BY <2>1
  <2>5. k \in Nat /\ l \in Nat /\ ~(l < k) /\ n \in Nat
    BY <1>4, <2>2, <2>3, <2>4
  <2>6. k <= 1 + n
    BY <2>4, <2>5
  <2> QED
    BY <2>3, <2>6
<1>16. PICK k \in G : k <= 1 + n /\ \A j \in G : ~(j < k)
  BY <1>15
<1>17. delays[k] \in GivenDelays(f)
  <2>1. k \in 1 .. 1 + n
    BY <1>4, <1>11, <1>16
  <2>2. CASE k = 1
    BY <1>13, <2>2 DEF GivenDelays
  <2>3. CASE k # 1
    <3>1. k - 1 \in 1 .. n /\ 1 + (k - 1) = k
      BY <1>4, <2>1, <2>3
    <3>2. delays[k] = order[p[k - 1]].onTime /\ p[k - 1] \in P
      BY <1>14, <3>1
    <3> QED
      BY <3>2 DEF GivenDelays
  <2> QED
    BY <2>2, <2>3
<1>18. AtPlaces(delays, G) # <<>> /\ Head(AtPlaces(delays, G)) = delays[k]
  <2>1. G \in SUBSET (1 .. Len(delays)) /\ Len(delays) \in Nat
    BY <1>11
  <2> HIDE DEF G
  <2> QED
    BY <1>16, <2>1, FirstPlaced
<1> QED
  BY <1>8, <1>17, <1>18

-----------------------------------------------------------------------------
(* The light does as it was asked *)

\* The features of the request whose call acted, and those whose call returned.
ActedOn == {i \in Acting : i < step \/ (i = step /\ calling = "acted")}
Ended == {i \in Acting : i < step}

\* The light e is on or off as the last of them has it ...
SwitchedAsAsked(e) ==
  \A i \in ActedOn : (\A j \in ActedOn : j <= i) =>
    states[e].word = IF LeavesOn(order[i]) THEN "on" ELSE "off"

\* ... has the brightness and the colour temperature that were set last ...
DimmedAsAsked(e) ==
  \A i \in Lasting("dimming", ActedOn) :
    states[e].word = "on" /\ states[e].brightness = Brightness(order[i].level)
TintedAsAsked(e) ==
  \A i \in Lasting("colorTemperature", ActedOn) :
    states[e].word = "on" /\ states[e].kelvin = order[i].kelvin

\* ... and the timer that the last turn-on came with, but none once it is off.
TimedAsAsked(e) ==
  /\ \A i \in Lasting("switchState", ActedOn) \cap Ended :
       LET given == GivenDelays(order[i])
       IN  given # {} /\ (\A d \in given : d > 0) => autoOff \in given
  /\ \A i \in Ended : order[i].type = "switchState" /\ autoOff # NoValue => states[e].word = "on"

AsAsked(e) == SwitchedAsAsked(e) /\ DimmedAsAsked(e) /\ TintedAsAsked(e) /\ TimedAsAsked(e)

RequestOK ==
  /\ order # <<>> => EntitiesOf(conf, {"on_off"}) # {}
  /\ calling # "no" => Targets(order[step]) # {}

OrderInv ==
  /\ RequestOK
  /\ \A e \in DOMAIN Readings :
       undisturbed /\ Dimmable /\ EntitiesOf(conf, LightKeys) = {e} => AsAsked(e)

\* A feature of a request as the HCU sends it.
FeatureOK(f) ==
  /\ f.type = "switchState" => f.on \in BOOLEAN
  /\ f.type = "dimming" => f.level \in Nat /\ (f.level = 0 \/ f.level >= 40)
  /\ f.type = "colorTemperature" => f.kelvin # NoValue

LEMMA FeaturesOK ==
  ASSUME HandlingOK
  PROVE  /\ Len(order) \in Nat /\ DOMAIN order = 1 .. Len(order)
         /\ Dimmable => \A i \in DOMAIN order : FeatureOK(order[i])
<1>1. CASE order = <<>>
  BY <1>1, EmptySeq
<1>2. CASE order \in Orders
  <2>1. Len(order) \in Nat /\ DOMAIN order = 1 .. Len(order)
    BY <1>2, OrderAssumption
  <2>2. ASSUME NEW i \in DOMAIN order, Dimmable PROVE FeatureOK(order[i])
    <3> DEFINE f == order[i]
    <3>1. /\ f.type = "switchState" => f.on \in BOOLEAN
          /\ f.type = "dimming" => f.level \in Nat
          /\ f.type = "colorTemperature" => f.kelvin # NoValue
      BY <1>2, OrderAssumption
    <3>2. f.type = "dimming" => f.level \notin 1 .. 39
      BY <2>2 DEF Dimmable
    <3> HIDE DEF f
    <3>3. f.type = "dimming" => f.level = 0 \/ f.level >= 40
      BY <3>1, <3>2
    <3> QED
      BY <3>1, <3>3 DEF FeatureOK, f
  <2> QED
    BY <2>1, <2>2
<1> QED
  BY <1>1, <1>2 DEF HandlingOK

\* Whatever is asked of a device whose only switchable entity is e goes to e.
LEMMA OneTarget ==
  ASSUME NEW e, EntitiesOf(conf, LightKeys) = {e}, NEW f
  PROVE  /\ Targets(f) \subseteq {e}
         /\ Targets(f) # {} => f.type \in {"switchState", "dimming", "colorTemperature"}
         /\ f.type = "colorTemperature" => Targets(f) = EntitiesOf(conf, {"color_temp"})
<1>1. /\ EntitiesOf(conf, {"on_off"}) \subseteq {e}
      /\ EntitiesOf(conf, {"brightness"}) \subseteq {e}
      /\ EntitiesOf(conf, {"color_temp"}) \subseteq {e}
  BY DEF EntitiesOf, LightKeys
<1> QED
  BY <1>1 DEF Targets

\* What a service makes of a light: on or off as the feature has it, with what it
\* sets, and nothing else changed in a light that is on and stays on.
Obeys(f, e) ==
  /\ After(f, e).word = IF LeavesOn(f) THEN "on" ELSE "off"
  /\ LeavesOn(f) /\ f.type = "dimming" => After(f, e).brightness = Brightness(f.level)
  /\ f.type = "colorTemperature" => After(f, e).kelvin = f.kelvin
  /\ LeavesOn(f) /\ states[e].word = "on" =>
       /\ f.type # "dimming" => After(f, e).brightness = states[e].brightness
       /\ f.type # "colorTemperature" => After(f, e).kelvin = states[e].kelvin

LEMMA ServiceObeys ==
  ASSUME EntitiesOK, NEW e \in DOMAIN states, NEW f, FeatureOK(f),
         f.type \in {"switchState", "dimming", "colorTemperature"}
  PROVE  Obeys(f, e)
<1>1. DOMAIN Off = Attribute /\ Off.word = "off"
  BY DEF Off, Attribute
<1>2. DOMAIN Lit(e) = Attribute /\ Lit(e).word = "on"
  BY StatusAssumption DEF Lit, Off, Attribute, EntitiesOK
<1>3. states[e].word = "on" => Lit(e) = states[e]
  BY DEF Lit
<1>4. CASE f.type = "switchState"
  <2>1. LeavesOn(f) = f.on /\ After(f, e) = IF f.on THEN Lit(e) ELSE Off
    BY <1>4 DEF LeavesOn, After
  <2> QED
    BY <1>1, <1>2, <1>3, <1>4, <2>1 DEF Obeys
<1>5. CASE f.type = "dimming"
  <2>1. LeavesOn(f) = (f.level > 0)
    BY <1>5 DEF LeavesOn
  <2>2. After(f, e) = IF Brightness(f.level) = 0 THEN Off
                      ELSE [Lit(e) EXCEPT !.brightness = Brightness(f.level)]
    BY <1>5 DEF After
  <2>3. CASE f.level > 0
    <3>1. Brightness(f.level) # 0
      BY <1>5, <2>3, Levels DEF FeatureOK
    <3>2. After(f, e) = [Lit(e) EXCEPT !.brightness = Brightness(f.level)]
      BY <2>2, <3>1
    <3>3. /\ After(f, e).word = "on" /\ After(f, e).brightness = Brightness(f.level)
          /\ After(f, e).kelvin = Lit(e).kelvin
      BY <1>2, <3>2 DEF Attribute
    <3> QED
      BY <1>3, <1>5, <2>1, <2>3, <3>3 DEF Obeys
  <2>4. CASE ~(f.level > 0)
    <3>1. f.level = 0
      BY <1>5, <2>4 DEF FeatureOK
    <3>2. Brightness(f.level) = 0
      BY <3>1 DEF Brightness
    <3> QED
      BY <1>1, <1>5, <2>1, <2>2, <2>4, <3>2 DEF Obeys
  <2> QED
    BY <2>3, <2>4
<1>6. CASE f.type = "colorTemperature"
  <2>1. LeavesOn(f) = TRUE /\ After(f, e) = [Lit(e) EXCEPT !.kelvin = f.kelvin]
    BY <1>6 DEF LeavesOn, After
  <2>2. /\ After(f, e).word = "on" /\ After(f, e).kelvin = f.kelvin
        /\ After(f, e).brightness = Lit(e).brightness
    BY <1>2, <2>1 DEF Attribute
  <2> QED
    BY <1>3, <1>6, <2>1, <2>2 DEF Obeys
<1> QED
  BY <1>4, <1>5, <1>6

LEMMA SameAsAsked ==
  ASSUME NEW e, AsAsked(e), ActedOn' = ActedOn, Ended' = Ended,
         UNCHANGED <<order, states, autoOff>>
  PROVE  AsAsked(e)'
<1>1. SwitchedAsAsked(e)'
  BY DEF AsAsked, SwitchedAsAsked, LeavesOn
<1>2. DimmedAsAsked(e)'
  BY DEF AsAsked, DimmedAsAsked, Lasting, LeavesOn
<1>3. TintedAsAsked(e)'
  BY DEF AsAsked, TintedAsAsked, Lasting, LeavesOn
<1>4. TimedAsAsked(e)'
  BY DEF AsAsked, TimedAsAsked, Lasting, LeavesOn, GivenDelays
<1> QED
  BY <1>1, <1>2, <1>3, <1>4 DEF AsAsked

\* What acted on the light last decides, and what it leaves alone stays.
LEMMA ServiceAsAsked ==
  ASSUME NEW e \in DOMAIN states, AsAsked(e), StatesOK, EntitiesOK, HandlingOK,
         EntitiesOf(conf, LightKeys) = {e}, EntitiesOf(conf, {"on_off"}) # {},
         ServiceDone, undisturbed, undisturbed', Dimmable
  PROVE  AsAsked(e)'
<1> DEFINE f == order[step]
<1>1. /\ Len(order) \in Nat /\ DOMAIN order = 1 .. Len(order)
      /\ \A i \in DOMAIN order : FeatureOK(order[i])
  BY FeaturesOK
<1>2. calling = "called" /\ calling' = "acted" /\ UNCHANGED <<order, step, conf>>
  BY DEF ServiceDone
<1>3. Targets(f) = {e} /\ Takes(e, After(f, e))
  <2>1. PICK x \in Targets(f) : Takes(x, After(f, x))
    BY Zenon DEF ServiceDone
  <2> QED
    BY <2>1, OneTarget
<1>4. step \in DOMAIN order /\ step \in Acting
  <2>1. step \in DOMAIN order
    BY <1>1, <1>2 DEF HandlingOK, Handling
  <2> QED
    BY <2>1, <1>3 DEF Acting
<1>5. Obeys(f, e)
  BY <1>1, <1>3, <1>4, OneTarget, ServiceObeys
<1>6. states'[e] = After(f, e)
  BY <1>3 DEF Takes
<1>7. /\ Acting' = Acting /\ Ended' = Ended /\ ActedOn' = ActedOn \cup {step}
      /\ \A i \in ActedOn : i \in Int /\ i < step /\ i \in Ended
      /\ step \in Int /\ Ended \subseteq ActedOn
  <2>1. Acting' = Acting
    BY <1>2 DEF Acting, Targets, EntitiesOf
  <2>2. Ended' = Ended
    BY <1>2, <2>1 DEF Ended
  <2>3. \A i \in Acting : i \in Int
    BY <1>1 DEF Acting
  <2>4. step \in Int
    BY <1>4, <2>3
  <2>5. ActedOn' = ActedOn \cup {step}
    BY <1>2, <1>4, <2>1, <2>3, <2>4 DEF ActedOn
  <2> QED
    BY <1>2, <2>1, <2>2, <2>3, <2>4, <2>5 DEF ActedOn, Ended
<1>8. ASSUME NEW type, NEW i \in Lasting(type, ActedOn)'
      PROVE  /\ i \in ActedOn' /\ order[i].type = type /\ LeavesOn(f) /\ LeavesOn(order[i])
             /\ i # step => i \in Lasting(type, ActedOn) /\ f.type # type
  <2>0. \A j : LeavesOn(order[j])' = LeavesOn(order[j])
    BY <1>2 DEF LeavesOn
  <2>1. /\ i \in ActedOn' /\ order[i].type = type
        /\ \A j \in ActedOn' : j >= i => LeavesOn(order[j]) /\ (order[j].type = type => j = i)
    BY <1>2, <1>8, <2>0 DEF Lasting
  <2>2. step \in ActedOn' /\ step >= i /\ i >= i
    BY <1>7, <2>1
  <2>3. i # step => i \in Lasting(type, ActedOn)
    BY <1>7, <2>1 DEF Lasting
  <2> QED
    BY <2>1, <2>2, <2>3
<1>9. SwitchedAsAsked(e)'
  <2> SUFFICES ASSUME NEW i \in ActedOn', \A j \in ActedOn' : j <= i
               PROVE  states'[e].word = IF LeavesOn(order[i]) THEN "on" ELSE "off"
    <3>1. \A j : LeavesOn(order[j])' = LeavesOn(order[j])
      BY <1>2 DEF LeavesOn
    <3> QED
      BY <1>2, <3>1 DEF SwitchedAsAsked
  <2>1. i = step
    BY <1>7
  <2> QED
    BY <1>5, <1>6, <2>1 DEF Obeys
<1>10. ASSUME LeavesOn(f) PROVE states'[e].word = "on"
  BY <1>5, <1>6, <1>10 DEF Obeys
<1>11. DimmedAsAsked(e)'
  <2> SUFFICES ASSUME NEW i \in Lasting("dimming", ActedOn)'
               PROVE  states'[e].word = "on" /\ states'[e].brightness = Brightness(order[i].level)
    BY <1>2 DEF DimmedAsAsked
  <2>1. LeavesOn(f) /\ order[i].type = "dimming"
    BY <1>8
  <2>2. CASE i = step
    BY <1>5, <1>6, <2>1, <2>2 DEF Obeys
  <2>3. CASE i # step
    <3>1. i \in Lasting("dimming", ActedOn) /\ f.type # "dimming"
      BY <1>8, <2>3
    <3>2. states[e].word = "on" /\ states[e].brightness = Brightness(order[i].level)
      BY <3>1 DEF AsAsked, DimmedAsAsked
    <3> QED
      BY <1>5, <1>6, <1>10, <2>1, <3>1, <3>2 DEF Obeys
  <2> QED
    BY <2>2, <2>3
<1>12. TintedAsAsked(e)'
  <2> SUFFICES ASSUME NEW i \in Lasting("colorTemperature", ActedOn)'
               PROVE  states'[e].word = "on" /\ states'[e].kelvin = order[i].kelvin
    BY <1>2 DEF TintedAsAsked
  <2>1. LeavesOn(f) /\ order[i].type = "colorTemperature"
    BY <1>8
  <2>2. CASE i = step
    BY <1>5, <1>6, <1>10, <2>1, <2>2 DEF Obeys
  <2>3. CASE i # step
    <3>1. i \in Lasting("colorTemperature", ActedOn) /\ f.type # "colorTemperature"
      BY <1>8, <2>3
    <3>2. states[e].word = "on" /\ states[e].kelvin = order[i].kelvin
      BY <3>1 DEF AsAsked, TintedAsAsked
    <3> QED
      BY <1>5, <1>6, <1>10, <2>1, <3>1, <3>2 DEF Obeys
  <2> QED
    BY <2>2, <2>3
<1>13. /\ LeavesOn(f) => autoOff' = autoOff
       /\ autoOff' # NoValue /\ states'[e].word # "on" => states' = states /\ autoOff' = autoOff
  <2>1. EntitiesOf(conf, {"on_off"}) = {e}
    BY DEF EntitiesOf, LightKeys
  <2>2. After(f, e).word \in {"on", "off"}
    BY <1>5 DEF Obeys
  <2>3. CASE After(f, e) = states[e]
    <3>1. autoOff' = autoOff /\ states' = [states EXCEPT ![e] = states[e]]
      BY <1>3, <2>3 DEF Takes
    <3>2. states' = states
      BY <3>1 DEF StatesOK
    <3> QED
      BY <3>1, <3>2
  <2>4. CASE After(f, e) # states[e]
    <3>1. autoOff' = IF After(f, e).word = "off" THEN NoValue ELSE autoOff
      BY <1>3, <2>1, <2>4 DEF Takes
    <3> QED
      BY <1>5, <1>6, <2>2, <3>1 DEF Obeys
  <2> QED
    BY <2>3, <2>4
<1>14. TimedAsAsked(e)'
  <2>1. ASSUME NEW i \in (Lasting("switchState", ActedOn) \cap Ended)',
               GivenDelays(order[i]) # {}, \A d \in GivenDelays(order[i]) : d > 0
        PROVE  autoOff' \in GivenDelays(order[i])
    <3>1. i \in Ended /\ i # step
      BY <1>7, <2>1 DEF Ended
    <3>2. i \in Lasting("switchState", ActedOn) /\ LeavesOn(f)
      BY <1>8, <2>1, <3>1
    <3>3. autoOff \in GivenDelays(order[i])
      BY <2>1, <3>1, <3>2 DEF AsAsked, TimedAsAsked
    <3> QED
      BY <1>13, <3>2, <3>3
  <2>2. ASSUME NEW i \in Ended', order[i].type = "switchState", autoOff' # NoValue
        PROVE  states'[e].word = "on"
    <3>1. CASE states' = states /\ autoOff' = autoOff
      BY <1>7, <2>2, <3>1 DEF AsAsked, TimedAsAsked
    <3> QED
      BY <1>13, <2>2, <3>1
  <2> QED
    BY <1>2, <2>1, <2>2 DEF TimedAsAsked, GivenDelays
<1> QED
  BY <1>9, <1>11, <1>12, <1>14 DEF AsAsked

\* The timer of a turn-on is the one it was given.
LEMMA DoneAsAsked ==
  ASSUME NEW e \in DOMAIN states, AsAsked(e), HandlingOK, RequestOK, conf \in Conf, order \in Orders,
         FeatureDone, Dimmable
  PROVE  AsAsked(e)'
<1> DEFINE f == order[step]
           delay == ControlOnTime(f, order, conf, states)
<1>1. /\ Len(order) \in Nat /\ DOMAIN order = 1 .. Len(order)
      /\ \A i \in DOMAIN order : FeatureOK(order[i])
  BY FeaturesOK
<1>2. /\ calling = "acted" /\ step' = step + 1 /\ calling' = "no"
      /\ UNCHANGED <<order, conf, states>>
  BY DEF FeatureDone, bridgedVars
<1>3. autoOff' = IF f.type # "switchState" THEN autoOff
                 ELSE IF f.on /\ delay # NoValue /\ delay > 0 THEN delay ELSE NoValue
  BY DEF FeatureDone
<1>4. /\ ActedOn' = ActedOn /\ Ended' = ActedOn
      /\ \A i \in Ended' : i = step \/ i \in Ended
      /\ \A i \in ActedOn : i \in DOMAIN order /\ i <= step /\ i \in Int
  <2>1. Acting' = Acting
    BY <1>2 DEF Acting, Targets, EntitiesOf
  <2>2. \A i \in Acting : i \in Int /\ i \in DOMAIN order
    BY <1>1 DEF Acting
  <2>3. step \in Int
    BY <1>1 DEF HandlingOK
  <2>4. \A i \in Acting : (i < step + 1 <=> (i < step \/ i = step))
    BY <2>2, <2>3
  <2>5. ActedOn' = ActedOn
    BY <1>2, <2>1, <2>2, <2>3, <2>4 DEF ActedOn
  <2>6. Ended' = ActedOn
    BY <1>2, <2>1, <2>4 DEF Ended, ActedOn
  <2> QED
    BY <2>2, <2>3, <2>4, <2>5, <2>6 DEF ActedOn, Ended
<1>7. step \in ActedOn
  <2>1. step \in DOMAIN order
    BY <1>1, <1>2 DEF HandlingOK, Handling
  <2> QED
    BY <1>2, <2>1 DEF RequestOK, Acting, ActedOn
<1>5. SwitchedAsAsked(e)' /\ DimmedAsAsked(e)' /\ TintedAsAsked(e)'
  BY <1>2, <1>4 DEF AsAsked, SwitchedAsAsked, DimmedAsAsked, TintedAsAsked, Lasting, LeavesOn
<1>6. ASSUME NEW i \in Lasting("switchState", ActedOn),
             GivenDelays(order[i]) # {}, \A d \in GivenDelays(order[i]) : d > 0
      PROVE  autoOff' \in GivenDelays(order[i])
  <2>1. /\ i \in ActedOn /\ order[i].type = "switchState"
        /\ \A j \in ActedOn : j >= i => LeavesOn(order[j]) /\ (order[j].type = "switchState" => j = i)
    BY <1>6 DEF Lasting
  <2>2. LeavesOn(order[i])
    BY <1>4, <2>1
  <2>3. CASE i = step
    <3>1. f.on = TRUE
      <4>1. LeavesOn(f) = f.on
        BY <2>1, <2>3 DEF LeavesOn
      <4>2. FeatureOK(f)
        BY <1>1, <1>4, <1>7
      <4> QED
        BY <2>1, <2>2, <2>3, <4>1, <4>2 DEF FeatureOK
    <3>2. delay \in GivenDelays(f)
      BY <1>6, <2>3, DelayGiven
    <3>3. delay # NoValue
      BY <3>2 DEF GivenDelays
    <3>4. autoOff' = delay
      BY <1>3, <1>6, <2>1, <2>3, <3>1, <3>2, <3>3
    <3> QED
      BY <2>3, <3>2, <3>4
  <2>4. CASE i # step
    <3>1. i \in Ended
      BY <1>4, <2>1, <2>4
    <3>2. autoOff \in GivenDelays(order[i])
      BY <1>6, <3>1 DEF AsAsked, TimedAsAsked
    <3>3. f.type # "switchState"
      BY <1>4, <1>7, <2>1, <2>4
    <3> QED
      BY <1>3, <3>2, <3>3
  <2> QED
    BY <2>3, <2>4
<1>8. ASSUME NEW i \in Ended', order[i].type = "switchState", autoOff' # NoValue
      PROVE  states[e].word = "on"
  <2>1. CASE f.type = "switchState"
    <3>1. f.on = TRUE
      <4>1. FeatureOK(f)
        BY <1>1, <1>4, <1>7
      <4> QED
        BY <1>3, <1>8, <2>1, <4>1 DEF FeatureOK
    <3>2. \A j \in ActedOn : j <= step
      BY <1>4
    <3>3. LeavesOn(f) = TRUE
      BY <2>1, <3>1 DEF LeavesOn
    <3> QED
      BY <1>7, <3>2, <3>3 DEF AsAsked, SwitchedAsAsked
  <2>2. CASE f.type # "switchState"
    <3>1. autoOff' = autoOff
      BY <1>3, <2>2
    <3>2. i \in Ended
      BY <1>4, <1>8, <2>2
    <3> QED
      BY <1>8, <3>1, <3>2 DEF AsAsked, TimedAsAsked
  <2> QED
    BY <2>1, <2>2
<1>9. TimedAsAsked(e)'
  <2>1. \A i \in (Lasting("switchState", ActedOn) \cap Ended)' : i \in Lasting("switchState", ActedOn)
    BY <1>2, <1>4 DEF Lasting, LeavesOn
  <2> QED
    BY <1>2, <1>6, <1>8, <2>1 DEF TimedAsAsked, GivenDelays
<1> QED
  BY <1>5, <1>9 DEF AsAsked

LEMMA OrderStart == StatusInit => OrderInv
BY DEF StatusInit, OrderInv, RequestOK

LEMMA RequestStep ==
  ASSUME ReportInv, HandlingInv, OrderInv, [StatusNext]_statusVars
  PROVE  RequestOK'
<1>1. RequestOK
  BY DEF OrderInv
<1>0. ASSUME UNCHANGED <<conf, order, step>>
      PROVE  /\ Targets(order[step])' = Targets(order[step])
             /\ EntitiesOf(conf, {"on_off"})' = EntitiesOf(conf, {"on_off"})
  BY <1>0 DEF Targets, EntitiesOf
<1>2. CASE OrderComes
  BY <1>2 DEF OrderComes, bridgedVars, RequestOK, EntitiesOf
<1>3. CASE CallService
  <2>1. Targets(order[step]) # {} /\ UNCHANGED <<conf, order, step>>
    BY <1>3 DEF CallService, bridgedVars
  <2> QED
    BY <1>0, <1>1, <2>1 DEF RequestOK
<1>4. CASE ServiceDone
  BY <1>1, <1>4 DEF ServiceDone, RequestOK, EntitiesOf, Targets
<1>5. CASE FeatureDone \/ FeatureFails
  BY <1>1, <1>5 DEF FeatureDone, FeatureFails, bridgedVars, RequestOK, EntitiesOf
<1>6. CASE PassOver
  BY <1>1, <1>6 DEF PassOver, bridgedVars, RequestOK, EntitiesOf
<1>7. CASE Respond
  <2>1. calling = "no"
    <3>1. Len(order) \in Nat
      BY FeaturesOK DEF HandlingInv
    <3> QED
      BY <1>7, <3>1 DEF Respond, HandlingInv, HandlingOK, Handling
  <2> QED
    BY <1>1, <1>7, <2>1 DEF Respond, RequestOK, EntitiesOf
<1>8. CASE Forget
  <2>1. calling = "no"
    <3>1. Len(order) \in Nat
      BY FeaturesOK DEF HandlingInv
    <3> QED
      BY <1>8, <3>1 DEF Forget, Answered, HandlingInv, HandlingOK, Handling
  <2> QED
    BY <1>1, <1>8, <2>1 DEF Forget, bridgedVars, RequestOK, EntitiesOf
<1>9. CASE \/ StateChanged \/ AutoOff
           \/ Included \/ StatusRequest \/ ThrottleExpires \/ DiscoverRequest
           \/ DiscoverRequestLate \/ SocketDies \/ SocketClosed \/ Connect
           \/ UNCHANGED statusVars
  <2>1. UNCHANGED <<conf, order, step, calling>>
    BY <1>9 DEF StateChanged, AutoOff, Included, StatusRequest, ThrottleExpires, DiscoverRequest,
                DiscoverRequestLate, SendDiscoverResponse, SocketDies, SocketClosed, Connect,
                controlVars, orderVars, statusVars, bridgedVars
  <2> QED
    BY <1>0, <1>1, <2>1 DEF RequestOK
<1> QED
  BY <1>2, <1>3, <1>4, <1>5, <1>6, <1>7, <1>8, <1>9 DEF StatusNext

LEMMA AsAskedStep ==
  ASSUME ReportInv, HandlingInv, OrderInv, [StatusNext]_statusVars, undisturbed', Dimmable',
         NEW e \in DOMAIN Readings, EntitiesOf(conf, LightKeys)' = {e}
  PROVE  AsAsked(e)'
<1>1. /\ StatesOK /\ conf \in Conf /\ EntitiesOK /\ HandlingOK /\ RequestOK
      /\ Len(order) \in Nat /\ DOMAIN order = 1 .. Len(order) /\ step \in Nat
  <2>1. StatesOK /\ conf \in Conf /\ EntitiesOK /\ HandlingOK /\ RequestOK
    BY DEF ReportInv, HandlingInv, OrderInv, StatesOK
  <2>2. Len(order) \in Nat /\ DOMAIN order = 1 .. Len(order)
    BY <2>1, FeaturesOK
  <2> QED
    BY <2>1, <2>2 DEF HandlingOK
<1>2. conf' = conf
  BY DEF StatusNext, StateChanged, AutoOff, OrderComes, PassOver, CallService, ServiceDone,
         FeatureDone, FeatureFails, Respond, Forget, Included, StatusRequest, ThrottleExpires,
         DiscoverRequest, DiscoverRequestLate, SendDiscoverResponse, SocketDies, SocketClosed,
         Connect, controlVars, bridgedVars, statusVars
<1>3. EntitiesOf(conf, LightKeys) = {e}
  BY <1>2 DEF EntitiesOf
<1>4. e \in DOMAIN states
  BY <1>1, <1>3 DEF EntitiesOf, StatesOK
<1>5. undisturbed /\ Dimmable => AsAsked(e)
  BY <1>3 DEF OrderInv
<1>16. UNCHANGED order => Dimmable
  BY DEF Dimmable
<1>6. \A i \in Acting : i \in 1 .. Len(order)
  BY <1>1 DEF Acting
<1>7. CASE OrderComes
  <2>1. order' \in Orders /\ step' = 1 /\ calling' = "no"
    BY <1>7 DEF OrderComes
  <2>2. DOMAIN order' = 1 .. Len(order') /\ Len(order') \in Nat
    BY <2>1, OrderAssumption
  <2>3. Ended' = {} /\ ActedOn' = {}
    BY <2>1, <2>2 DEF Ended, ActedOn, Acting
  <2> QED
    BY <2>3 DEF AsAsked, SwitchedAsAsked, DimmedAsAsked, TintedAsAsked, TimedAsAsked, Lasting
<1>8. CASE ServiceDone
  <2>1. order # <<>>
    <3>1. step \in DOMAIN order
      BY <1>1, <1>8 DEF ServiceDone, HandlingOK, Handling
    <3> QED
      BY <3>1
  <2>2. EntitiesOf(conf, {"on_off"}) # {}
    BY <1>1, <2>1 DEF RequestOK
  <2>3. undisturbed /\ Dimmable
    BY <1>8, <1>16 DEF ServiceDone
  <2> QED
    BY <1>1, <1>3, <1>4, <1>5, <1>8, <2>2, <2>3, ServiceAsAsked
<1>9. CASE FeatureDone
  <2>1. order \in Orders
    <3>1. step \in DOMAIN order
      BY <1>1, <1>9 DEF FeatureDone, HandlingOK, Handling
    <3> QED
      BY <1>1, <3>1 DEF HandlingOK
  <2>2. undisturbed /\ Dimmable
    BY <1>9, <1>16 DEF FeatureDone, bridgedVars
  <2> QED
    BY <1>1, <1>4, <1>5, <1>9, <2>1, <2>2, DoneAsAsked
<1>10. ASSUME UNCHANGED <<conf, order>> PROVE Acting' = Acting
  BY <1>10 DEF Acting, Targets, EntitiesOf
<1>11. CASE PassOver
  <2>1. /\ calling = "no" /\ Targets(order[step]) = {}
        /\ step' = step + 1 /\ UNCHANGED <<conf, states, order, calling, autoOff, undisturbed>>
    BY <1>11 DEF PassOver, bridgedVars
  <2>2. step \notin Acting /\ Acting' = Acting
    BY <1>10, <2>1 DEF Acting
  <2>3. \A i \in Acting : i < step + 1 <=> i < step
    BY <1>1, <1>6, <2>2
  <2>4. ActedOn' = ActedOn /\ Ended' = Ended
    BY <2>1, <2>2, <2>3 DEF ActedOn, Ended
  <2> QED
    BY <1>5, <1>16, <2>1, <2>4, SameAsAsked
<1>12. CASE CallService
  <2>1. /\ calling = "no" /\ calling' = "called"
        /\ UNCHANGED <<conf, states, order, step, autoOff, undisturbed>>
    BY <1>12 DEF CallService, bridgedVars
  <2>2. ActedOn' = ActedOn /\ Ended' = Ended
    BY <1>10, <2>1 DEF ActedOn, Ended
  <2> QED
    BY <1>5, <1>16, <2>1, <2>2, SameAsAsked
<1>13. CASE Respond
  <2>1. /\ step = Len(order) + 1 /\ step' = step + 1
        /\ UNCHANGED <<conf, states, order, calling, autoOff, undisturbed>>
    BY <1>13 DEF Respond
  <2>2. \A i \in Acting : i < step /\ i < step + 1 /\ i # step /\ i # step + 1
    BY <1>1, <1>6, <2>1
  <2>3. ActedOn' = ActedOn /\ Ended' = Ended
    BY <1>10, <2>1, <2>2 DEF ActedOn, Ended
  <2> QED
    BY <1>5, <1>16, <2>1, <2>3, SameAsAsked
<1>14. CASE StateChanged \/ AutoOff \/ FeatureFails \/ Forget
  BY <1>14 DEF StateChanged, AutoOff, FeatureFails, Forget
<1>15. CASE \/ Included \/ StatusRequest \/ ThrottleExpires \/ DiscoverRequest
            \/ DiscoverRequestLate \/ SocketDies \/ SocketClosed \/ Connect
            \/ UNCHANGED statusVars
  <2>1. UNCHANGED <<conf, states, order, step, calling, autoOff, undisturbed>>
    BY <1>15 DEF Included, StatusRequest, ThrottleExpires, DiscoverRequest, DiscoverRequestLate,
                 SendDiscoverResponse, SocketDies, SocketClosed, Connect, controlVars,
                 orderVars, statusVars, bridgedVars
  <2>2. ActedOn' = ActedOn /\ Ended' = Ended
    BY <1>10, <2>1 DEF ActedOn, Ended
  <2> QED
    BY <1>5, <1>16, <2>1, <2>2, SameAsAsked
<1> QED
  BY <1>7, <1>8, <1>9, <1>11, <1>12, <1>13, <1>14, <1>15 DEF StatusNext

LEMMA OrderStep ==
  ASSUME ReportInv, HandlingInv, OrderInv, [StatusNext]_statusVars
  PROVE  OrderInv'
<1>1. RequestOK'
  BY RequestStep
<1>2. ASSUME NEW e \in DOMAIN Readings, undisturbed', Dimmable', EntitiesOf(conf, LightKeys)' = {e}
      PROVE  AsAsked(e)'
  BY <1>2, AsAskedStep
<1> QED
  BY <1>1, <1>2 DEF OrderInv

\* A request to a light that nothing disturbed leaves the HCU with what it asked
\* for, for every configuration of the device, every set of states and every request.
THEOREM OrdersReported == StatusSpec => []OrderIsReported
<1>1. ReportInv /\ HandlingInv /\ OrderInv /\ HcuUpToDate => OrderIsReported
  <2> SUFFICES ASSUME ReportInv, HandlingInv, OrderInv, HcuUpToDate,
                      Answered, undisturbed, fresh, socket = "up", received, OneLight, Dimmable
               PROVE  OrderIsReported
    BY DEF OrderIsReported
  <2>1. PICK e \in DOMAIN Readings : EntitiesOf(conf, LightKeys) = {e}
    BY DEF OneLight, LightKeys
  <2>2. AsAsked(e) /\ RequestOK /\ HandlingOK /\ conf \in Conf
    BY <2>1 DEF OrderInv, HandlingInv, ReportInv, StatesOK
  <2>3. /\ Len(order) \in Nat /\ DOMAIN order = 1 .. Len(order)
        /\ \A i \in DOMAIN order : FeatureOK(order[i])
    BY <2>2, FeaturesOK
  <2>4. ActedOn = Acting /\ Ended = Acting /\ \A i \in Acting : i \in Int /\ i \in DOMAIN order
    BY <2>3 DEF Answered, ActedOn, Ended, Acting
  <2>5. ASSUME NEW key \in LightKeys, EntitiesOf(conf, {key}) # {},
               FeatureValue(key, states[e]) # NoValue
        PROVE  hcuValue[key] = FeatureValue(key, states[e])
    <3>1. /\ key \in Types(ValueFeatures(conf, states))
          /\ ValueOf(key, ValueFeatures(conf, states)) = FeatureValue(key, states[e])
      BY <2>1, <2>2, <2>5, LightReported
    <3>2. HcuKnows
      BY DEF HcuUpToDate
    <3> QED
      BY <3>1, <3>2 DEF HcuKnows
  <2>6. ASSUME states[e].word \in {"on", "off"}
        PROVE  hcuValue["on_off"] = (states[e].word = "on")
    <3>0. ~Unread(states[e]) /\ "on_off" \in Binary /\ "on_off" \notin {"brightness", "color_temp"}
      BY <2>6 DEF Unread, Binary
    <3>5. "on_off" \notin Words
      BY DEF Words
    <3>1. FeatureValue("on_off", states[e]) = (states[e].word = "on")
      BY <3>0, <3>5 DEF FeatureValue
    <3>2. (states[e].word = "on") # NoValue
      BY StatusAssumption
    <3>3. EntitiesOf(conf, {"on_off"}) # {}
      BY <2>2 DEF RequestOK, Answered
    <3>4. "on_off" \in LightKeys
      BY DEF LightKeys
    <3> QED
      BY <2>5, <3>1, <3>2, <3>3, <3>4
  <2>7. ASSUME NEW i \in Acting, \A j \in Acting : j <= i
        PROVE  hcuValue["on_off"] = LeavesOn(order[i])
    <3>1. states[e].word = IF LeavesOn(order[i]) THEN "on" ELSE "off"
      BY <2>2, <2>4, <2>7 DEF AsAsked, SwitchedAsAsked
    <3>2. order[i].type \in {"switchState", "dimming", "colorTemperature"} /\ FeatureOK(order[i])
      BY <2>1, <2>3, <2>4, OneTarget DEF Acting
    <3>3. LeavesOn(order[i]) \in BOOLEAN
      <4> DEFINE f == order[i]
      <4>1. CASE f.type = "switchState"
        <5>1. LeavesOn(f) = f.on
          BY <4>1 DEF LeavesOn
        <5> QED
          BY <3>2, <4>1, <5>1 DEF FeatureOK
      <4>2. CASE f.type = "dimming"
        <5>1. LeavesOn(f) = (f.level > 0)
          BY <4>2 DEF LeavesOn
        <5> QED
          BY <5>1
      <4>3. CASE f.type = "colorTemperature"
        BY <4>3 DEF LeavesOn
      <4> QED
        BY <3>2, <4>1, <4>2, <4>3
    <3> QED
      BY <2>6, <3>1, <3>3
  <2>8. ASSUME EntitiesOf(conf, {"brightness"}) # {}, NEW i \in Lasting("dimming", Acting)
        PROVE  /\ hcuValue["brightness"] <= order[i].level
               /\ order[i].level - hcuValue["brightness"] < 40
    <3> DEFINE level == order[i].level
    <3>1. states[e].word = "on" /\ states[e].brightness = Brightness(level)
      BY <2>2, <2>4, <2>8 DEF AsAsked, DimmedAsAsked
    <3>2. i \in Acting /\ order[i].type = "dimming" /\ LeavesOn(order[i])
      BY <2>4, <2>8 DEF Lasting
    <3>7. level > 0
      BY <3>2 DEF LeavesOn
    <3>3. level \in Nat /\ level >= 40
      <4>1. level \in Nat /\ (level = 0 \/ level >= 40)
        BY <2>3, <2>4, <3>2 DEF FeatureOK
      <4> QED
        BY <3>7, <4>1
    <3>4. /\ Brightness(level) \in Int /\ Level(Brightness(level)) \in Int
          /\ Level(Brightness(level)) <= level /\ level - Level(Brightness(level)) < 40
      BY <3>3, Levels
    <3>5. FeatureValue("brightness", states[e]) = Level(Brightness(level))
      <4>1. ~Unread(states[e]) /\ states[e].brightness # NoValue
        BY <3>1, <3>4, StatusAssumption DEF Unread
      <4>2. "brightness" \notin Binary \cup Words \cup {"color_temp"}
        BY DEF Binary, Words, Presence, Contacts
      <4> QED
        BY <3>1, <4>1, <4>2 DEF FeatureValue
    <3>6. hcuValue["brightness"] = Level(Brightness(level))
      BY <2>5, <2>8, <3>4, <3>5, StatusAssumption DEF LightKeys
    <3> QED
      BY <3>4, <3>6
  <2>9. ASSUME NEW i \in Lasting("colorTemperature", Acting)
        PROVE  hcuValue["color_temp"] = order[i].kelvin
    <3>1. states[e].word = "on" /\ states[e].kelvin = order[i].kelvin
      BY <2>2, <2>4, <2>9 DEF AsAsked, TintedAsAsked
    <3>2. i \in Acting /\ order[i].type = "colorTemperature"
      BY <2>9 DEF Lasting
    <3>5. Targets(order[i]) # {} /\ FeatureOK(order[i])
      BY <2>3, <2>4, <3>2 DEF Acting
    <3>3. EntitiesOf(conf, {"color_temp"}) # {} /\ order[i].kelvin # NoValue
      BY <2>1, <3>2, <3>5, OneTarget DEF FeatureOK
    <3>4. FeatureValue("color_temp", states[e]) = order[i].kelvin
      <4>1. ~Unread(states[e]) /\ "color_temp" # "brightness"
        BY <3>1 DEF Unread
      <4>2. "color_temp" \notin Binary \cup Words
        BY DEF Binary, Words, Presence, Contacts
      <4> QED
        BY <3>1, <4>1, <4>2 DEF FeatureValue
    <3> QED
      BY <2>5, <3>3, <3>4 DEF LightKeys
  <2>10. ASSUME NEW i \in Lasting("switchState", Acting),
                GivenDelays(order[i]) # {}, \A d \in GivenDelays(order[i]) : d > 0
         PROVE  autoOff \in GivenDelays(order[i])
    <3>1. i \in Lasting("switchState", ActedOn) \cap Ended
      BY <2>4, <2>10 DEF Lasting
    <3> QED
      BY <2>2, <2>10, <3>1 DEF AsAsked, TimedAsAsked
  <2>11. ASSUME NEW i \in Acting, order[i].type = "switchState", autoOff # NoValue
         PROVE  hcuValue["on_off"] = TRUE
    <3>1. states[e].word = "on"
      BY <2>2, <2>4, <2>11 DEF AsAsked, TimedAsAsked
    <3> QED
      BY <2>6, <3>1
  <2> QED
    BY <2>7, <2>8, <2>9, <2>10, <2>11 DEF OrderIsReported
<1>2. StatusSpec => [](ReportInv /\ HandlingInv /\ OrderInv)
  BY ReportStart, ReportStep, HandlingStart, HandlingStep, OrderStart, OrderStep, PTL
     DEF StatusSpec
<1> QED
  BY <1>1, <1>2, HcuStaysUpToDate, PTL
=============================================================================
