------------------------ MODULE TargetTrackingProofs ------------------------
(***************************************************************************)
(* Theorems about TargetTracking for every set of commands, requests,      *)
(* targets and settings: when a command is superseded, what it leaves      *)
(* behind, whom it wakes and whose values it records; and what the two     *)
(* ways of sending a command, which use this bookkeeping, need of it.      *)
(***************************************************************************)
EXTENDS TargetTracking, FiniteSetTheorems, WellFoundedInduction, TLAPS

\* The sequence numbers follow the order of the calls.
SeqsOK ==
  \A c \in Cmd : /\ cmdSeq[c] <= commandSeq
                 /\ phase[c] = "new" <=> cmdSeq[c] = 0

On(s) == {c \in Active : Scp(c) = s}
Changing(k) == {c \in Active : KeyOf(c) = k}

\* The reference counts count the running commands.
CountsOK ==
  /\ IsFiniteSet(Active)
  /\ \A s \in Scope : activeCounts[s] = Cardinality(On(s))
  /\ \A k \in Key : targetActiveCounts[k] = Cardinality(Changing(k))

\* A running command's generation was handed out, and a setting nobody changes
\* has none.
GensOK ==
  /\ \A c \in Active : gen[c] >= 1 /\ gen[c] <= generations[KeyOf(c)]
  /\ \A k \in Key : Changing(k) = {} => generations[k] = 0

IInv == TypeOK /\ SeqsOK /\ CountsOK /\ GensOK /\ SupersededExact

-----------------------------------------------------------------------------
(* The shape of the steps.                                                 *)

LEMMA KeyType ==
  ASSUME TypeOK, NEW c \in Cmd
  PROVE  Scp(c) \in Scope /\ KeyOf(c) \in Key /\ request[c] \in Request
BY TablesAssumption DEF TypeOK, Scp, KeyOf, Key

\* Waking the commands that wait on a scope starts and ends none.
LEMMA WokenType ==
  ASSUME NEW ph \in [Cmd -> Phase], NEW s
  PROVE  /\ Woken(ph, s) \in [Cmd -> Phase]
         /\ \A c \in Cmd :
              /\ Woken(ph, s)[c] = ph[c]
                 \/ (ph[c] = "waiting" /\ Woken(ph, s)[c] = "woken")
BY DEF Woken, Phase

LEMMA EnterType ==
  ASSUME TypeOK, NEW c \in Cmd, Enter(c)
  PROVE  TypeOK'
<1>1. Scp(c) \in Scope /\ KeyOf(c) \in Key
  BY KeyType
<1>2. phase' \in [Cmd -> Phase] /\ scopeEvent' \in [Scope -> SUBSET Cmd]
  <2>1. phase \in [Cmd -> Phase] /\ "running" \in Phase
    BY DEF TypeOK, Phase
  <2>2. Woken(phase, Scp(c)) \in [Cmd -> Phase]
    BY <2>1, WokenType
  <2>3. phase' \in [Cmd -> Phase]
    BY <2>1, <2>2 DEF Enter
  <2>4. scopeEvent' \in [Scope -> SUBSET Cmd]
    BY <1>1 DEF TypeOK, Enter, Forgotten
  <2> QED
    BY <2>3, <2>4
<1>3. inflight' \in SUBSET Cmd /\ commandSeq' \in Nat /\ generations' \in [Key -> Nat]
  BY DEF TypeOK, Enter
<1>4. /\ cmdSeq' \in [Cmd -> Nat]
      /\ gen' \in [Cmd -> Nat]
      /\ sentFrom' \in [Cmd -> [Field -> Nat]]
  BY <1>1 DEF TypeOK, Enter
<1>5. activeCounts' \in [Scope -> Nat] /\ targetActiveCounts' \in [Key -> Nat]
  BY <1>1 DEF TypeOK, Enter
<1>6. request' \in [Cmd -> Request] /\ overrides' = overrides
  BY DEF TypeOK, Enter
<1> QED
  BY <1>2, <1>3, <1>4, <1>5, <1>6 DEF TypeOK

LEMMA RecordedType ==
  ASSUME TypeOK, NEW c \in Cmd, NEW from \in [Field -> Nat]
  PROVE  Recorded(c, from) \in [Scope -> [Field -> [seq : Nat, from : Nat]]]
<1> DEFINE fields == [f \in Field |->
        IF f \in Updates(c) /\ activeCounts[Scp(c)] > 1
             /\ overrides[Scp(c)][f].seq < cmdSeq[c]
          THEN [seq |-> cmdSeq[c], from |-> from[f]]
          ELSE overrides[Scp(c)][f]]
<1>1. Scp(c) \in Scope
  BY KeyType
<1>2. fields \in [Field -> [seq : Nat, from : Nat]]
  BY <1>1 DEF TypeOK
<1>3. Recorded(c, from) = [overrides EXCEPT ![Scp(c)] = fields]
  BY <1>1 DEF Recorded, TypeOK
<1> QED
  BY <1>1, <1>2, <1>3 DEF TypeOK

LEMMA PopInflightType ==
  ASSUME TypeOK, NEW c \in Cmd, NEW ph \in [Cmd -> Phase],
         NEW ev \in [Scope -> SUBSET Cmd], PopInflight(c, ph, ev)
  PROVE  /\ inflight' \in SUBSET Cmd
         /\ phase' \in [Cmd -> Phase]
         /\ scopeEvent' \in [Scope -> SUBSET Cmd]
         /\ \A d \in Cmd : \/ phase'[d] = ph[d]
                           \/ ph[d] = "waiting" /\ phase'[d] = "woken"
<1>1. Woken(ph, Scp(c)) \in [Cmd -> Phase]
  BY WokenType
<1>2. \A d \in Cmd : \/ Woken(ph, Scp(c))[d] = ph[d]
                     \/ ph[d] = "waiting" /\ Woken(ph, Scp(c))[d] = "woken"
  BY WokenType
<1>3. phase' = ph \/ phase' = Woken(ph, Scp(c))
  BY DEF PopInflight
<1>4. phase' \in [Cmd -> Phase]
  BY <1>1, <1>3
<1>5. \A d \in Cmd : \/ phase'[d] = ph[d]
                     \/ ph[d] = "waiting" /\ phase'[d] = "woken"
  BY <1>2, <1>3
<1>6. inflight' \in SUBSET Cmd /\ scopeEvent' \in [Scope -> SUBSET Cmd]
  BY KeyType DEF PopInflight, TypeOK
<1> QED
  BY <1>4, <1>5, <1>6

LEMMA ActiveCounted ==
  ASSUME TypeOK, CountsOK, NEW c \in Active
  PROVE  activeCounts[Scp(c)] >= 1 /\ targetActiveCounts[KeyOf(c)] >= 1
<1>1. c \in Cmd /\ Scp(c) \in Scope /\ KeyOf(c) \in Key
  BY KeyType DEF Active
<1>2. On(Scp(c)) \subseteq Active /\ Changing(KeyOf(c)) \subseteq Active
  BY DEF On, Changing
<1>3. IsFiniteSet(On(Scp(c))) /\ IsFiniteSet(Changing(KeyOf(c)))
  BY <1>2, FS_Subset DEF CountsOK
<1>4. c \in On(Scp(c)) /\ c \in Changing(KeyOf(c))
  BY DEF On, Changing
<1>5. Cardinality(On(Scp(c))) # 0 /\ Cardinality(Changing(KeyOf(c))) # 0
  BY <1>3, <1>4, FS_EmptySet
<1>6. activeCounts[Scp(c)] \in Nat /\ targetActiveCounts[KeyOf(c)] \in Nat
  BY <1>1 DEF TypeOK
<1> QED
  BY <1>1, <1>5, <1>6 DEF CountsOK

LEMMA LeaveType ==
  ASSUME TypeOK, CountsOK, NEW c \in Active, NEW ok \in BOOLEAN, Leave(c, ok)
  PROVE  TypeOK'
<1>1. c \in Cmd /\ Scp(c) \in Scope /\ KeyOf(c) \in Key
  BY KeyType DEF Active
<1> DEFINE ph == [phase EXCEPT ![c] = "done"]
           ev == EventsWithout(c)
<1>2. ph \in [Cmd -> Phase] /\ ev \in [Scope -> SUBSET Cmd]
  BY <1>1 DEF TypeOK, Phase, EventsWithout
<1>3. PopInflight(c, ph, ev)
  BY DEF Leave
<1>4. /\ inflight' \in SUBSET Cmd
      /\ phase' \in [Cmd -> Phase]
      /\ scopeEvent' \in [Scope -> SUBSET Cmd]
  <2> HIDE DEF ph, ev
  <2> QED
    BY <1>1, <1>2, <1>3, PopInflightType
<1>5. activeCounts' \in [Scope -> Nat] /\ targetActiveCounts' \in [Key -> Nat]
  BY <1>1, ActiveCounted DEF TypeOK, Leave
<1>6. generations' \in [Key -> Nat]
  BY <1>1 DEF TypeOK, Leave, GenerationsWithout
<1>7. overrides' \in [Scope -> [Field -> [seq : Nat, from : Nat]]]
  <2>1. [f \in Field |-> cmdSeq[c]] \in [Field -> Nat]
    BY <1>1 DEF TypeOK
  <2>2. Recorded(c, [f \in Field |-> cmdSeq[c]])
          \in [Scope -> [Field -> [seq : Nat, from : Nat]]]
    BY <1>1, <2>1, RecordedType
  <2>3. [f \in Field |-> NoOverride] \in [Field -> [seq : Nat, from : Nat]]
    BY DEF NoOverride
  <2>4. overrides \in [Scope -> [Field -> [seq : Nat, from : Nat]]]
    BY DEF TypeOK
  <2> QED
    BY <2>2, <2>3, <2>4 DEF Leave, OverridesWithout
<1> QED
  BY <1>4, <1>5, <1>6, <1>7 DEF TypeOK, Leave

-----------------------------------------------------------------------------
(* Which commands run, and how the reference counts follow.                 *)

LEMMA EnterActive ==
  ASSUME TypeOK, NEW c \in Cmd, Enter(c)
  PROVE  /\ c \notin Active
         /\ Active' = Active \cup {c}
         /\ \A d \in Cmd \ {c} : phase'[d] = "new" <=> phase[d] = "new"
         /\ phase'[c] = "running"
<1>1. phase \in [Cmd -> Phase] /\ phase[c] = "new"
  BY DEF TypeOK, Enter
<1>2. \A d \in Cmd : \/ Woken(phase, Scp(c))[d] = phase[d]
                     \/ phase[d] = "waiting" /\ Woken(phase, Scp(c))[d] = "woken"
  BY <1>1, WokenType
<1>3. Woken(phase, Scp(c)) \in [Cmd -> Phase]
  BY <1>1, WokenType
<1>4. /\ phase'[c] = "running"
      /\ \A d \in Cmd \ {c} : \/ phase'[d] = phase[d]
                              \/ phase[d] = "waiting" /\ phase'[d] = "woken"
  BY <1>1, <1>2, <1>3 DEF Enter
<1> QED
  BY <1>1, <1>4 DEF Active

LEMMA LeaveActive ==
  ASSUME TypeOK, NEW c \in Active, NEW ok \in BOOLEAN, Leave(c, ok)
  PROVE  /\ Active' = Active \ {c}
         /\ \A d \in Cmd : phase'[d] = "new" <=> phase[d] = "new"
<1> DEFINE ph == [phase EXCEPT ![c] = "done"]
           ev == EventsWithout(c)
<1>1. c \in Cmd /\ phase \in [Cmd -> Phase] /\ phase[c] # "new"
  BY DEF Active, TypeOK
<1>2. ph \in [Cmd -> Phase] /\ ev \in [Scope -> SUBSET Cmd]
  BY <1>1, KeyType DEF TypeOK, Phase, EventsWithout
<1>3. PopInflight(c, ph, ev)
  BY DEF Leave
<1>4. \A d \in Cmd : \/ phase'[d] = ph[d]
                     \/ ph[d] = "waiting" /\ phase'[d] = "woken"
  <2> HIDE DEF ph, ev
  <2> QED
    BY <1>1, <1>2, <1>3, PopInflightType
<1>5. phase'[c] = "done"
  BY <1>1, <1>4
<1>6. \A d \in Cmd \ {c} : \/ phase'[d] = phase[d]
                           \/ phase[d] = "waiting" /\ phase'[d] = "woken"
  BY <1>1, <1>4
<1> QED
  BY <1>1, <1>5, <1>6 DEF Active

\* Keys and scopes do not move once the requests are fixed.
LEMMA SameTargets ==
  ASSUME request' = request, NEW c \in Cmd
  PROVE  Scp(c)' = Scp(c) /\ KeyOf(c)' = KeyOf(c) /\ Updates(c)' = Updates(c)
           /\ Needs(c)' = Needs(c)
BY DEF Scp, KeyOf, Updates, Needs

LEMMA EnterCounts ==
  ASSUME TypeOK, CountsOK, NEW c \in Cmd, Enter(c)
  PROVE  CountsOK'
<1>1. Active' = Active \cup {c} /\ c \notin Active /\ request' = request
  BY EnterActive DEF Enter
<1>2. IsFiniteSet(Active)'
  BY <1>1, FS_AddElement DEF CountsOK
<1>3. ASSUME NEW s \in Scope PROVE activeCounts'[s] = Cardinality(On(s)')
  <2>1. On(s)' = IF s = Scp(c) THEN On(s) \cup {c} ELSE On(s)
    BY <1>1, SameTargets DEF On, Active
  <2>2. IsFiniteSet(On(s)) /\ c \notin On(s)
    BY <1>1, FS_Subset DEF On, CountsOK
  <2>3. activeCounts'[s] = IF s = Scp(c) THEN activeCounts[s] + 1 ELSE activeCounts[s]
    BY DEF Enter, TypeOK
  <2>4. Cardinality(On(s) \cup {c}) = Cardinality(On(s)) + 1
    BY <2>2, FS_AddElement
  <2>5. activeCounts[s] = Cardinality(On(s))
    BY DEF CountsOK
  <2> QED
    BY <2>1, <2>3, <2>4, <2>5
<1>4. ASSUME NEW k \in Key PROVE targetActiveCounts'[k] = Cardinality(Changing(k)')
  <2>1. Changing(k)' = IF k = KeyOf(c) THEN Changing(k) \cup {c} ELSE Changing(k)
    BY <1>1, SameTargets DEF Changing, Active
  <2>2. IsFiniteSet(Changing(k)) /\ c \notin Changing(k)
    BY <1>1, FS_Subset DEF Changing, CountsOK
  <2>3. targetActiveCounts'[k] = IF k = KeyOf(c) THEN targetActiveCounts[k] + 1
                                                 ELSE targetActiveCounts[k]
    BY DEF Enter, TypeOK
  <2>4. Cardinality(Changing(k) \cup {c}) = Cardinality(Changing(k)) + 1
    BY <2>2, FS_AddElement
  <2>5. targetActiveCounts[k] = Cardinality(Changing(k))
    BY DEF CountsOK
  <2> QED
    BY <2>1, <2>3, <2>4, <2>5
<1> QED
  BY <1>2, <1>3, <1>4 DEF CountsOK

LEMMA LeaveCounts ==
  ASSUME TypeOK, CountsOK, NEW c \in Active, NEW ok \in BOOLEAN, Leave(c, ok)
  PROVE  CountsOK'
<1>1. Active' = Active \ {c} /\ request' = request
  BY LeaveActive DEF Leave
<1>2. IsFiniteSet(Active)'
  BY <1>1, FS_RemoveElement DEF CountsOK
<1>3. ASSUME NEW s \in Scope PROVE activeCounts'[s] = Cardinality(On(s)')
  <2>1. On(s)' = IF s = Scp(c) THEN On(s) \ {c} ELSE On(s)
    BY <1>1, SameTargets DEF On, Active
  <2>2. IsFiniteSet(On(s)) /\ (s = Scp(c) => c \in On(s))
    BY FS_Subset DEF On, CountsOK
  <2>3. activeCounts'[s] = IF s = Scp(c) THEN activeCounts[s] - 1 ELSE activeCounts[s]
    BY DEF Leave, TypeOK
  <2>4. s = Scp(c) => Cardinality(On(s) \ {c}) = Cardinality(On(s)) - 1
    BY <2>2, FS_RemoveElement
  <2>5. activeCounts[s] = Cardinality(On(s))
    BY DEF CountsOK
  <2> QED
    BY <2>1, <2>3, <2>4, <2>5
<1>4. ASSUME NEW k \in Key PROVE targetActiveCounts'[k] = Cardinality(Changing(k)')
  <2>1. Changing(k)' = IF k = KeyOf(c) THEN Changing(k) \ {c} ELSE Changing(k)
    BY <1>1, SameTargets DEF Changing, Active
  <2>2. IsFiniteSet(Changing(k)) /\ (k = KeyOf(c) => c \in Changing(k))
    BY FS_Subset DEF Changing, CountsOK
  <2>3. targetActiveCounts'[k] = IF k = KeyOf(c) THEN targetActiveCounts[k] - 1
                                                 ELSE targetActiveCounts[k]
    BY DEF Leave, TypeOK
  <2>4. k = KeyOf(c) => Cardinality(Changing(k) \ {c}) = Cardinality(Changing(k)) - 1
    BY <2>2, FS_RemoveElement
  <2>5. targetActiveCounts[k] = Cardinality(Changing(k))
    BY DEF CountsOK
  <2> QED
    BY <2>1, <2>3, <2>4, <2>5
<1> QED
  BY <1>2, <1>3, <1>4 DEF CountsOK

\* A setting is counted exactly when some running command changes it.
LEMMA CountedIffChanging ==
  ASSUME TypeOK, CountsOK, NEW k \in Key
  PROVE  /\ targetActiveCounts[k] > 0 <=> Changing(k) # {}
         /\ targetActiveCounts[k] = 1 => \A c, d \in Changing(k) : c = d
<1>1. IsFiniteSet(Changing(k))
  BY FS_Subset DEF Changing, CountsOK
<1>2. targetActiveCounts[k] = Cardinality(Changing(k)) /\ targetActiveCounts[k] \in Nat
  BY DEF CountsOK, TypeOK
<1>3. targetActiveCounts[k] > 0 <=> Changing(k) # {}
  BY <1>1, <1>2, FS_EmptySet
<1>4. ASSUME targetActiveCounts[k] = 1, NEW c \in Changing(k), NEW d \in Changing(k)
      PROVE  c = d
  <2>1. Cardinality(Changing(k)) = 1
    BY <1>2, <1>4
  <2>2. /\ IsFiniteSet(Changing(k) \ {c})
        /\ Cardinality(Changing(k) \ {c}) = Cardinality(Changing(k)) - 1
    BY <1>1, FS_RemoveElement
  <2>3. Changing(k) \ {c} = {}
    BY <2>1, <2>2, FS_EmptySet
  <2> QED
    BY <2>3
<1> QED
  BY <1>3, <1>4

-----------------------------------------------------------------------------
(* The inductive invariant.                                                 *)

LEMMA EnterStep ==
  ASSUME IInv, NEW c \in Cmd, Enter(c)
  PROVE  IInv'
<1> USE DEF IInv
<1>1. TypeOK' /\ CountsOK'
  BY EnterType, EnterCounts
<1>2. /\ c \notin Active /\ Active' = Active \cup {c} /\ request' = request
      /\ \A d \in Cmd \ {c} : phase'[d] = "new" <=> phase[d] = "new"
      /\ phase'[c] = "running" /\ phase[c] = "new"
  BY EnterActive DEF Enter
<1>3. /\ cmdSeq'[c] = commandSeq + 1 /\ commandSeq' = commandSeq + 1
      /\ \A d \in Cmd \ {c} : cmdSeq'[d] = cmdSeq[d] /\ gen'[d] = gen[d]
      /\ gen'[c] = generations[KeyOf(c)] + 1
  BY DEF TypeOK, Enter
<1>4. SeqsOK'
  BY <1>2, <1>3 DEF SeqsOK, TypeOK
<1>5. KeyOf(c) \in Key /\ KeyOf(c) \notin Overridden(c)
  BY KeyType, TablesAssumption DEF Overridden, KeyOf
<1>6. \A k \in Key : generations'[k] =
        IF k \in {KeyOf(c)} \cup Overridden(c) THEN generations[k] + 1 ELSE generations[k]
  BY DEF Enter
<1>7. \A d \in Cmd : Scp(d)' = Scp(d) /\ KeyOf(d)' = KeyOf(d) /\ KeyOf(d) \in Key
  BY <1>2, SameTargets, KeyType
<1>8. GensOK'
  <2>1. ASSUME NEW d \in Active'
        PROVE  gen'[d] >= 1 /\ gen'[d] <= generations'[KeyOf(d)']
    <3>1. CASE d = c
      BY <1>3, <1>5, <1>6, <1>7, <3>1 DEF TypeOK
    <3>2. CASE d # c
      <4>1. d \in Active /\ d \in Cmd /\ gen'[d] = gen[d] /\ KeyOf(d)' = KeyOf(d)
        BY <1>2, <1>3, <1>7, <3>2 DEF Active
      <4>2. /\ gen[d] \in Nat /\ KeyOf(d) \in Key /\ generations[KeyOf(d)] \in Nat
            /\ gen[d] >= 1 /\ gen[d] <= generations[KeyOf(d)]
        BY <1>7, <4>1 DEF GensOK, TypeOK
      <4>3. generations'[KeyOf(d)] >= generations[KeyOf(d)]
        BY <1>6, <4>2
      <4>4. generations'[KeyOf(d)] \in Nat
        BY <1>1, <4>2 DEF TypeOK
      <4> QED
        BY <4>1, <4>2, <4>3, <4>4
    <3> QED
      BY <3>1, <3>2
  <2>2. ASSUME NEW k \in Key, Changing(k)' = {} PROVE generations'[k] = 0
    <3>1. Changing(k) = {} /\ k # KeyOf(c)
      BY <1>2, <1>7, <2>2 DEF Changing, Active
    <3>2. k \notin Overridden(c)
      BY <3>1, CountedIffChanging DEF Overridden
    <3> QED
      BY <1>6, <3>1, <3>2 DEF GensOK
  <2> QED
    BY <2>1, <2>2 DEF GensOK
<1>9. SupersededExact'
  <2>1. ASSUME NEW d \in Active'
        PROVE  Superseded(d)' <=> \E e \in Cmd : CalledLater(e, d)'
    <3>1. CASE d = c
      <4>1. ~Superseded(d)'
        BY <1>3, <1>5, <1>6, <1>7, <3>1 DEF Superseded
      <4>2. \A e \in Cmd : ~CalledLater(e, d)'
        BY <1>1, <1>3, <1>4, <3>1 DEF CalledLater, SeqsOK, TypeOK
      <4> QED
        BY <4>1, <4>2
    <3>2. CASE d # c
      <4>1. d \in Active /\ d \in Cmd
        BY <1>2, <3>2 DEF Active
      <4>2. gen'[d] = gen[d] /\ gen[d] <= generations[KeyOf(d)]
        BY <1>3, <3>2, <4>1 DEF GensOK
      <4>3. \A e \in Cmd \ {c} : CalledLater(e, d)' <=> CalledLater(e, d)
        BY <1>2, <1>3, <3>2, <4>1 DEF CalledLater
      <4>4. ~CalledLater(c, d)
        BY <1>2 DEF CalledLater
      <4>5. CalledLater(c, d)' <=> <<request[c], request[d]>> \in Replacing
        BY <1>2, <1>3, <3>2, <4>1 DEF CalledLater, SeqsOK, TypeOK
      <4>6. d \in Changing(KeyOf(d)) /\ targetActiveCounts[KeyOf(d)] > 0
        BY <1>7, <4>1, CountedIffChanging DEF Changing
      <4>7. <<request[c], request[d]>> \in Replacing
              <=> KeyOf(d) \in {KeyOf(c)} \cup Overridden(c)
        BY <1>7, <4>1, <4>6, KeyType DEF Replacing, KeyOf, Scp, Overridden
      <4>8. CASE KeyOf(d) \in {KeyOf(c)} \cup Overridden(c)
        <5>1. generations'[KeyOf(d)] = generations[KeyOf(d)] + 1
          BY <1>6, <1>7, <4>1, <4>8
        <5>2. Superseded(d)'
          BY <1>7, <4>1, <4>2, <5>1 DEF Superseded, TypeOK
        <5> QED
          BY <4>5, <4>7, <4>8, <5>2
      <4>9. CASE KeyOf(d) \notin {KeyOf(c)} \cup Overridden(c)
        <5>1. Superseded(d)' <=> Superseded(d)
          BY <1>6, <1>7, <4>1, <4>2, <4>9 DEF Superseded
        <5> QED
          BY <4>1, <4>3, <4>4, <4>5, <4>7, <4>9, <5>1 DEF SupersededExact
      <4> QED
        BY <4>8, <4>9
    <3> QED
      BY <3>1, <3>2
  <2> QED
    BY <2>1 DEF SupersededExact
<1> QED
  BY <1>1, <1>4, <1>8, <1>9

\* A command that leaves takes the generation of no running command with it.
LEMMA LeaveKeepsGenerations ==
  ASSUME TypeOK, CountsOK, NEW c \in Active, NEW ok \in BOOLEAN, Leave(c, ok),
         NEW d \in Active \ {c}
  PROVE  generations'[KeyOf(d)] = generations[KeyOf(d)]
<1>1. c \in Cmd /\ d \in Cmd /\ KeyOf(c) \in Key /\ KeyOf(d) \in Key
  BY KeyType DEF Active
<1>2. CASE KeyOf(d) = KeyOf(c)
  <2>1. targetActiveCounts[KeyOf(c)] # 1
    BY <1>1, <1>2, CountedIffChanging DEF Changing
  <2> QED
    BY <1>1, <1>2, <2>1 DEF Leave, GenerationsWithout, TypeOK
<1>3. CASE KeyOf(d) # KeyOf(c)
  BY <1>1, <1>3 DEF Leave, GenerationsWithout, TypeOK
<1> QED
  BY <1>2, <1>3

LEMMA LeaveStep ==
  ASSUME IInv, NEW c \in Active, NEW ok \in BOOLEAN, Leave(c, ok)
  PROVE  IInv'
<1> USE DEF IInv
<1>1. TypeOK' /\ CountsOK'
  BY LeaveType, LeaveCounts
<1>2. /\ Active' = Active \ {c} /\ request' = request /\ c \in Cmd
      /\ \A d \in Cmd : phase'[d] = "new" <=> phase[d] = "new"
      /\ cmdSeq' = cmdSeq /\ commandSeq' = commandSeq /\ gen' = gen
  BY LeaveActive DEF Leave, Active
<1>3. SeqsOK'
  BY <1>2 DEF SeqsOK
<1>4. \A d \in Cmd : KeyOf(d)' = KeyOf(d) /\ KeyOf(d) \in Key
  BY <1>2, SameTargets, KeyType
<1>5. \A d \in Active' : generations'[KeyOf(d)] = generations[KeyOf(d)]
  BY <1>2, LeaveKeepsGenerations
<1>6. GensOK'
  <2>1. ASSUME NEW d \in Active'
        PROVE  gen'[d] >= 1 /\ gen'[d] <= generations'[KeyOf(d)']
    BY <1>2, <1>4, <1>5 DEF GensOK, Active
  <2>2. ASSUME NEW k \in Key, Changing(k)' = {} PROVE generations'[k] = 0
    <3>1. CASE k = KeyOf(c)
      <4>1. \A d \in Changing(k) : d = c
        BY <1>2, <1>4, <2>2 DEF Changing, Active
      <4>2. Changing(k) = {c}
        BY <1>2, <1>4, <3>1, <4>1 DEF Changing
      <4>3. IsFiniteSet({}) /\ Cardinality({}) = 0
              /\ Cardinality({} \cup {c}) = Cardinality({}) + 1
        BY FS_EmptySet, FS_AddElement
      <4>4. targetActiveCounts[k] = 1
        BY <4>2, <4>3 DEF CountsOK
      <4> QED
        BY <3>1, <4>4 DEF Leave, GenerationsWithout, TypeOK
    <3>2. CASE k # KeyOf(c)
      <4>1. Changing(k) = {}
        BY <1>2, <1>4, <2>2, <3>2 DEF Changing, Active
      <4> QED
        BY <3>2, <4>1 DEF GensOK, Leave, GenerationsWithout, TypeOK
    <3> QED
      BY <3>1, <3>2
  <2> QED
    BY <2>1, <2>2 DEF GensOK
<1>7. SupersededExact'
  <2>1. ASSUME NEW d \in Active'
        PROVE  Superseded(d)' <=> \E e \in Cmd : CalledLater(e, d)'
    <3>1. d \in Active /\ d \in Cmd
      BY <1>2 DEF Active
    <3>2. Superseded(d)' <=> Superseded(d)
      BY <1>2, <1>4, <1>5, <3>1 DEF Superseded
    <3>3. \A e \in Cmd : CalledLater(e, d)' <=> CalledLater(e, d)
      BY <1>2 DEF CalledLater
    <3> QED
      BY <3>1, <3>2, <3>3 DEF SupersededExact
  <2> QED
    BY <2>1 DEF SupersededExact
<1> QED
  BY <1>1, <1>3, <1>6, <1>7

\* A step that starts and ends no command and leaves the counters alone.
Quiet ==
  /\ UNCHANGED <<request, cmdSeq, gen, counters>>
  /\ Active' = Active
  /\ \A d \in Cmd : phase'[d] = "new" <=> phase[d] = "new"

LEMMA QuietStep ==
  ASSUME IInv, TypeOK', Quiet
  PROVE  IInv'
<1> USE DEF Quiet
<1>1. \A s \in Scope : On(s)' = On(s)
  BY DEF On, Scp
<1>2. \A k \in Key : Changing(k)' = Changing(k)
  BY DEF Changing, KeyOf, Scp
<1>3. /\ activeCounts' = activeCounts /\ targetActiveCounts' = targetActiveCounts
      /\ generations' = generations /\ commandSeq' = commandSeq
      /\ request' = request /\ cmdSeq' = cmdSeq /\ gen' = gen
  BY DEF counters
<1>4. CountsOK' /\ SeqsOK'
  BY <1>1, <1>2, <1>3 DEF IInv, CountsOK, SeqsOK
<1>5. GensOK'
  BY <1>2, <1>3 DEF IInv, GensOK, KeyOf, Scp
<1>6. SupersededExact'
  BY <1>3 DEF IInv, SupersededExact, CalledLater, Superseded, KeyOf, Scp
<1> QED
  BY <1>4, <1>5, <1>6 DEF IInv

\* A change of one running command's phase to another running phase.
LEMMA MoveActive ==
  ASSUME TypeOK, NEW c \in Active, NEW p \in {"running", "waiting", "woken"},
         phase' = [phase EXCEPT ![c] = p]
  PROVE  /\ Active' = Active
         /\ \A d \in Cmd : phase'[d] = "new" <=> phase[d] = "new"
         /\ phase' \in [Cmd -> Phase]
BY DEF Active, TypeOK, Phase

LEMMA RecordStep ==
  ASSUME IInv, NEW c \in Cmd, Record(c)
  PROVE  IInv' /\ Quiet
<1> USE DEF IInv
<1>1. phase \in [Cmd -> Phase] /\ scopeEvent \in [Scope -> SUBSET Cmd]
        /\ sentFrom[c] \in [Field -> Nat]
  BY DEF TypeOK
<1>2. PopInflight(c, phase, scopeEvent)
  BY DEF Record
<1>3. /\ inflight' \in SUBSET Cmd
      /\ phase' \in [Cmd -> Phase]
      /\ scopeEvent' \in [Scope -> SUBSET Cmd]
      /\ \A d \in Cmd : \/ phase'[d] = phase[d]
                        \/ phase[d] = "waiting" /\ phase'[d] = "woken"
  BY <1>1, <1>2, PopInflightType
<1>4. overrides' \in [Scope -> [Field -> [seq : Nat, from : Nat]]]
  BY <1>1, RecordedType DEF Record
<1>5. UNCHANGED <<request, cmdSeq, gen, sentFrom, counters>>
  BY DEF Record
<1>6. TypeOK'
  BY <1>3, <1>4, <1>5 DEF TypeOK, counters
<1>7. Active' = Active /\ \A d \in Cmd : phase'[d] = "new" <=> phase[d] = "new"
  BY <1>3 DEF Active
<1> QED
  BY <1>5, <1>6, <1>7, QuietStep DEF Quiet

LEMMA WaitingStep ==
  ASSUME IInv, NEW c \in Cmd, BeginWait(c) \/ WaitAgain(c) \/ StopWaiting(c)
  PROVE  IInv' /\ Quiet
<1> USE DEF IInv
<1>1. c \in Active /\ Scp(c) \in Scope
  BY KeyType DEF Active, BeginWait, WaitAgain, StopWaiting
<1>2. /\ UNCHANGED <<request, cmdSeq, gen, sentFrom, counters, inflight, overrides>>
      /\ \E p \in {"running", "waiting", "woken"} : phase' = [phase EXCEPT ![c] = p]
      /\ scopeEvent' \in [Scope -> SUBSET Cmd]
  <2>1. CASE Wait(c)
    <3>1. phase' = [phase EXCEPT ![c] = "waiting"]
          /\ UNCHANGED <<request, cmdSeq, gen, sentFrom, counters, inflight, overrides>>
      BY <2>1 DEF Wait
    <3>2. scopeEvent' \in [Scope -> SUBSET Cmd]
      BY <1>1, <2>1 DEF Wait, TypeOK
    <3> QED
      BY <3>1, <3>2
  <2>2. CASE StopWaiting(c)
    <3>1. phase' = [phase EXCEPT ![c] = "running"]
          /\ UNCHANGED <<request, cmdSeq, gen, sentFrom, counters, inflight, overrides>>
      BY <2>2 DEF StopWaiting, Resume
    <3>2. scopeEvent' \in [Scope -> SUBSET Cmd]
      BY <1>1, <2>2 DEF StopWaiting, Resume, TypeOK
    <3> QED
      BY <3>1, <3>2
  <2> QED
    BY <2>1, <2>2 DEF BeginWait, WaitAgain
<1>3. /\ Active' = Active /\ phase' \in [Cmd -> Phase]
      /\ \A d \in Cmd : phase'[d] = "new" <=> phase[d] = "new"
  BY <1>1, <1>2, MoveActive
<1>4. TypeOK'
  BY <1>2, <1>3 DEF TypeOK, counters
<1> QED
  BY <1>2, <1>3, <1>4, QuietStep DEF Quiet

LEMMA RefreshStep ==
  ASSUME IInv, NEW c \in Cmd, Refresh(c)
  PROVE  IInv' /\ Quiet
<1> USE DEF IInv
<1>1. Refreshed(c) \in [Field -> Nat]
  BY KeyType DEF Refreshed, TypeOK
<1>2. sentFrom' \in [Cmd -> [Field -> Nat]]
  BY <1>1 DEF Refresh, TypeOK
<1>3. UNCHANGED <<request, phase, cmdSeq, gen, counters, inflight, overrides, scopeEvent>>
  BY DEF Refresh
<1>4. TypeOK'
  BY <1>2, <1>3 DEF TypeOK, counters
<1>5. Active' = Active
  BY <1>3 DEF Active
<1> QED
  BY <1>3, <1>4, <1>5, QuietStep DEF Quiet

LEMMA InitIInv == TrackInit => IInv
<1> SUFFICES ASSUME TrackInit PROVE IInv
  OBVIOUS
<1>1. Active = {}
  BY DEF TrackInit, Active
<1>2. TypeOK
  BY DEF TrackInit, TypeOK, Phase, NoOverride
<1>3. CountsOK
  BY <1>1, FS_EmptySet DEF TrackInit, CountsOK, On, Changing
<1>4. SeqsOK /\ GensOK /\ SupersededExact
  BY <1>1 DEF TrackInit, SeqsOK, GensOK, SupersededExact
<1> QED
  BY <1>2, <1>3, <1>4 DEF IInv

LEMMA NextIInv == IInv /\ [TrackNext]_trackVars => IInv'
<1> SUFFICES ASSUME IInv, [TrackNext]_trackVars PROVE IInv'
  OBVIOUS
<1>1. CASE UNCHANGED trackVars
  <2>1. UNCHANGED <<request, phase, cmdSeq, gen, sentFrom, counters, inflight,
                    overrides, scopeEvent>>
    BY <1>1 DEF trackVars
  <2>2. TypeOK' /\ Active' = Active
    BY <2>1 DEF IInv, TypeOK, Active, counters
  <2> QED
    BY <2>1, <2>2, QuietStep DEF Quiet, counters
<1>2. CASE TrackNext
  <2>1. PICK c \in Cmd : \/ Enter(c) \/ Record(c) \/ BeginWait(c) \/ WaitAgain(c)
                         \/ StopWaiting(c) \/ Refresh(c) \/ Succeed(c) \/ Fail(c)
    BY <1>2 DEF TrackNext
  <2>2. CASE Succeed(c)
    BY <2>2, LeaveStep DEF Succeed, Active
  <2>3. CASE Fail(c)
    BY <2>3, LeaveStep DEF Fail
  <2> QED
    BY <2>1, <2>2, <2>3, EnterStep, RecordStep, WaitingStep, RefreshStep
<1> QED
  BY <1>1, <1>2

\* Every variable keeps its shape for every number of commands and targets.
THEOREM TypeCorrect == TrackSpec => []TypeOK
<1>1. IInv => TypeOK
  BY DEF IInv
<1> QED
  BY <1>1, InitIInv, NextIInv, PTL DEF TrackSpec

\* However many commands overlap, on whatever targets and in whatever order
\* they end, _is_target_superseded answers its docstring's question exactly.
THEOREM SupersededIsExact == TrackSpec => []SupersededExact
<1>1. IInv => SupersededExact
  BY DEF IInv
<1> QED
  BY <1>1, InitIInv, NextIInv, PTL DEF TrackSpec

-----------------------------------------------------------------------------
(* TargetTracking implements Supersession: the counters, generations and   *)
(* reference counts are one way to keep the promise about stale commands.  *)

Stale == {c \in Active : Superseded(c)}
PromiseVars == <<request, Active, Stale>>

\* The stale commands are those that a command called later replaces.
LEMMA StaleIsReplaced ==
  ASSUME IInv
  PROVE  Stale = {c \in Active : \E d \in Cmd : CalledLater(d, c)}
BY DEF IInv, SupersededExact, Stale

LEMMA EnterStarts ==
  ASSUME IInv, NEW d \in Cmd, Enter(d)
  PROVE  Promise!Start(d)
<1>1. IInv' /\ TypeOK /\ SeqsOK
  BY EnterStep DEF IInv
<1>2. /\ d \notin Active /\ Active' = Active \cup {d} /\ request' = request
      /\ \A c \in Cmd \ {d} : phase'[c] = "new" <=> phase[c] = "new"
      /\ phase'[d] = "running" /\ phase[d] = "new"
  BY <1>1, EnterActive DEF Enter
<1>3. /\ cmdSeq'[d] = commandSeq + 1
      /\ \A c \in Cmd \ {d} : cmdSeq'[c] = cmdSeq[c]
  BY <1>1 DEF TypeOK, Enter
<1>4. ASSUME NEW e \in Cmd PROVE ~CalledLater(e, d)'
  <2>1. commandSeq \in Nat /\ cmdSeq[e] \in Nat /\ cmdSeq[e] <= commandSeq
    BY <1>1 DEF SeqsOK, TypeOK
  <2>2. ~(cmdSeq'[e] > cmdSeq'[d])
    BY <1>3, <2>1
  <2> QED
    BY <2>2 DEF CalledLater
<1>5. ASSUME NEW c \in Active
      PROVE  (\E e \in Cmd : CalledLater(e, c)')
               <=> (\E e \in Cmd : CalledLater(e, c)) \/ <<request[d], request[c]>> \in Replacing
  <2>1. c \in Cmd /\ c # d
    BY <1>2 DEF Active
  <2>2. \A e \in Cmd \ {d} : CalledLater(e, c)' <=> CalledLater(e, c)
    BY <1>2, <1>3, <2>1 DEF CalledLater
  <2>3. ~CalledLater(d, c)
    BY <1>2 DEF CalledLater
  <2>4. CalledLater(d, c)' <=> <<request[d], request[c]>> \in Replacing
    BY <1>1, <1>2, <1>3, <2>1 DEF CalledLater, SeqsOK, TypeOK
  <2> QED
    BY <2>2, <2>3, <2>4
<1>6. Stale' = Stale \cup {c \in Active : <<request[d], request[c]>> \in Replacing}
  <2>1. Stale = {c \in Active : \E e \in Cmd : CalledLater(e, c)}
    BY StaleIsReplaced
  <2>2. Stale' = {c \in Active' : \E e \in Cmd : CalledLater(e, c)'}
    BY <1>1 DEF IInv, SupersededExact, Stale
  <2> QED
    BY <1>2, <1>4, <1>5, <2>1, <2>2
<1> QED
  BY <1>2, <1>6 DEF Promise!Start, Stale

LEMMA LeaveFinishes ==
  ASSUME IInv, NEW c \in Active, NEW ok \in BOOLEAN, Leave(c, ok)
  PROVE  Promise!Finish(c)
<1>1. IInv'
  BY LeaveStep
<1>2. /\ Active' = Active \ {c} /\ request' = request /\ cmdSeq' = cmdSeq
      /\ \A d \in Cmd : phase'[d] = "new" <=> phase[d] = "new"
  BY LeaveActive DEF Leave, IInv
<1>3. \A d, e \in Cmd : CalledLater(e, d)' <=> CalledLater(e, d)
  BY <1>2 DEF CalledLater
<1>4. Stale' = Stale \ {c}
  <2>1. Stale = {d \in Active : \E e \in Cmd : CalledLater(e, d)}
    BY StaleIsReplaced
  <2>2. Stale' = {d \in Active' : \E e \in Cmd : CalledLater(e, d)'}
    BY <1>1 DEF IInv, SupersededExact, Stale
  <2> QED
    BY <1>2, <1>3, <2>1, <2>2 DEF Active
<1> QED
  BY <1>2, <1>4 DEF Promise!Finish, Stale

LEMMA QuietStutters ==
  ASSUME Quiet
  PROVE  UNCHANGED PromiseVars
BY DEF Quiet, counters, PromiseVars, Stale, Superseded, KeyOf, Scp

LEMMA NextRefines ==
  ASSUME IInv, [TrackNext]_trackVars
  PROVE  [Promise!Next]_PromiseVars
<1>1. CASE UNCHANGED trackVars
  BY <1>1, QuietStutters DEF trackVars, Quiet, Active
<1>2. CASE TrackNext
  <2>1. PICK c \in Cmd : \/ Enter(c) \/ Record(c) \/ BeginWait(c) \/ WaitAgain(c)
                         \/ StopWaiting(c) \/ Refresh(c) \/ Succeed(c) \/ Fail(c)
    BY <1>2 DEF TrackNext
  <2>2. CASE Enter(c)
    BY <2>2, EnterStarts DEF Promise!Next
  <2>3. CASE Succeed(c) \/ Fail(c)
    <3>1. c \in Active /\ \E ok \in BOOLEAN : Leave(c, ok)
      BY <2>3 DEF Succeed, Fail, Active
    <3> QED
      BY <3>1, LeaveFinishes DEF Promise!Next
  <2>4. CASE Record(c) \/ BeginWait(c) \/ WaitAgain(c) \/ StopWaiting(c) \/ Refresh(c)
    BY <2>4, RecordStep, WaitingStep, RefreshStep, QuietStutters
  <2> QED
    BY <2>1, <2>2, <2>3, <2>4
<1> QED
  BY <1>1, <1>2

\* The bookkeeping of overlapping commands (_track_target_command) keeps the
\* promise: for all commands, targets and settings, a running command becomes
\* stale when, and only when, a command that replaces it starts.
THEOREM TrackingKeepsPromise == TrackSpec => ImplementsSupersession
<1>1. TrackInit => Promise!Init
  BY DEF TrackInit, Promise!Init, Active
<1>2. IInv /\ [TrackNext]_trackVars => [Promise!Next]_PromiseVars
  BY NextRefines
<1> QED
  BY <1>1, <1>2, InitIInv, NextIInv, PTL
    DEF TrackSpec, ImplementsSupersession, Promise!Spec, PromiseVars, Stale

-----------------------------------------------------------------------------
Fresh == [f \in Field |-> NoOverride]

\* A target nobody runs on keeps no values and no event, and only running
\* commands are listed as in flight.
LeftoversOK ==
  /\ \A s \in Scope : On(s) = {} => overrides[s] = Fresh /\ scopeEvent[s] = {}
  /\ inflight \subseteq Active

\* The last body of a running command had its own value of a shared field, or
\* that of a newer command, which is then recorded.
SentOK ==
  \A c \in Active, f \in Field :
    sentFrom[c][f] = cmdSeq[c] \/ overrides[Scp(c)][f].seq > cmdSeq[c]

FullInv == IInv /\ LeftoversOK /\ NoLostWakeup /\ RecordedByItsAuthor /\ SentOK

-----------------------------------------------------------------------------
(* Helpers.                                                                 *)

\* Dropping the in-flight fields of a command wakes all that wait on its scope
\* and disturbs no other scope.
LEMMA PopInflightWakes ==
  ASSUME TypeOK, NEW c \in Cmd, NEW ph \in [Cmd -> Phase],
         NEW ev \in [Scope -> SUBSET Cmd], PopInflight(c, ph, ev)
  PROVE  /\ c \in inflight => \A d \in scopeEvent[Scp(c)] : phase'[d] # "waiting"
         /\ \A d \in Cmd : phase'[d] = "waiting" => ph[d] = "waiting"
         /\ \A s \in Scope : \/ scopeEvent'[s] = ev[s]
                             \/ s = Scp(c) /\ c \in inflight /\ scopeEvent'[s] = {}
         /\ inflight' = inflight \ {c}
<1>1. Scp(c) \in Scope /\ scopeEvent[Scp(c)] \in SUBSET Cmd
  BY KeyType DEF TypeOK
<1>2. c \in inflight => \A d \in scopeEvent[Scp(c)] : phase'[d] # "waiting"
  BY <1>1 DEF PopInflight, Woken
<1>3. \A d \in Cmd : phase'[d] = "waiting" => ph[d] = "waiting"
  BY DEF PopInflight, Woken
<1>4. \A s \in Scope : \/ scopeEvent'[s] = ev[s]
                       \/ s = Scp(c) /\ c \in inflight /\ scopeEvent'[s] = {}
  BY <1>1 DEF PopInflight
<1>5. inflight' = inflight \ {c}
  BY DEF PopInflight
<1> QED
  BY <1>2, <1>3, <1>4, <1>5

\* Recording touches the entries of one scope, never with an older number.
LEMMA RecordedEntry ==
  ASSUME TypeOK, NEW c \in Cmd, NEW from \in [Field -> Nat], NEW s \in Scope,
         NEW f \in Field
  PROVE  \/ Recorded(c, from)[s][f] = overrides[s][f]
         \/ /\ s = Scp(c) /\ overrides[s][f].seq < cmdSeq[c]
            /\ Recorded(c, from)[s][f] = [seq |-> cmdSeq[c], from |-> from[f]]
BY KeyType DEF Recorded, TypeOK

\* Two running commands on a target are counted as more than one.
LEMMA NotAlone ==
  ASSUME TypeOK, CountsOK, NEW c \in Active, NEW d \in Active,
         c # d, Scp(c) = Scp(d)
  PROVE  activeCounts[Scp(c)] # 1
<1>1. c \in Cmd /\ Scp(c) \in Scope
  BY KeyType DEF Active
<1>2. IsFiniteSet(On(Scp(c)))
  BY FS_Subset DEF On, CountsOK
<1>3. c \in On(Scp(c)) /\ d \in On(Scp(c)) \ {c}
  BY DEF On
<1>4. /\ IsFiniteSet(On(Scp(c)) \ {c})
      /\ Cardinality(On(Scp(c)) \ {c}) = Cardinality(On(Scp(c))) - 1
  BY <1>2, <1>3, FS_RemoveElement
<1>5. Cardinality(On(Scp(c)) \ {c}) # 0
  BY <1>3, <1>4, FS_EmptySet
<1>6. activeCounts[Scp(c)] = Cardinality(On(Scp(c))) /\ activeCounts[Scp(c)] \in Nat
  BY <1>1 DEF CountsOK, TypeOK
<1> QED
  BY <1>4, <1>5, <1>6

\* A command alone on its target is counted as one.
LEMMA AloneCounted ==
  ASSUME TypeOK, CountsOK, NEW c \in Active, On(Scp(c)) = {c}
  PROVE  activeCounts[Scp(c)] = 1
<1>1. c \in Cmd /\ Scp(c) \in Scope
  BY KeyType DEF Active
<1>2. /\ IsFiniteSet({}) /\ Cardinality({}) = 0
      /\ Cardinality({} \cup {c}) = Cardinality({}) + 1
  BY FS_EmptySet, FS_AddElement
<1> QED
  BY <1>1, <1>2 DEF CountsOK

\* What keeps a waiting command waiting: it is not superseded, and the newer
\* command it waits for stays listed.
LEMMA StillWaits ==
  ASSUME NEW d \in Cmd, NEW e \in inflight, e \in inflight', e \in Cmd,
         Scp(e) = Scp(d), cmdSeq[e] > cmdSeq[d], Updates(e) \cap Needs(d) # {},
         request' = request, cmdSeq'[d] = cmdSeq[d], cmdSeq'[e] = cmdSeq[e],
         ~Superseded(d)'
  PROVE  MustWait(d)'
<1>1. /\ Scp(e)' = Scp(e) /\ Scp(d)' = Scp(d)
      /\ Updates(e)' = Updates(e) /\ Needs(d)' = Needs(d)
  BY SameTargets
<1>2. NewerInFlight(d)'
  BY <1>1 DEF NewerInFlight
<1> QED
  BY <1>2 DEF MustWait

-----------------------------------------------------------------------------
(* Each step keeps the invariant.                                           *)

LEMMA EnterKeeps ==
  ASSUME FullInv, NEW c \in Cmd, Enter(c)
  PROVE  FullInv'
<1> USE DEF FullInv, IInv
<1>1. /\ c \notin Active /\ Active' = Active \cup {c} /\ request' = request
      /\ phase'[c] = "running" /\ phase[c] = "new" /\ IInv'
  BY EnterActive, EnterStep DEF Enter
<1>2. /\ cmdSeq'[c] = commandSeq + 1 /\ overrides' = overrides
      /\ \A f \in Field : sentFrom'[c][f] = commandSeq + 1
      /\ \A d \in Cmd \ {c} : /\ cmdSeq'[d] = cmdSeq[d] /\ gen'[d] = gen[d]
                              /\ sentFrom'[d] = sentFrom[d]
      /\ inflight \subseteq inflight' /\ inflight' \subseteq inflight \cup {c}
  BY DEF TypeOK, Enter
<1>3. \A d \in Cmd : Scp(d)' = Scp(d) /\ KeyOf(d)' = KeyOf(d)
                      /\ Scp(d) \in Scope /\ KeyOf(d) \in Key
  BY <1>1, SameTargets, KeyType
<1>4. LeftoversOK'
  <2>1. ASSUME NEW s \in Scope, On(s)' = {}
        PROVE  overrides'[s] = Fresh /\ scopeEvent'[s] = {}
    <3>1. On(s) = {} /\ s # Scp(c)
      BY <1>1, <1>3, <2>1 DEF On, Active
    <3>2. scopeEvent'[s] = scopeEvent[s]
      BY <1>3, <3>1 DEF Enter, Forgotten, TypeOK
    <3> QED
      BY <1>2, <3>1, <3>2 DEF LeftoversOK
  <2> QED
    BY <1>1, <1>2, <2>1 DEF LeftoversOK, Fresh
<1>5. NoLostWakeup'
  <2> SUFFICES ASSUME NEW d \in Cmd, phase'[d] = "waiting"
               PROVE  d \in scopeEvent'[Scp(d)] /\ MustWait(d)'
    BY <1>3 DEF NoLostWakeup
  <2>1. d # c
    BY <1>1
  <2>2. phase[d] = "waiting" /\ d \in Active
    BY <2>1 DEF Enter, Woken, TypeOK, Active
  <2>3. d \in scopeEvent[Scp(d)] /\ ~Superseded(d) /\ NewerInFlight(d)
    BY <2>2 DEF NoLostWakeup, MustWait
  <2>4. CASE generations[KeyOf(c)] > 0 \/ Overridden(c) # {}
    <3>1. /\ phase' = [Woken(phase, Scp(c)) EXCEPT ![c] = "running"]
          /\ scopeEvent' = Forgotten(Scp(c))
      BY <2>4 DEF Enter
    <3>2. Scp(d) # Scp(c)
      BY <2>1, <2>2, <2>3, <3>1 DEF Woken
    <3>3. scopeEvent'[Scp(d)] = scopeEvent[Scp(d)]
      BY <1>3, <3>1, <3>2 DEF Forgotten, TypeOK
    <3>4. KeyOf(d) \notin {KeyOf(c)} \cup Overridden(c)
      BY <3>2 DEF KeyOf, Overridden
    <3>5. ~Superseded(d)'
      BY <1>2, <1>3, <2>1, <2>3, <3>4 DEF Superseded, Enter
    <3>6. PICK e \in inflight : /\ Scp(e) = Scp(d) /\ cmdSeq[e] > cmdSeq[d]
                                /\ Updates(e) \cap Needs(d) # {}
      BY <2>3 DEF NewerInFlight
    <3>7. e \in Cmd /\ e # c /\ e \in inflight'
      BY <1>1, <1>2 DEF LeftoversOK, Active
    <3>8. MustWait(d)'
      BY <1>1, <1>2, <2>1, <3>5, <3>6, <3>7, StillWaits
    <3> QED
      BY <2>3, <3>3, <3>8
  <2>5. CASE ~(generations[KeyOf(c)] > 0 \/ Overridden(c) # {})
    <3>1. scopeEvent' = scopeEvent
      BY <2>5 DEF Enter
    <3>2. gen[d] >= 1 /\ gen[d] <= generations[KeyOf(d)]
            /\ gen[d] \in Nat /\ generations[KeyOf(d)] \in Nat
      BY <1>3, <2>2 DEF GensOK, TypeOK
    <3>3. KeyOf(d) \notin {KeyOf(c)} \cup Overridden(c)
      BY <2>5, <3>2
    <3>4. ~Superseded(d)'
      BY <1>2, <1>3, <2>1, <2>3, <3>3 DEF Superseded, Enter
    <3>5. PICK e \in inflight : /\ Scp(e) = Scp(d) /\ cmdSeq[e] > cmdSeq[d]
                                /\ Updates(e) \cap Needs(d) # {}
      BY <2>3 DEF NewerInFlight
    <3>6. e \in Cmd /\ e # c /\ e \in inflight'
      BY <1>1, <1>2 DEF LeftoversOK, Active
    <3>7. MustWait(d)'
      BY <1>1, <1>2, <2>1, <3>4, <3>5, <3>6, StillWaits
    <3> QED
      BY <2>3, <3>1, <3>7
  <2> QED
    BY <2>4, <2>5
<1>6. RecordedByItsAuthor' /\ SentOK'
  BY <1>1, <1>2, <1>3 DEF RecordedByItsAuthor, SentOK, Active
<1> QED
  BY <1>1, <1>4, <1>5, <1>6

LEMMA LeaveKeeps ==
  ASSUME FullInv, NEW c \in Active, NEW ok \in BOOLEAN, Leave(c, ok)
  PROVE  FullInv'
<1> USE DEF FullInv, IInv
<1> DEFINE ph == [phase EXCEPT ![c] = "done"]
           ev == EventsWithout(c)
           own == [f \in Field |-> cmdSeq[c]]
<1>1. /\ Active' = Active \ {c} /\ request' = request /\ c \in Cmd /\ IInv'
      /\ cmdSeq' = cmdSeq /\ gen' = gen /\ sentFrom' = sentFrom
  BY LeaveActive, LeaveStep DEF Leave, Active
<1>2. \A d \in Cmd : Scp(d)' = Scp(d) /\ KeyOf(d)' = KeyOf(d)
                      /\ Scp(d) \in Scope /\ KeyOf(d) \in Key
  BY <1>1, SameTargets, KeyType
<1>3. ph \in [Cmd -> Phase] /\ ev \in [Scope -> SUBSET Cmd]
  BY <1>1, <1>2 DEF TypeOK, Phase, EventsWithout
<1>4. /\ c \in inflight => \A d \in scopeEvent[Scp(c)] : phase'[d] # "waiting"
      /\ \A d \in Cmd : phase'[d] = "waiting" => ph[d] = "waiting"
      /\ \A s \in Scope : \/ scopeEvent'[s] = ev[s]
                          \/ s = Scp(c) /\ c \in inflight /\ scopeEvent'[s] = {}
      /\ inflight' = inflight \ {c}
  <2>1. PopInflight(c, ph, ev)
    BY DEF Leave
  <2> HIDE DEF ph, ev
  <2> QED
    BY <1>1, <1>3, <2>1, PopInflightWakes
<1>5. \A s \in Scope : ev[s] = IF s # Scp(c) THEN scopeEvent[s]
                              ELSE IF activeCounts[s] = 1 THEN {}
                              ELSE scopeEvent[s] \ {c}
  BY <1>1, <1>2 DEF EventsWithout, TypeOK
<1>6. \A s \in Scope, f \in Field :
        \/ overrides'[s][f] = overrides[s][f]
        \/ s = Scp(c) /\ activeCounts[s] = 1 /\ overrides'[s] = Fresh
        \/ /\ overrides[s][f].seq < cmdSeq[c]
           /\ overrides'[s][f] = [seq |-> cmdSeq[c], from |-> cmdSeq[c]]
  <2> SUFFICES ASSUME NEW s \in Scope, NEW f \in Field
               PROVE  \/ overrides'[s][f] = overrides[s][f]
                      \/ s = Scp(c) /\ activeCounts[s] = 1 /\ overrides'[s] = Fresh
                      \/ /\ overrides[s][f].seq < cmdSeq[c]
                         /\ overrides'[s][f] = [seq |-> cmdSeq[c], from |-> cmdSeq[c]]
    OBVIOUS
  <2>1. own \in [Field -> Nat] /\ own[f] = cmdSeq[c]
    BY <1>1 DEF TypeOK
  <2>2. /\ Recorded(c, own) \in [Scope -> [Field -> [seq : Nat, from : Nat]]]
        /\ \/ Recorded(c, own)[s][f] = overrides[s][f]
           \/ /\ overrides[s][f].seq < cmdSeq[c]
              /\ Recorded(c, own)[s][f] = [seq |-> cmdSeq[c], from |-> cmdSeq[c]]
    <3> HIDE DEF own
    <3> QED
      BY <1>1, <2>1, RecordedEntry, RecordedType
  <2>3. overrides' = OverridesWithout(c, IF ok THEN Recorded(c, own) ELSE overrides)
    BY DEF Leave
  <2>4. overrides \in [Scope -> [Field -> [seq : Nat, from : Nat]]]
    BY DEF TypeOK
  <2> HIDE DEF own
  <2>5. CASE activeCounts[Scp(c)] = 1
    BY <1>1, <1>2, <2>2, <2>3, <2>4, <2>5 DEF OverridesWithout, Fresh
  <2>6. CASE activeCounts[Scp(c)] # 1
    BY <2>2, <2>3, <2>6 DEF OverridesWithout
  <2> QED
    BY <2>5, <2>6
<1>7. activeCounts[Scp(c)] = 1 => overrides'[Scp(c)] = Fresh
  <2>1. own \in [Field -> Nat]
    BY <1>1 DEF TypeOK
  <2>2. Recorded(c, own) \in [Scope -> [Field -> [seq : Nat, from : Nat]]]
    <3> HIDE DEF own
    <3> QED
      BY <1>1, <2>1, RecordedType
  <2>3. overrides' = OverridesWithout(c, IF ok THEN Recorded(c, own) ELSE overrides)
    BY DEF Leave
  <2> HIDE DEF own
  <2> QED
    BY <1>1, <1>2, <2>2, <2>3 DEF OverridesWithout, TypeOK, Fresh
<1>8. \A s \in Scope \ {Scp(c)} : overrides'[s] = overrides[s]
  BY <1>1, <1>2 DEF Leave, OverridesWithout, Recorded, TypeOK
<1> HIDE DEF ph, ev, own
<1>9. LeftoversOK'
  <2>1. ASSUME NEW s \in Scope, On(s)' = {}
        PROVE  overrides'[s] = Fresh /\ scopeEvent'[s] = {}
    <3>1. On(s) \subseteq {c}
      BY <1>1, <1>2, <2>1 DEF On, Active
    <3>2. CASE s = Scp(c)
      <4>1. activeCounts[Scp(c)] = 1
        BY <3>1, <3>2, AloneCounted DEF On
      <4> QED
        BY <1>4, <1>5, <1>7, <3>2, <4>1
    <3>3. CASE s # Scp(c)
      <4>1. On(s) = {}
        BY <3>1, <3>3 DEF On
      <4> QED
        BY <1>4, <1>5, <1>8, <3>3, <4>1 DEF LeftoversOK
    <3> QED
      BY <3>2, <3>3
  <2> QED
    BY <1>1, <1>4, <2>1 DEF LeftoversOK, Fresh
<1>10. NoLostWakeup'
  <2> SUFFICES ASSUME NEW d \in Cmd, phase'[d] = "waiting"
               PROVE  d \in scopeEvent'[Scp(d)] /\ MustWait(d)'
    BY <1>2 DEF NoLostWakeup
  <2>1. phase[d] = "waiting" /\ d # c /\ d \in Active
    <3>1. ph[d] = "waiting"
      BY <1>4
    <3> QED
      BY <1>1, <3>1 DEF ph, TypeOK, Active
  <2>2. d \in scopeEvent[Scp(d)] /\ ~Superseded(d) /\ NewerInFlight(d)
    BY <2>1 DEF NoLostWakeup, MustWait
  <2>3. ~(c \in inflight /\ Scp(d) = Scp(c))
    BY <1>4, <2>2
  <2>4. d \in scopeEvent'[Scp(d)]
    BY <1>2, <1>4, <1>5, <2>1, <2>2, <2>3, NotAlone
  <2>5. ~Superseded(d)'
    BY <1>1, <1>2, <2>1, <2>2, LeaveKeepsGenerations DEF Superseded
  <2>6. PICK e \in inflight : /\ Scp(e) = Scp(d) /\ cmdSeq[e] > cmdSeq[d]
                              /\ Updates(e) \cap Needs(d) # {}
    BY <2>2 DEF NewerInFlight
  <2>7. e \in Cmd /\ e \in inflight'
    BY <1>4, <2>3, <2>6 DEF LeftoversOK, Active
  <2>8. MustWait(d)'
    BY <1>1, <2>5, <2>6, <2>7, StillWaits
  <2> QED
    BY <2>4, <2>8
<1>11. RecordedByItsAuthor'
  BY <1>6 DEF RecordedByItsAuthor, Fresh, NoOverride
<1>12. SentOK'
  <2> SUFFICES ASSUME NEW d \in Active', NEW f \in Field
               PROVE  sentFrom'[d][f] = cmdSeq'[d] \/ overrides'[Scp(d)'][f].seq > cmdSeq'[d]
    BY DEF SentOK
  <2>1. d \in Active /\ d \in Cmd /\ d # c /\ Scp(d) \in Scope /\ Scp(d)' = Scp(d)
    BY <1>1, <1>2 DEF Active
  <2>2. sentFrom[d][f] = cmdSeq[d] \/ overrides[Scp(d)][f].seq > cmdSeq[d]
    BY <2>1 DEF SentOK
  <2>3. ~(Scp(d) = Scp(c) /\ activeCounts[Scp(d)] = 1)
    BY <2>1, NotAlone
  <2>4. \/ overrides'[Scp(d)][f] = overrides[Scp(d)][f]
        \/ /\ overrides[Scp(d)][f].seq < cmdSeq[c]
           /\ overrides'[Scp(d)][f].seq = cmdSeq[c]
    BY <1>6, <2>1, <2>3
  <2>5. overrides[Scp(d)][f].seq \in Nat /\ cmdSeq[c] \in Nat /\ cmdSeq[d] \in Nat
    BY <1>1, <2>1 DEF TypeOK
  <2> QED
    BY <1>1, <2>1, <2>2, <2>4, <2>5
<1> QED
  BY <1>1, <1>9, <1>10, <1>11, <1>12

LEMMA RecordKeeps ==
  ASSUME FullInv, NEW c \in Cmd, Record(c)
  PROVE  FullInv'
<1> USE DEF FullInv, IInv
<1>1. IInv' /\ Quiet /\ c \in Active
  BY RecordStep DEF Record, Active
<1>2. /\ request' = request /\ cmdSeq' = cmdSeq /\ gen' = gen /\ sentFrom' = sentFrom
      /\ generations' = generations /\ Active' = Active
  BY <1>1 DEF Quiet, Record, counters
<1>3. \A d \in Cmd : Scp(d)' = Scp(d) /\ KeyOf(d)' = KeyOf(d)
                      /\ Scp(d) \in Scope /\ KeyOf(d) \in Key
  BY <1>2, SameTargets, KeyType
<1>4. /\ c \in inflight => \A d \in scopeEvent[Scp(c)] : phase'[d] # "waiting"
      /\ \A d \in Cmd : phase'[d] = "waiting" => phase[d] = "waiting"
      /\ \A s \in Scope : \/ scopeEvent'[s] = scopeEvent[s]
                          \/ s = Scp(c) /\ c \in inflight /\ scopeEvent'[s] = {}
      /\ inflight' = inflight \ {c}
  <2>1. phase \in [Cmd -> Phase] /\ scopeEvent \in [Scope -> SUBSET Cmd]
    BY DEF TypeOK
  <2> QED
    BY <2>1, PopInflightWakes DEF Record
<1>5. \A s \in Scope, f \in Field :
        \/ overrides'[s][f] = overrides[s][f]
        \/ /\ s = Scp(c) /\ overrides[s][f].seq < cmdSeq[c]
           /\ overrides'[s][f] = [seq |-> cmdSeq[c], from |-> sentFrom[c][f]]
  <2>1. sentFrom[c] \in [Field -> Nat]
    BY DEF TypeOK
  <2> QED
    BY <2>1, RecordedEntry DEF Record
<1>6. LeftoversOK'
  <2>1. ASSUME NEW s \in Scope, On(s)' = {}
        PROVE  overrides'[s] = Fresh /\ scopeEvent'[s] = {}
    <3>1. On(s) = {} /\ s # Scp(c)
      BY <1>1, <1>2, <1>3, <2>1 DEF On, Active
    <3>2. overrides'[s] = overrides[s]
      BY <1>3, <3>1 DEF Record, Recorded, TypeOK
    <3> QED
      BY <1>4, <3>1, <3>2 DEF LeftoversOK
  <2> QED
    BY <1>2, <1>4, <2>1 DEF LeftoversOK, Fresh
<1>7. NoLostWakeup'
  <2> SUFFICES ASSUME NEW d \in Cmd, phase'[d] = "waiting"
               PROVE  d \in scopeEvent'[Scp(d)] /\ MustWait(d)'
    BY <1>3 DEF NoLostWakeup
  <2>1. phase[d] = "waiting"
    BY <1>4
  <2>2. d \in scopeEvent[Scp(d)] /\ ~Superseded(d) /\ NewerInFlight(d)
    BY <2>1 DEF NoLostWakeup, MustWait
  <2>3. ~(c \in inflight /\ Scp(d) = Scp(c))
    BY <1>4, <2>2
  <2>4. d \in scopeEvent'[Scp(d)]
    BY <1>3, <1>4, <2>2, <2>3
  <2>5. ~Superseded(d)'
    BY <1>2, <1>3, <2>2 DEF Superseded
  <2>6. PICK e \in inflight : /\ Scp(e) = Scp(d) /\ cmdSeq[e] > cmdSeq[d]
                              /\ Updates(e) \cap Needs(d) # {}
    BY <2>2 DEF NewerInFlight
  <2>7. e \in Cmd /\ e \in inflight'
    BY <1>4, <2>3, <2>6 DEF LeftoversOK, Active
  <2>8. MustWait(d)'
    BY <1>2, <2>5, <2>6, <2>7, StillWaits
  <2> QED
    BY <2>4, <2>8
<1>8. RecordedByItsAuthor'
  <2> SUFFICES ASSUME NEW s \in Scope, NEW f \in Field
               PROVE  overrides'[s][f].from = overrides'[s][f].seq
    BY DEF RecordedByItsAuthor
  <2>1. CASE overrides'[s][f] = overrides[s][f]
    BY <2>1 DEF RecordedByItsAuthor
  <2>2. CASE /\ s = Scp(c) /\ overrides[s][f].seq < cmdSeq[c]
             /\ overrides'[s][f] = [seq |-> cmdSeq[c], from |-> sentFrom[c][f]]
    <3>1. overrides[s][f].seq \in Nat /\ cmdSeq[c] \in Nat
      BY DEF TypeOK
    <3>2. sentFrom[c][f] = cmdSeq[c]
      BY <1>1, <2>2, <3>1 DEF SentOK
    <3> QED
      BY <2>2, <3>2
  <2> QED
    BY <1>5, <2>1, <2>2
<1>9. SentOK'
  <2> SUFFICES ASSUME NEW d \in Active, NEW f \in Field
               PROVE  sentFrom[d][f] = cmdSeq[d] \/ overrides'[Scp(d)][f].seq > cmdSeq[d]
    BY <1>2, <1>3 DEF SentOK, Active
  <2>1. d \in Cmd /\ Scp(d) \in Scope
    BY <1>3 DEF Active
  <2>2. overrides[Scp(d)][f].seq \in Nat /\ cmdSeq[c] \in Nat /\ cmdSeq[d] \in Nat
    BY <2>1 DEF TypeOK
  <2>3. sentFrom[d][f] = cmdSeq[d] \/ overrides[Scp(d)][f].seq > cmdSeq[d]
    BY DEF SentOK
  <2>4. \/ overrides'[Scp(d)][f] = overrides[Scp(d)][f]
        \/ /\ overrides[Scp(d)][f].seq < cmdSeq[c]
           /\ overrides'[Scp(d)][f].seq = cmdSeq[c]
    <3>1. \/ overrides'[Scp(d)][f] = overrides[Scp(d)][f]
          \/ /\ overrides[Scp(d)][f].seq < cmdSeq[c]
             /\ overrides'[Scp(d)][f] = [seq |-> cmdSeq[c], from |-> sentFrom[c][f]]
      BY <1>5, <2>1
    <3>2. [seq |-> cmdSeq[c], from |-> sentFrom[c][f]].seq = cmdSeq[c]
      OBVIOUS
    <3> QED
      BY <3>1, <3>2
  <2> QED
    BY <2>2, <2>3, <2>4
<1> QED
  BY <1>1, <1>6, <1>7, <1>8, <1>9

LEMMA WaitingKeeps ==
  ASSUME FullInv, NEW c \in Cmd, BeginWait(c) \/ WaitAgain(c) \/ StopWaiting(c)
  PROVE  FullInv'
<1> USE DEF FullInv, IInv
<1>1. IInv' /\ Quiet /\ c \in Active
  BY WaitingStep DEF BeginWait, WaitAgain, StopWaiting, Active
<1>2. /\ UNCHANGED <<request, cmdSeq, gen, sentFrom, counters, inflight, overrides>>
      /\ Active' = Active
  BY <1>1 DEF Quiet, BeginWait, WaitAgain, StopWaiting, Wait
<1>3. \A d \in Cmd : Scp(d)' = Scp(d) /\ Scp(d) \in Scope /\ MustWait(d)' = MustWait(d)
  BY <1>2, SameTargets, KeyType
    DEF MustWait, Superseded, NewerInFlight, KeyOf, Scp, Updates, Needs, counters
<1>4. \/ Wait(c)
      \/ /\ phase' = [phase EXCEPT ![c] = "running"]
         /\ scopeEvent' = [scopeEvent EXCEPT ![Scp(c)] = @ \ {c}]
  BY DEF BeginWait, WaitAgain, StopWaiting, Resume
<1>5. LeftoversOK'
  <2>1. ASSUME NEW s \in Scope, On(s)' = {}
        PROVE  overrides'[s] = Fresh /\ scopeEvent'[s] = {}
    <3>1. On(s) = {} /\ s # Scp(c)
      BY <1>1, <1>2, <1>3, <2>1 DEF On, Active
    <3>2. scopeEvent'[s] = scopeEvent[s]
      BY <1>3, <1>4, <3>1 DEF Wait, TypeOK
    <3> QED
      BY <1>2, <3>1, <3>2 DEF LeftoversOK
  <2> QED
    BY <1>2, <2>1 DEF LeftoversOK, Fresh
<1>6. NoLostWakeup'
  <2> SUFFICES ASSUME NEW d \in Cmd, phase'[d] = "waiting"
               PROVE  d \in scopeEvent'[Scp(d)] /\ MustWait(d)
    BY <1>3 DEF NoLostWakeup
  <2>1. CASE d = c
    BY <1>3, <1>4, <2>1 DEF Wait, TypeOK
  <2>2. CASE d # c
    <3>1. phase[d] = "waiting"
      BY <1>4, <2>2 DEF Wait, TypeOK
    <3>2. d \in scopeEvent[Scp(d)] /\ MustWait(d)
      BY <3>1 DEF NoLostWakeup
    <3> QED
      BY <1>3, <1>4, <2>2, <3>2 DEF Wait, TypeOK
  <2> QED
    BY <2>1, <2>2
<1>7. RecordedByItsAuthor' /\ SentOK'
  BY <1>2, <1>3 DEF RecordedByItsAuthor, SentOK, Active
<1> QED
  BY <1>1, <1>5, <1>6, <1>7

LEMMA RefreshKeeps ==
  ASSUME FullInv, NEW c \in Cmd, Refresh(c)
  PROVE  FullInv'
<1> USE DEF FullInv, IInv
<1>1. IInv' /\ Quiet
  BY RefreshStep
<1>2. /\ UNCHANGED <<request, phase, cmdSeq, gen, counters, inflight, overrides,
                     scopeEvent>>
      /\ Active' = Active
  BY <1>1 DEF Quiet, Refresh
<1>3. \A d \in Cmd : Scp(d)' = Scp(d) /\ MustWait(d)' = MustWait(d)
  BY <1>2, SameTargets
    DEF MustWait, Superseded, NewerInFlight, KeyOf, Scp, Updates, Needs, counters
<1>4. LeftoversOK' /\ NoLostWakeup' /\ RecordedByItsAuthor'
  BY <1>2, <1>3 DEF LeftoversOK, NoLostWakeup, RecordedByItsAuthor, On, Fresh, Active
<1>5. SentOK'
  <2> SUFFICES ASSUME NEW d \in Active, NEW f \in Field
               PROVE  sentFrom'[d][f] = cmdSeq[d] \/ overrides[Scp(d)][f].seq > cmdSeq[d]
    BY <1>2, <1>3 DEF SentOK, Active
  <2>1. CASE d = c
    BY <2>1 DEF Refresh, Refreshed, TypeOK, Active
  <2>2. CASE d # c
    BY <2>2 DEF Refresh, SentOK, TypeOK, Active
  <2> QED
    BY <2>1, <2>2
<1> QED
  BY <1>1, <1>4, <1>5

LEMMA InitFullInv == TrackInit => FullInv
<1> SUFFICES ASSUME TrackInit PROVE FullInv
  OBVIOUS
<1>1. Active = {} /\ \A c \in Cmd : phase[c] = "new"
  BY DEF TrackInit, Active
<1>2. LeftoversOK
  BY <1>1 DEF TrackInit, LeftoversOK, Fresh
<1>3. NoLostWakeup /\ SentOK
  BY <1>1 DEF NoLostWakeup, SentOK
<1>4. RecordedByItsAuthor
  BY DEF TrackInit, RecordedByItsAuthor, NoOverride
<1> QED
  BY <1>2, <1>3, <1>4, InitIInv DEF FullInv

LEMMA NextFullInv == FullInv /\ [TrackNext]_trackVars => FullInv'
<1> SUFFICES ASSUME FullInv, [TrackNext]_trackVars PROVE FullInv'
  OBVIOUS
<1>1. CASE UNCHANGED trackVars
  <2>1. IInv'
    BY NextIInv DEF FullInv
  <2>2. LeftoversOK' /\ RecordedByItsAuthor' /\ SentOK'
    BY <1>1 DEF trackVars, counters, FullInv, LeftoversOK, Fresh, RecordedByItsAuthor,
                SentOK, On, Active, Scp
  <2>3. NoLostWakeup'
    BY <1>1 DEF trackVars, counters, FullInv, NoLostWakeup, MustWait, Superseded,
                NewerInFlight, KeyOf, Scp, Updates, Needs
  <2> QED
    BY <2>1, <2>2, <2>3 DEF FullInv
<1>2. CASE TrackNext
  <2>1. PICK c \in Cmd : \/ Enter(c) \/ Record(c) \/ BeginWait(c) \/ WaitAgain(c)
                         \/ StopWaiting(c) \/ Refresh(c) \/ Succeed(c) \/ Fail(c)
    BY <1>2 DEF TrackNext
  <2>2. CASE Succeed(c) \/ Fail(c)
    <3>1. c \in Active /\ \E ok \in BOOLEAN : Leave(c, ok)
      BY <2>2 DEF Succeed, Fail, Active
    <3> QED
      BY <3>1, LeaveKeeps
  <2> QED
    BY <2>1, <2>2, EnterKeeps, RecordKeeps, WaitingKeeps, RefreshKeeps
<1> QED
  BY <1>1, <1>2

-----------------------------------------------------------------------------
LEMMA FullInvAlways == TrackSpec => []FullInv
BY InitFullInv, NextFullInv, PTL DEF TrackSpec

\* However many retries wait, on whatever targets, none is left asleep on an event
\* that was replaced or dropped (_await_newer_field_updates): what it waits for is
\* still listed, and its end or a superseding command sets the event it waits on.
THEOREM NobodyLeftAsleep == TrackSpec => []NoLostWakeup
<1>1. FullInv => NoLostWakeup
  BY DEF FullInv
<1> QED
  BY <1>1, FullInvAlways, PTL

\* The last command of a target or a setting takes all its bookkeeping with it
\* (the clean-up of _track_target_command), in whatever order commands end.
THEOREM NothingLeftBehind == TrackSpec => []IdleTargetForgotten
<1>1. FullInv => IdleTargetForgotten
  <2> SUFFICES ASSUME FullInv PROVE IdleTargetForgotten
    OBVIOUS
  <2> USE DEF FullInv, IInv
  <2>1. ASSUME NEW s \in Scope, \A c \in Active : Scp(c) # s
        PROVE  activeCounts[s] = 0 /\ overrides[s] = Fresh /\ scopeEvent[s] = {}
    <3>1. On(s) = {}
      BY <2>1 DEF On
    <3> QED
      BY <3>1, FS_EmptySet DEF CountsOK, LeftoversOK
  <2>2. ASSUME NEW k \in Key, \A c \in Active : KeyOf(c) # k
        PROVE  targetActiveCounts[k] = 0 /\ generations[k] = 0
    <3>1. Changing(k) = {}
      BY <2>2 DEF Changing
    <3> QED
      BY <3>1, FS_EmptySet DEF CountsOK, GensOK
  <2> QED
    BY <2>1, <2>2 DEF IdleTargetForgotten, LeftoversOK, Fresh
<1> QED
  BY <1>1, FullInvAlways, PTL

\* A recorded value is that of the command the entry names
\* (_record_field_overrides), although a retry sends values of newer commands.
THEOREM RecordsAreOwn == TrackSpec => []RecordedByItsAuthor
<1>1. FullInv => RecordedByItsAuthor
  BY DEF FullInv
<1> QED
  BY <1>1, FullInvAlways, PTL

-----------------------------------------------------------------------------
\* A retry blocks, for the first time or again.
LEMMA AwaitKeeps ==
  ASSUME FullInv, NEW c \in Cmd, phase[c] \in {"running", "woken"}, Wait(c)
  PROVE  FullInv' /\ Quiet
<1>1. BeginWait(c) \/ WaitAgain(c)
  BY DEF BeginWait, WaitAgain
<1> QED
  BY <1>1, WaitingStep, WaitingKeeps DEF FullInv

\* A retry goes on, with whatever body it sends next.
LEMMA ResumeKeeps ==
  ASSUME FullInv, NEW c \in Active, Resume(c),
         UNCHANGED <<request, cmdSeq, gen, counters, inflight, overrides>>,
         sentFrom' = sentFrom \/ sentFrom' = [sentFrom EXCEPT ![c] = Refreshed(c)]
  PROVE  FullInv' /\ Quiet
<1> USE DEF FullInv, IInv
<1>1. c \in Cmd /\ \A d \in Cmd : Scp(d)' = Scp(d) /\ Scp(d) \in Scope
  BY SameTargets, KeyType DEF Active
<1>2. /\ Active' = Active /\ phase' \in [Cmd -> Phase]
      /\ \A d \in Cmd : phase'[d] = "new" <=> phase[d] = "new"
  BY MoveActive DEF Resume
<1>3. IInv' /\ Quiet
  <2>1. scopeEvent' \in [Scope -> SUBSET Cmd]
    BY <1>1 DEF Resume, TypeOK
  <2>2. Refreshed(c) \in [Field -> Nat]
    BY <1>1 DEF Refreshed, TypeOK
  <2>3. sentFrom' \in [Cmd -> [Field -> Nat]]
    BY <2>2 DEF TypeOK
  <2>4. TypeOK'
    BY <1>2, <2>1, <2>3 DEF TypeOK, counters
  <2> QED
    BY <1>2, <2>4, QuietStep DEF Quiet
<1>4. LeftoversOK'
  <2>1. ASSUME NEW s \in Scope, On(s)' = {}
        PROVE  overrides'[s] = Fresh /\ scopeEvent'[s] = {}
    <3>1. On(s) = {} /\ s # Scp(c)
      BY <1>1, <1>2, <2>1 DEF On, Active
    <3>2. scopeEvent'[s] = scopeEvent[s]
      BY <1>1, <3>1 DEF Resume, TypeOK
    <3> QED
      BY <3>1, <3>2 DEF LeftoversOK
  <2> QED
    BY <1>2, <2>1 DEF LeftoversOK, Fresh
<1>5. NoLostWakeup'
  <2> SUFFICES ASSUME NEW d \in Cmd, phase'[d] = "waiting"
               PROVE  d \in scopeEvent'[Scp(d)] /\ MustWait(d)'
    BY <1>1 DEF NoLostWakeup
  <2>1. phase[d] = "waiting" /\ d # c
    BY DEF Resume, TypeOK
  <2>2. d \in scopeEvent[Scp(d)] /\ MustWait(d)
    BY <2>1 DEF NoLostWakeup
  <2>3. MustWait(d)'
    BY <2>2 DEF MustWait, Superseded, NewerInFlight, KeyOf, Scp, Updates, Needs, counters
  <2> QED
    BY <1>1, <2>1, <2>2, <2>3 DEF Resume, TypeOK
<1>6. RecordedByItsAuthor'
  BY DEF RecordedByItsAuthor
<1>7. SentOK'
  <2> SUFFICES ASSUME NEW d \in Active, NEW f \in Field
               PROVE  sentFrom'[d][f] = cmdSeq[d] \/ overrides[Scp(d)][f].seq > cmdSeq[d]
    BY <1>1, <1>2 DEF SentOK, Active
  <2>1. CASE d = c /\ sentFrom' # sentFrom
    BY <1>1, <2>1 DEF Refreshed, TypeOK
  <2>2. CASE d # c \/ sentFrom' = sentFrom
    BY <2>2 DEF SentOK, TypeOK, Active
  <2> QED
    BY <2>1, <2>2
<1> QED
  BY <1>3, <1>4, <1>5, <1>6, <1>7

LEMMA UnchangedKeeps ==
  ASSUME FullInv, UNCHANGED trackVars
  PROVE  FullInv' /\ Quiet
<1>1. FullInv'
  BY NextFullInv
<1> QED
  BY <1>1 DEF trackVars, Quiet, Active

\* A running command that does not count as superseded was not replaced.
LEMMA NotReplaced ==
  ASSUME FullInv, NEW c \in Active, ~Superseded(c)
  PROVE  \A d \in Cmd : ~CalledLater(d, c)
BY DEF FullInv, IInv, SupersededExact

\* Of the running commands, one was called last ...
LEMMA Newest ==
  ASSUME IInv, Active # {}
  PROVE  \E c \in Active : \A d \in Active : cmdSeq[d] <= cmdSeq[c]
<1> DEFINE age(c) == commandSeq - cmdSeq[c]
           S == {age(c) : c \in Active}
<1>1. \A c \in Active : age(c) \in Nat /\ cmdSeq[c] \in Nat /\ commandSeq \in Nat
  BY DEF IInv, SeqsOK, TypeOK, Active
<1>2. S \subseteq Nat /\ S # {}
  BY <1>1
<1>3. \E i \in S : \A j \in S : ~(<<j, i>> \in OpToRel(<, Nat))
  <2> HIDE DEF S
  <2> QED
    BY <1>2, NatLessThanWellFounded, WFMin
<1>4. PICK i \in S : \A j \in S : ~(j < i)
  BY <1>2, <1>3 DEF OpToRel
<1>5. PICK c \in Active : i = age(c)
  BY <1>4
<1>6. \A d \in Active : ~(age(d) < age(c))
  BY <1>4, <1>5
<1> QED
  BY <1>1, <1>6

\* ... and that one does not wait: what a command waits for was called later.
LEMMA NewestRuns ==
  ASSUME FullInv, Active # {}
  PROVE  \E c \in Active : phase[c] \in {"running", "woken"}
<1>1. PICK c \in Active : \A d \in Active : cmdSeq[d] <= cmdSeq[c]
  BY Newest DEF FullInv
<1>2. ASSUME phase[c] = "waiting" PROVE FALSE
  <2>1. PICK d \in inflight : cmdSeq[d] > cmdSeq[c]
    BY <1>2 DEF FullInv, NoLostWakeup, MustWait, NewerInFlight, Active
  <2>2. d \in Active /\ cmdSeq[d] \in Nat /\ cmdSeq[c] \in Nat
    BY DEF FullInv, LeftoversOK, IInv, TypeOK, Active
  <2> QED
    BY <1>1, <2>1, <2>2
<1> QED
  BY <1>2 DEF Active

-----------------------------------------------------------------------------
(* The recorded values, as long as somebody runs on the target.             *)

\* Two running commands on a target are more than one.
LEMMA Crowded ==
  ASSUME TypeOK, CountsOK, NEW c \in Active, NEW d \in Active,
         c # d, Scp(c) = Scp(d)
  PROVE  activeCounts[Scp(c)] > 1
<1>1. activeCounts[Scp(c)] # 1 /\ activeCounts[Scp(c)] >= 1
  BY NotAlone, ActiveCounted
<1>2. activeCounts[Scp(c)] \in Nat
  BY KeyType DEF TypeOK, Active
<1> QED
  BY <1>1, <1>2

\* Recording d leaves no entry of its target older, and its own at least as new
\* as d, if another command runs there.
LEMMA RecordingGrows ==
  ASSUME TypeOK, CountsOK, NEW d \in Active, NEW c \in Active, c # d,
         NEW from \in [Field -> Nat], NEW f \in Field
  PROVE  /\ Recorded(d, from)[Scp(c)][f].seq >= overrides[Scp(c)][f].seq
         /\ Scp(c) = Scp(d) /\ f \in Updates(d)
              => Recorded(d, from)[Scp(c)][f].seq >= cmdSeq[d]
<1>1. /\ c \in Cmd /\ d \in Cmd /\ Scp(c) \in Scope /\ Scp(d) \in Scope
  BY KeyType DEF Active
<1>2. overrides[Scp(c)][f].seq \in Nat /\ cmdSeq[d] \in Nat
  BY <1>1 DEF TypeOK
<1>3. \/ Recorded(d, from)[Scp(c)][f] = overrides[Scp(c)][f]
      \/ /\ overrides[Scp(c)][f].seq < cmdSeq[d]
         /\ Recorded(d, from)[Scp(c)][f] = [seq |-> cmdSeq[d], from |-> from[f]]
  BY <1>1, RecordedEntry
<1>4. Recorded(d, from)[Scp(c)][f].seq >= overrides[Scp(c)][f].seq
  <2>1. [seq |-> cmdSeq[d], from |-> from[f]].seq = cmdSeq[d]
    OBVIOUS
  <2> QED
    BY <1>2, <1>3, <2>1
<1>5. ASSUME Scp(c) = Scp(d), f \in Updates(d)
      PROVE  Recorded(d, from)[Scp(c)][f].seq >= cmdSeq[d]
  <2>1. activeCounts[Scp(d)] > 1
    BY <1>5, Crowded
  <2>2. Recorded(d, from)[Scp(d)][f] =
          IF overrides[Scp(d)][f].seq < cmdSeq[d]
            THEN [seq |-> cmdSeq[d], from |-> from[f]] ELSE overrides[Scp(d)][f]
    BY <1>1, <1>5, <2>1 DEF Recorded, TypeOK
  <2>3. [seq |-> cmdSeq[d], from |-> from[f]].seq = cmdSeq[d]
    OBVIOUS
  <2> QED
    BY <1>2, <1>5, <2>2, <2>3
<1> QED
  BY <1>4, <1>5

\* So do the end of d, ...
LEMMA LeavingGrows ==
  ASSUME TypeOK, CountsOK, NEW d \in Active, NEW c \in Active, c # d,
         NEW ok \in BOOLEAN, Leave(d, ok), NEW f \in Field
  PROVE  /\ overrides'[Scp(c)][f].seq >= overrides[Scp(c)][f].seq
         /\ ok /\ Scp(c) = Scp(d) /\ f \in Updates(d)
              => overrides'[Scp(c)][f].seq >= cmdSeq[d]
<1> DEFINE own == [g \in Field |-> cmdSeq[d]]
<1>1. c \in Cmd /\ d \in Cmd /\ Scp(c) \in Scope
  BY KeyType DEF Active
<1>2. own \in [Field -> Nat]
  BY <1>1 DEF TypeOK
<1>3. overrides' = OverridesWithout(d, IF ok THEN Recorded(d, own) ELSE overrides)
  BY DEF Leave
<1> HIDE DEF own
<1>4. overrides'[Scp(c)] = (IF ok THEN Recorded(d, own) ELSE overrides)[Scp(c)]
  <2>1. CASE Scp(c) = Scp(d)
    BY <1>3, <2>1, NotAlone DEF OverridesWithout
  <2>2. CASE Scp(c) # Scp(d)
    <3>1. /\ Recorded(d, own) \in [Scope -> [Field -> [seq : Nat, from : Nat]]]
          /\ overrides \in [Scope -> [Field -> [seq : Nat, from : Nat]]]
      BY <1>1, <1>2, RecordedType DEF TypeOK
    <3> QED
      BY <1>1, <1>3, <2>2, <3>1 DEF OverridesWithout
  <2> QED
    BY <2>1, <2>2
<1>5. overrides[Scp(c)][f].seq \in Nat
  BY <1>1 DEF TypeOK
<1> QED
  BY <1>2, <1>4, <1>5, RecordingGrows

\* ... and the response to d.
LEMMA RecordGrows ==
  ASSUME TypeOK, CountsOK, NEW d \in Active, NEW c \in Active, c # d,
         Record(d), NEW f \in Field
  PROVE  /\ overrides'[Scp(c)][f].seq >= overrides[Scp(c)][f].seq
         /\ Scp(c) = Scp(d) /\ f \in Updates(d)
              => overrides'[Scp(c)][f].seq >= cmdSeq[d]
<1>1. sentFrom[d] \in [Field -> Nat] /\ overrides' = Recorded(d, sentFrom[d])
  BY DEF TypeOK, Record, Active
<1> QED
  BY <1>1, RecordingGrows
=============================================================================
