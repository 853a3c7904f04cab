---------------------------- MODULE EntityProofs ----------------------------
(***************************************************************************)
(* Theorems about what the entities of Home Assistant show, for every      *)
(* number of service calls and reports: a siren and its timed stop, a      *)
(* switched entity, a heating group, and a cover of any height; and about  *)
(* the tables of commands, for every set of commands the entities send.    *)
(***************************************************************************)
EXTENDS Entities, CommandStream, BridgeProofs

(* A siren *)

\* The tasks in the queue wait, each at one place.
QueueOK ==
  \A i \in 1..Len(waiters) :
    /\ phase[waiters[i]] = "queued"
    /\ \A j \in 1..Len(waiters) : waiters[i] = waiters[j] => i = j

\* A call has a stop only once it is over, and only if it was accepted; the stop
\* counts the commands up to its own call.
StopsOK ==
  \A c \in Cmd :
    /\ phase[<<c, "call">>] # "done" => phase[<<c, "stop">>] = "new" /\ pendingStop # c
    /\ pendingStop = c => phase[<<c, "stop">>] = "new"
    /\ pendingStop = c \/ phase[<<c, "stop">>] # "new" => after[c] > 0
    /\ after[c] <= accepted
    /\ after[c] = accepted /\ accepted > 0 => lastAccepted = <<c, "call">>

SirenInv ==
  SirenTypeOK /\ QueueOK /\ StopsOK /\ StopEndsItsOwnAlarm /\ TimedStopStaysDue

\* What a step keeps that moves the task t on: to the queue, to the lock or to
\* its end.
LEMMA TaskMoves ==
  ASSUME SirenInv, NEW t \in Task, NEW p \in {"queued", "sent", "done"},
         phase' = [phase EXCEPT ![t] = p],
         p = "sent" => Unlocked /\ ~Outdated(t),
         \A c \in Cmd : t = <<c, "call">> => phase[t] # "done",
         \A c \in Cmd : t = <<c, "stop">> => \/ phase[t] # "new" /\ pendingStop' = pendingStop
                                             \/ pendingStop = c /\ pendingStop' = NoCmd,
         \A c \in Cmd : t = <<c, "call">> => pendingStop' = pendingStop,
         UNCHANGED <<asks, accepted, after, loaded, lastAccepted, offReported>>
  PROVE  /\ phase' \in [Task -> {"new", "queued", "sent", "done"}]
         /\ \A u, v \in Task : phase'[u] = "sent" /\ phase'[v] = "sent" => u = v
         /\ StopsOK' /\ StopEndsItsOwnAlarm' /\ TimedStopStaysDue'
<1> USE DEF SirenInv
<1>1. /\ phase' \in [Task -> {"new", "queued", "sent", "done"}]
      /\ phase'[t] = p /\ \A u \in Task \ {t} : phase'[u] = phase[u]
  BY DEF SirenTypeOK
<1>2. \A u, v \in Task : phase'[u] = "sent" /\ phase'[v] = "sent" => u = v
  BY <1>1 DEF SirenTypeOK, Unlocked
<1>3. PICK d \in Cmd : t = <<d, "call">> \/ t = <<d, "stop">>
  BY DEF Task
<1>4. \A c \in Cmd : <<c, "call">> \in Task /\ <<c, "stop">> \in Task
  BY DEF Task
<1>5. pendingStop' \in {pendingStop, NoCmd}
  BY <1>3
<1>6. \A c \in Cmd : c # NoCmd
  BY SirenAssumption
<1>7. ASSUME t = <<d, "call">>
      PROVE  StopsOK' /\ StopEndsItsOwnAlarm' /\ TimedStopStaysDue'
  <2>1. /\ pendingStop' = pendingStop /\ phase[t] # "done"
        /\ \A c \in Cmd : phase'[<<c, "stop">>] = phase[<<c, "stop">>]
    BY <1>1, <1>4, <1>7
  <2>2. \A c \in Cmd : phase'[<<c, "call">>] # "done" => phase[<<c, "call">>] # "done"
    BY <1>1, <1>4, <1>7, <2>1
  <2>3. StopsOK'
    BY <2>1, <2>2 DEF StopsOK
  <2> QED
    BY <2>1, <2>3 DEF StopEndsItsOwnAlarm, TimedStopStaysDue
<1>8. ASSUME t = <<d, "stop">>
      PROVE  StopsOK' /\ StopEndsItsOwnAlarm' /\ TimedStopStaysDue'
  <2>1. /\ \A c \in Cmd : phase'[<<c, "call">>] = phase[<<c, "call">>]
        /\ \A c \in Cmd \ {d} : phase'[<<c, "stop">>] = phase[<<c, "stop">>]
        /\ phase'[<<d, "stop">>] = p
    BY <1>1, <1>4, <1>8
  <2>2. phase[t] # "new" \/ pendingStop = d
    BY <1>8
  <2>3. /\ phase[<<d, "call">>] = "done" /\ after[d] > 0 /\ pendingStop' # d
        /\ \A c \in Cmd : pendingStop' = c => pendingStop = c
    BY <1>5, <1>6, <1>8, <2>2 DEF StopsOK
  <2>4. StopsOK'
    BY <2>1, <2>3 DEF StopsOK
  <2>5. p = "sent" => lastAccepted = <<d, "call">>
    <3> SUFFICES ASSUME p = "sent" PROVE lastAccepted = <<d, "call">>
      OBVIOUS
    <3>1. accepted = after[d]
      BY <1>8 DEF Outdated
    <3> QED
      BY <2>3, <3>1 DEF StopsOK
  <2>6. StopEndsItsOwnAlarm'
    BY <2>1, <2>5 DEF StopEndsItsOwnAlarm
  <2>7. TimedStopStaysDue'
    BY <1>5, <1>8, <2>1, <2>3 DEF TimedStopStaysDue
  <2> QED
    BY <2>4, <2>6, <2>7
<1> QED
  BY <1>1, <1>2, <1>3, <1>7, <1>8

\* The types of what a task at the lock changes.
LEMMA BeginTypes ==
  ASSUME SirenInv, NEW t \in Task, Begin(t)
  PROVE  /\ optimistic' \in {"none", "on", "off"} /\ assumed' \in BOOLEAN
         /\ known' \in {"on", "off"} /\ previous' \in {"none", "on", "off"} \X BOOLEAN
         /\ updated' \in BOOLEAN /\ flight' \subseteq Task
         /\ \E p \in {"sent", "done"} :
              /\ phase' = [phase EXCEPT ![t] = p]
              /\ p = "sent" => ~Outdated(t)
<1> USE DEF SirenInv
<1>1. CASE Outdated(t)
  BY <1>1 DEF Begin, SirenTypeOK, shownVars
<1>2. CASE ~Outdated(t)
  <2>1. /\ phase' = [phase EXCEPT ![t] = "sent"]
        /\ previous' = <<optimistic, assumed>> /\ updated' = FALSE
        /\ optimistic' = Wanted(t) /\ assumed' = TRUE
        /\ flight' = flight \cup {t} /\ known' = known
    BY <1>2 DEF Begin
  <2>2. Wanted(t) \in {"on", "off"}
    BY DEF Wanted
  <2>3. /\ optimistic \in {"none", "on", "off"} /\ assumed \in BOOLEAN
        /\ known \in {"on", "off"} /\ flight \subseteq Task
    BY DEF SirenTypeOK
  <2>4. previous' \in {"none", "on", "off"} \X BOOLEAN
    BY <2>1, <2>3
  <2>5. flight' \subseteq Task
    BY <2>1, <2>3
  <2>6. assumed' \in BOOLEAN /\ updated' \in BOOLEAN
    BY <2>1
  <2> QED
    BY <1>2, <2>1, <2>2, <2>3, <2>4, <2>5, <2>6
<1> QED
  BY <1>1, <1>2

\* A task that has not begun comes to the lock.
LEMMA ArriveKeeps ==
  ASSUME SirenInv, NEW t \in Task, Arrive(t), phase[t] = "new",
         \A c \in Cmd : t = <<c, "stop">> => pendingStop = c /\ pendingStop' = NoCmd,
         \A c \in Cmd : t = <<c, "call">> => pendingStop' = pendingStop,
         UNCHANGED <<asks, accepted, after, loaded, siren, executed, reports, sent,
                     lastAccepted, offReported, cancelled>>
  PROVE  SirenInv'
<1> USE DEF SirenInv
<1>1. PICK p \in {"queued", "sent", "done"} :
        /\ phase' = [phase EXCEPT ![t] = p]
        /\ p = "sent" => Unlocked /\ ~Outdated(t)
        /\ IF p = "queued" THEN waiters' = Append(waiters, t)
                           ELSE waiters' = waiters /\ waiters = <<>>
  <2>1. CASE Unlocked /\ waiters = <<>>
    BY <2>1, BeginTypes DEF Arrive
  <2>2. CASE ~(Unlocked /\ waiters = <<>>)
    BY <2>2 DEF Arrive
  <2> QED
    BY <2>1, <2>2
<1>2. /\ phase' \in [Task -> {"new", "queued", "sent", "done"}]
      /\ \A u, v \in Task : phase'[u] = "sent" /\ phase'[v] = "sent" => u = v
      /\ StopsOK' /\ StopEndsItsOwnAlarm' /\ TimedStopStaysDue'
  BY <1>1, TaskMoves
<1>3. /\ optimistic' \in {"none", "on", "off"} /\ assumed' \in BOOLEAN
      /\ known' \in {"on", "off"} /\ previous' \in {"none", "on", "off"} \X BOOLEAN
      /\ updated' \in BOOLEAN /\ flight' \subseteq Task
  <2>1. CASE Unlocked /\ waiters = <<>>
    BY <2>1, BeginTypes DEF Arrive
  <2>2. CASE ~(Unlocked /\ waiters = <<>>)
    BY <2>2 DEF Arrive, shownVars, SirenTypeOK
  <2> QED
    BY <2>1, <2>2
<1>4. waiters' \in Seq(Task) /\ QueueOK'
  <2>1. CASE p = "queued"
    <3>1. /\ waiters' \in Seq(Task) /\ Len(waiters') = Len(waiters) + 1
          /\ \A i \in 1..Len(waiters) : waiters'[i] = waiters[i]
          /\ waiters'[Len(waiters) + 1] = t
      <4>1. waiters' = Append(waiters, t) /\ waiters \in Seq(Task)
        BY <1>1, <2>1 DEF SirenTypeOK
      <4> QED
        BY <4>1
    <3>2. \A i \in 1..Len(waiters) : waiters[i] \in Task /\ phase[waiters[i]] = "queued"
      BY DEF QueueOK, SirenTypeOK
    <3>3. ASSUME NEW i \in 1..Len(waiters')
          PROVE  phase'[waiters'[i]] = "queued"
      <4>1. phase'[t] = "queued" /\ \A u \in Task \ {t} : phase'[u] = phase[u]
        BY <1>1, <2>1 DEF SirenTypeOK
      <4>2. CASE i = Len(waiters) + 1
        BY <3>1, <4>1, <4>2
      <4>3. CASE i # Len(waiters) + 1
        <5>1. i \in 1..Len(waiters)
          BY <3>1, <4>3 DEF SirenTypeOK
        <5> QED
          BY <3>1, <3>2, <4>1, <5>1
      <4> QED
        BY <4>2, <4>3
    <3>4. ASSUME NEW i \in 1..Len(waiters'), NEW j \in 1..Len(waiters'),
                 waiters'[i] = waiters'[j]
          PROVE  i = j
      <4>1. /\ Len(waiters) \in Nat
            /\ i \in 1..Len(waiters) \/ i = Len(waiters) + 1
            /\ j \in 1..Len(waiters) \/ j = Len(waiters) + 1
        BY <3>1 DEF SirenTypeOK
      <4>2. \A k \in 1..Len(waiters) : waiters'[k] # t
        BY <3>1, <3>2
      <4>3. CASE i \in 1..Len(waiters) /\ j \in 1..Len(waiters)
        BY <3>1, <3>4, <4>3 DEF QueueOK
      <4> QED
        BY <3>1, <3>4, <4>1, <4>2, <4>3
    <3> QED
      BY <3>1, <3>3, <3>4 DEF QueueOK
  <2>2. CASE p # "queued"
    BY <1>1, <2>2 DEF QueueOK, SirenTypeOK
  <2> QED
    BY <2>1, <2>2
<1>5. pendingStop' \in Cmd \cup {NoCmd}
  BY DEF SirenTypeOK, Task
<1>6. SirenTypeOK'
  BY <1>2, <1>3, <1>4, <1>5 DEF SirenTypeOK
<1> QED
  BY <1>2, <1>4, <1>6

LEMMA TakeLockKeeps ==
  ASSUME SirenInv, TakeLock
  PROVE  SirenInv'
<1> USE DEF SirenInv
<1> DEFINE t == Head(waiters)
<1>1. /\ waiters \in Seq(Task) /\ waiters # <<>> /\ waiters' = Tail(waiters) /\ Unlocked
      /\ Begin(t) /\ UNCHANGED <<asks, accepted, pendingStop, after, loaded>>
      /\ UNCHANGED <<siren, executed, reports, sent, lastAccepted, offReported, cancelled>>
  BY DEF TakeLock, SirenTypeOK, timerVars, history
<1>2. /\ t \in Task /\ t = waiters[1] /\ Len(waiters) >= 1
      /\ waiters' \in Seq(Task) /\ Len(waiters') = Len(waiters) - 1
      /\ \A i \in 1..Len(waiters') : waiters'[i] = waiters[i + 1]
  BY <1>1, HeadTailProperties
<1>3. phase[t] = "queued"
  BY <1>2 DEF QueueOK
<1> HIDE DEF t
<1>4. PICK p \in {"sent", "done"} :
        /\ phase' = [phase EXCEPT ![t] = p]
        /\ p = "sent" => ~Outdated(t)
  BY <1>1, <1>2, BeginTypes
<1>5. /\ phase' \in [Task -> {"new", "queued", "sent", "done"}]
      /\ \A u, v \in Task : phase'[u] = "sent" /\ phase'[v] = "sent" => u = v
      /\ StopsOK' /\ StopEndsItsOwnAlarm' /\ TimedStopStaysDue'
  BY <1>1, <1>2, <1>3, <1>4, TaskMoves
<1>6. \A i \in 1..Len(waiters') : waiters'[i] \in Task /\ waiters'[i] # t
  BY <1>2 DEF QueueOK
<1>7. QueueOK'
  <2>1. \A i \in 1..Len(waiters') :
          /\ i + 1 \in 1..Len(waiters) /\ waiters'[i] = waiters[i + 1]
          /\ phase[waiters'[i]] = "queued" /\ i \in Int
    BY <1>1, <1>2 DEF QueueOK
  <2>2. \A i \in 1..Len(waiters') : phase'[waiters'[i]] = "queued"
    BY <1>4, <1>6, <2>1 DEF SirenTypeOK
  <2>3. \A i, j \in 1..Len(waiters') : waiters'[i] = waiters'[j] => i + 1 = j + 1
    <3>1. \A k, l \in 1..Len(waiters) : waiters[k] = waiters[l] => k = l
      BY DEF QueueOK
    <3> SUFFICES ASSUME NEW i \in 1..Len(waiters'), NEW j \in 1..Len(waiters'),
                        waiters'[i] = waiters'[j]
                 PROVE  i + 1 = j + 1
      OBVIOUS
    <3> QED
      BY <2>1, <3>1
  <2> QED
    BY <2>1, <2>2, <2>3 DEF QueueOK
<1>8. SirenTypeOK'
  BY <1>1, <1>2, <1>5, BeginTypes DEF SirenTypeOK
<1> QED
  BY <1>5, <1>7, <1>8

\* A task that had the lock is over: nothing in the queue changes.
LEMMA EndedQueue ==
  ASSUME SirenInv, NEW t \in Task, phase[t] = "sent",
         phase' = [phase EXCEPT ![t] = "done"], waiters' = waiters
  PROVE  QueueOK'
<1>1. \A i \in 1..Len(waiters) : waiters[i] \in Task /\ phase[waiters[i]] = "queued"
  BY DEF SirenInv, QueueOK, SirenTypeOK
<1> QED
  BY <1>1 DEF SirenInv, QueueOK, SirenTypeOK

LEMMA AcceptKeeps ==
  ASSUME SirenInv, NEW t \in Task, Accept(t)
  PROVE  SirenInv'
<1> USE DEF SirenInv
<1> DEFINE timed == t[2] = "call" /\ asks[t[1]] = "timed"
<1>1. /\ phase[t] = "sent" /\ phase' = [phase EXCEPT ![t] = "done"]
      /\ accepted' = accepted + 1 /\ lastAccepted' = t /\ offReported' = FALSE
      /\ UNCHANGED <<asks, waiters, shownVars, loaded, hcuVars, cancelled>>
  BY DEF Accept
<1>2. PICK d \in Cmd : t = <<d, "call">> \/ t = <<d, "stop">>
  BY DEF Task
<1>3. \A c \in Cmd : <<c, "call">> \in Task /\ <<c, "stop">> \in Task /\ c # NoCmd
  BY SirenAssumption DEF Task
<1>4. /\ timed => t = <<d, "call">> /\ pendingStop' = d
                  /\ after' = [after EXCEPT ![d] = accepted + 1]
      /\ ~timed => pendingStop' = NoCmd /\ after' = after
  BY <1>2 DEF Accept
<1>5. timed <=> t = <<d, "call">> /\ asks[d] = "timed"
  BY <1>2
<1> HIDE DEF timed
<1>6. /\ phase' \in [Task -> {"new", "queued", "sent", "done"}]
      /\ phase'[t] = "done" /\ \A u \in Task \ {t} : phase'[u] = phase[u]
      /\ \A u \in Task : phase'[u] # "sent"
      /\ \A u \in Task : phase'[u] = "new" <=> phase[u] = "new"
  BY <1>1 DEF SirenTypeOK
<1>7. /\ accepted' \in Nat /\ after' \in [Cmd -> Nat] /\ pendingStop' \in Cmd \cup {NoCmd}
      /\ timed => after'[d] = accepted' /\ after'[d] > 0
      /\ \A c \in Cmd : ~timed \/ c # d => after'[c] = after[c] /\ after'[c] < accepted'
  <2>1. accepted \in Nat /\ after \in [Cmd -> Nat] /\ \A c \in Cmd : after[c] <= accepted
    BY DEF SirenTypeOK, StopsOK
  <2>2. CASE timed
    BY <1>1, <1>4, <2>1, <2>2
  <2>3. CASE ~timed
    BY <1>1, <1>4, <2>1, <2>3
  <2> QED
    BY <2>2, <2>3
<1>8. timed => phase[<<d, "stop">>] = "new"
  BY <1>1, <1>5 DEF StopsOK
<1>9. phase[<<d, "call">>] # "done" => phase'[<<d, "stop">>] = "new"
  BY <1>3, <1>6 DEF StopsOK
<1>10. StopsOK'
  <2> SUFFICES ASSUME NEW c \in Cmd
               PROVE /\ phase'[<<c, "call">>] # "done"
                          => phase'[<<c, "stop">>] = "new" /\ pendingStop' # c
                     /\ pendingStop' = c => phase'[<<c, "stop">>] = "new"
                     /\ pendingStop' = c \/ phase'[<<c, "stop">>] # "new" => after'[c] > 0
                     /\ after'[c] <= accepted'
                     /\ after'[c] = accepted' /\ accepted' > 0 => lastAccepted' = <<c, "call">>
    BY DEF StopsOK
  <2>1. after'[c] <= accepted' /\ (after'[c] = accepted' => timed /\ c = d)
    BY <1>7 DEF SirenTypeOK
  <2>2. after'[c] = accepted' => lastAccepted' = <<c, "call">>
    BY <1>1, <1>5, <2>1
  <2>3. pendingStop' = c => timed /\ c = d
    BY <1>3, <1>4
  <2>4. pendingStop' = c => phase'[<<c, "stop">>] = "new" /\ after'[c] > 0
                            /\ phase'[<<c, "call">>] = "done"
    BY <1>3, <1>5, <1>6, <1>7, <1>8, <2>3
  <2>5. phase'[<<c, "call">>] # "done" => phase[<<c, "call">>] # "done"
    BY <1>3, <1>6
  <2>6. phase'[<<c, "call">>] # "done" => phase'[<<c, "stop">>] = "new"
    BY <1>3, <1>6, <2>5 DEF StopsOK
  <2>7. phase'[<<c, "stop">>] # "new" => after'[c] > 0
    BY <1>3, <1>6, <1>7, <2>3 DEF StopsOK
  <2> QED
    BY <2>1, <2>2, <2>4, <2>6, <2>7
<1>11. StopEndsItsOwnAlarm'
  BY <1>3, <1>6 DEF StopEndsItsOwnAlarm
<1>12. TimedStopStaysDue'
  BY <1>1, <1>2, <1>4, <1>5 DEF TimedStopStaysDue
<1>13. SirenTypeOK'
  BY <1>1, <1>6, <1>7 DEF SirenTypeOK, shownVars, hcuVars
<1>14. QueueOK'
  BY <1>1, EndedQueue
<1> QED
  BY <1>10, <1>11, <1>12, <1>13, <1>14

LEMMA FailKeeps ==
  ASSUME SirenInv, NEW t \in Task, Fail(t)
  PROVE  SirenInv'
<1> USE DEF SirenInv
<1>1. /\ phase[t] = "sent" /\ phase' = [phase EXCEPT ![t] = "done"]
      /\ optimistic' = Restored[1] /\ assumed' = Restored[2]
      /\ UNCHANGED <<asks, waiters, known, previous, updated, accepted, pendingStop, after>>
      /\ UNCHANGED <<loaded, siren, flight, executed, reports, sent>>
      /\ UNCHANGED <<lastAccepted, offReported, cancelled>>
  BY DEF Fail, timerVars, hcuVars, history
<1>2. Restored \in {"none", "on", "off"} \X BOOLEAN
  BY DEF Restored, SirenTypeOK
<1>3. /\ phase' \in [Task -> {"new", "queued", "sent", "done"}]
      /\ \A u, v \in Task : phase'[u] = "sent" /\ phase'[v] = "sent" => u = v
      /\ StopsOK' /\ StopEndsItsOwnAlarm' /\ TimedStopStaysDue'
  BY <1>1, TaskMoves
<1>4. optimistic' \in {"none", "on", "off"} /\ assumed' \in BOOLEAN
  BY <1>1, <1>2
<1>5. SirenTypeOK'
  BY <1>1, <1>3, <1>4 DEF SirenTypeOK
<1> QED
  BY <1>1, <1>3, <1>5, EndedQueue

LEMMA CancelRunningKeeps ==
  ASSUME SirenInv, NEW c \in Cmd, CancelRunning(c)
  PROVE  SirenInv'
<1> USE DEF SirenInv
<1> DEFINE t == <<c, "call">>
<1>1. /\ t \in Task /\ phase[t] = "sent" /\ phase' = [phase EXCEPT ![t] = "done"]
      /\ cancelled' = TRUE
      /\ UNCHANGED <<asks, waiters, optimistic, assumed, known, previous, updated>>
      /\ UNCHANGED <<accepted, pendingStop, after, loaded>>
      /\ UNCHANGED <<siren, flight, executed, reports, sent, lastAccepted, offReported>>
  BY DEF CancelRunning, shownVars, timerVars, hcuVars, Task
<1>2. \A e \in Cmd : t # <<e, "stop">>
  OBVIOUS
<1> HIDE DEF t
<1>3. /\ phase' \in [Task -> {"new", "queued", "sent", "done"}]
      /\ \A u, v \in Task : phase'[u] = "sent" /\ phase'[v] = "sent" => u = v
      /\ StopsOK' /\ StopEndsItsOwnAlarm' /\ TimedStopStaysDue'
  BY <1>1, <1>2, TaskMoves
<1>4. SirenTypeOK'
  BY <1>1, <1>3 DEF SirenTypeOK
<1> QED
  BY <1>1, <1>3, <1>4, EndedQueue

LEMMA CancelWaitingKeeps ==
  ASSUME SirenInv, NEW c \in Cmd, CancelWaiting(c)
  PROVE  SirenInv'
<1> USE DEF SirenInv
<1> DEFINE t == <<c, "call">>
           ahead(i) == SubSeq(waiters, 1, i - 1)
           behind(i) == SubSeq(waiters, i + 1, Len(waiters))
<1>1. /\ t \in Task /\ phase[t] = "queued" /\ phase' = [phase EXCEPT ![t] = "done"]
      /\ UNCHANGED <<asks, optimistic, assumed, known, previous, updated>>
      /\ UNCHANGED <<accepted, pendingStop, after, loaded>>
      /\ UNCHANGED <<siren, flight, executed, reports, sent>>
      /\ UNCHANGED <<lastAccepted, offReported, cancelled>>
  BY DEF CancelWaiting, shownVars, timerVars, hcuVars, history, Task
<1>2. waiters \in Seq(Task) /\ Len(waiters) \in Nat /\ DOMAIN waiters = 1..Len(waiters)
  BY DEF SirenTypeOK
<1>3. PICK i \in 1..Len(waiters) : waiters[i] = t /\ waiters' = ahead(i) \o behind(i)
  BY <1>2 DEF CancelWaiting
<1>4. \A e \in Cmd : t # <<e, "stop">>
  OBVIOUS
<1> HIDE DEF t
<1>5. /\ ahead(i) \in Seq(Task) /\ Len(ahead(i)) = i - 1
      /\ \A j \in 1..(i - 1) : ahead(i)[j] = waiters[j]
  <2>1. \A j \in 1..(i - 1) : waiters[j] \in Task
    BY <1>2, <1>3
  <2>2. i - 1 \in Int /\ 1 \in Int
    BY <1>2, <1>3
  <2>3. /\ ahead(i) \in Seq(Task)
        /\ Len(ahead(i)) = IF 1 <= i - 1 THEN (i - 1) - 1 + 1 ELSE 0
        /\ \A j \in 1..((i - 1) - 1 + 1) : ahead(i)[j] = waiters[1 + j - 1]
    BY <2>1, <2>2, SubSeqProperties
  <2> QED
    BY <1>2, <1>3, <2>3
<1>6. /\ behind(i) \in Seq(Task) /\ Len(behind(i)) = Len(waiters) - i
      /\ \A j \in 1..(Len(waiters) - i) : behind(i)[j] = waiters[i + j]
  <2>1. \A j \in (i + 1)..Len(waiters) : waiters[j] \in Task
    BY <1>2, <1>3
  <2>2. i + 1 \in Int /\ Len(waiters) \in Int
    BY <1>2, <1>3
  <2>3. /\ behind(i) \in Seq(Task)
        /\ Len(behind(i)) = IF i + 1 <= Len(waiters) THEN Len(waiters) - (i + 1) + 1 ELSE 0
        /\ \A j \in 1..(Len(waiters) - (i + 1) + 1) : behind(i)[j] = waiters[(i + 1) + j - 1]
    BY <2>1, <2>2, SubSeqProperties
  <2> HIDE DEF behind
  <2>4. Len(behind(i)) = Len(waiters) - i
    <3>1. Len(waiters) \in Nat /\ i \in 1..Len(waiters)
      BY <1>2
    <3>2. Len(behind(i)) = IF i + 1 <= Len(waiters) THEN Len(waiters) - (i + 1) + 1 ELSE 0
      BY <2>3
    <3>3. CASE i + 1 <= Len(waiters)
      BY <3>1, <3>2, <3>3
    <3>4. CASE i = Len(waiters)
      BY <3>1, <3>2, <3>4
    <3> QED
      BY <3>1, <3>3, <3>4
  <2>5. ASSUME NEW j \in 1..(Len(waiters) - i)
        PROVE  behind(i)[j] = waiters[i + j]
    <3>1. j \in 1..(Len(waiters) - (i + 1) + 1) /\ (i + 1) + j - 1 = i + j
      BY <1>2
    <3> QED
      BY <2>3, <3>1
  <2> QED
    BY <2>3, <2>4, <2>5
<1> HIDE DEF ahead, behind
<1>7. /\ waiters' \in Seq(Task) /\ Len(waiters') = Len(waiters) - 1
      /\ \A j \in 1..(Len(waiters) - 1) :
           waiters'[j] = IF j < i THEN waiters[j] ELSE waiters[j + 1]
  <2>1. /\ waiters' \in Seq(Task) /\ Len(waiters') = Len(ahead(i)) + Len(behind(i))
        /\ \A j \in 1..(Len(ahead(i)) + Len(behind(i))) :
             waiters'[j] = IF j <= Len(ahead(i)) THEN ahead(i)[j]
                                                  ELSE behind(i)[j - Len(ahead(i))]
    BY <1>3, <1>5, <1>6, ConcatProperties
  <2>2. Len(waiters') = Len(waiters) - 1
    BY <1>2, <1>3, <1>5, <1>6, <2>1
  <2>3. ASSUME NEW j \in 1..(Len(waiters) - 1), j < i
        PROVE  waiters'[j] = waiters[j]
    BY <1>2, <1>3, <1>5, <1>6, <2>1, <2>3
  <2>4. ASSUME NEW j \in 1..(Len(waiters) - 1), ~(j < i)
        PROVE  waiters'[j] = waiters[j + 1]
    <3>1. waiters'[j] = behind(i)[j - (i - 1)] /\ j - (i - 1) \in 1..(Len(waiters) - i)
      BY <1>2, <1>3, <1>5, <1>6, <2>1, <2>4
    <3> QED
      BY <1>2, <1>3, <1>6, <3>1
  <2> QED
    BY <2>1, <2>2, <2>3, <2>4
<1>8. /\ phase' \in [Task -> {"new", "queued", "sent", "done"}]
      /\ \A u, v \in Task : phase'[u] = "sent" /\ phase'[v] = "sent" => u = v
      /\ StopsOK' /\ StopEndsItsOwnAlarm' /\ TimedStopStaysDue'
  BY <1>1, <1>4, TaskMoves
<1>9. QueueOK'
  <2>1. \A j \in 1..Len(waiters') :
          \E k \in 1..Len(waiters) :
            /\ waiters'[j] = waiters[k] /\ k # i
            /\ k = IF j < i THEN j ELSE j + 1
    BY <1>2, <1>3, <1>7
  <2>2. \A k \in 1..Len(waiters) : k # i => waiters[k] \in Task /\ waiters[k] # t
    BY <1>2, <1>3 DEF QueueOK
  <2>3. \A k \in 1..Len(waiters) : k # i => phase'[waiters[k]] = "queued"
    BY <1>1, <2>2 DEF QueueOK, SirenTypeOK
  <2>4. \A j \in 1..Len(waiters') : phase'[waiters'[j]] = "queued"
    BY <2>1, <2>3
  <2>5. \A j, l \in 1..Len(waiters') : waiters'[j] = waiters'[l] => j = l
    BY <1>2, <1>7, <2>1 DEF QueueOK
  <2> QED
    BY <2>4, <2>5 DEF QueueOK
<1>10. SirenTypeOK'
  BY <1>1, <1>7, <1>8 DEF SirenTypeOK
<1> QED
  BY <1>8, <1>9, <1>10

\* Steps that move no task: the reports, the removal, and the HCU's own.
LEMMA OtherStepsKeep ==
  ASSUME SirenInv, \/ Report \/ Remove \/ HcuReports
                   \/ \E t \in Task : HcuExecutes(t) \/ HcuIgnores(t)
  PROVE  SirenInv'
<1> USE DEF SirenInv
<1>1. /\ UNCHANGED <<asks, phase, waiters, accepted, after, lastAccepted>>
      /\ pendingStop' \in {pendingStop, NoCmd}
      /\ pendingStop' # pendingStop => ~loaded' \/ offReported'
      /\ loaded' => loaded
      /\ offReported => offReported'
  BY DEF Report, Remove, HcuReports, HcuExecutes, HcuIgnores, shownVars, timerVars,
         hcuVars, history, SirenTypeOK
<1>2. SirenTypeOK'
  <2>1. CASE Report
    <3>1. /\ reports' \in Seq({"on", "off"}) /\ known' \in {"on", "off"}
      BY <2>1, HeadTailProperties DEF Report, SirenTypeOK
    <3> QED
      BY <1>1, <2>1, <3>1 DEF Report, SirenTypeOK
  <2>2. CASE Remove
    BY <2>2 DEF Remove, SirenTypeOK, shownVars, hcuVars, history
  <2>3. CASE HcuReports
    BY <2>3 DEF HcuReports, SirenTypeOK, shownVars, timerVars, history
  <2>4. ASSUME NEW t \in Task, HcuExecutes(t)
        PROVE  SirenTypeOK'
    <3>1. siren' \in {"on", "off"} /\ reports' \in Seq({"on", "off"})
      BY <2>4 DEF HcuExecutes, Wanted, SirenTypeOK
    <3> QED
      BY <2>4, <3>1 DEF HcuExecutes, SirenTypeOK, shownVars, timerVars, history
  <2>5. ASSUME NEW t \in Task, HcuIgnores(t)
        PROVE  SirenTypeOK'
    BY <2>5 DEF HcuIgnores, SirenTypeOK, shownVars, timerVars, history
  <2> QED
    BY <2>1, <2>2, <2>3, <2>4, <2>5
<1>3. QueueOK' /\ StopEndsItsOwnAlarm'
  BY <1>1 DEF QueueOK, StopEndsItsOwnAlarm
<1>4. StopsOK'
  BY <1>1, SirenAssumption DEF StopsOK
<1>5. TimedStopStaysDue'
  BY <1>1 DEF TimedStopStaysDue
<1> QED
  BY <1>2, <1>3, <1>4, <1>5

LEMMA SirenInvInit == SirenInit => SirenInv
<1> SUFFICES ASSUME SirenInit PROVE SirenInv
  OBVIOUS
<1>1. \A c \in Cmd : <<c, "call">> \in Task /\ <<c, "stop">> \in Task /\ c # NoCmd
  BY SirenAssumption DEF Task
<1>2. SirenTypeOK
  <2>1. /\ phase \in [Task -> {"new", "queued", "sent", "done"}]
        /\ \A u \in Task : phase[u] = "new"
    BY DEF SirenInit
  <2>2. waiters \in Seq(Task) /\ reports \in Seq({"on", "off"})
    BY DEF SirenInit
  <2>3. previous \in {"none", "on", "off"} \X BOOLEAN
    BY DEF SirenInit
  <2>4. /\ assumed \in BOOLEAN /\ updated \in BOOLEAN /\ loaded \in BOOLEAN
        /\ offReported \in BOOLEAN /\ cancelled \in BOOLEAN
    BY DEF SirenInit
  <2>5. accepted \in Nat /\ sent \in Nat /\ after \in [Cmd -> Nat]
    BY DEF SirenInit
  <2> QED
    BY <2>1, <2>2, <2>3, <2>4, <2>5 DEF SirenInit, SirenTypeOK
<1>3. QueueOK
  BY DEF SirenInit, QueueOK
<1>4. StopsOK
  <2>1. \A c \in Cmd : phase[<<c, "stop">>] = "new" /\ pendingStop # c /\ after[c] = 0
    BY <1>1 DEF SirenInit
  <2>2. accepted = 0
    BY DEF SirenInit
  <2>3. ~(accepted > 0)
    BY <2>2
  <2>4. ASSUME NEW c \in Cmd
        PROVE  after[c] <= accepted
    <3>1. after[c] = 0
      BY <2>1
    <3> QED
      BY <2>2, <3>1
  <2> QED
    BY <2>1, <2>3, <2>4, Zenon DEF StopsOK
<1>5. StopEndsItsOwnAlarm
  BY <1>1 DEF SirenInit, StopEndsItsOwnAlarm
<1>6. TimedStopStaysDue
  BY <1>1 DEF SirenInit, TimedStopStaysDue, NoTask
<1> QED
  BY <1>2, <1>3, <1>4, <1>5, <1>6 DEF SirenInv

LEMMA SirenInvNext ==
  ASSUME SirenInv, [SirenNext]_sirenVars
  PROVE  SirenInv'
<1>1. CASE UNCHANGED sirenVars
  BY <1>1 DEF sirenVars, shownVars, timerVars, hcuVars, history, SirenInv, SirenTypeOK,
              QueueOK, StopsOK, StopEndsItsOwnAlarm, TimedStopStaysDue
<1>2. ASSUME NEW c \in Cmd, SwitchCall(c)
      PROVE  SirenInv'
  BY <1>2, ArriveKeeps DEF SwitchCall, Task, timerVars, history
<1>3. ASSUME NEW c \in Cmd, Elapse(c)
      PROVE  SirenInv'
  <2>1. phase[<<c, "stop">>] = "new"
    BY <1>3 DEF Elapse, SirenInv, StopsOK
  <2> QED
    BY <1>3, <2>1, ArriveKeeps DEF Elapse, Task, history
<1> QED
  BY <1>1, <1>2, <1>3, TakeLockKeeps, AcceptKeeps, FailKeeps, CancelRunningKeeps,
     CancelWaitingKeeps, OtherStepsKeep DEF SirenNext

LEMMA SirenInvAlways == SirenSpec => []SirenInv
BY SirenInvInit, SirenInvNext, PTL DEF SirenSpec

\* The types, and that one task has the lock at a time.
THEOREM SirenTypes == SirenSpec => []SirenTypeOK
<1>1. SirenInv => SirenTypeOK
  BY DEF SirenInv
<1> QED
  BY <1>1, SirenInvAlways, PTL

\* A timed stop never ends a newer alarm (_async_switch).
THEOREM StopsOwnAlarm == SirenSpec => []StopEndsItsOwnAlarm
<1>1. SirenInv => StopEndsItsOwnAlarm
  BY DEF SirenInv
<1> QED
  BY <1>1, SirenInvAlways, PTL

\* Only an accepted command, a report that the group is off or the removal of the
\* entity takes a timed stop back (_async_switch).
THEOREM TimedStopsStay == SirenSpec => []TimedStopStaysDue
<1>1. SirenInv => TimedStopStaysDue
  BY DEF SirenInv
<1> QED
  BY <1>1, SirenInvAlways, PTL

-----------------------------------------------------------------------------
(* What a siren shows *)

\* The last element of a sequence that loses its first one.
LEMMA LastOfTail ==
  ASSUME NEW S, NEW s \in Seq(S), s # <<>>
  PROVE  /\ Head(s) \in S /\ Tail(s) \in Seq(S)
         /\ s[Len(s)] = IF Tail(s) = <<>> THEN Head(s) ELSE Tail(s)[Len(Tail(s))]
<1>1. /\ Head(s) \in S /\ Tail(s) \in Seq(S) /\ Head(s) = s[1]
      /\ Len(s) \in Nat /\ Len(Tail(s)) = Len(s) - 1
      /\ \A i \in 1 .. Len(Tail(s)) : Tail(s)[i] = s[i + 1]
  BY HeadTailProperties
<1>2. Tail(s) = <<>> <=> Len(Tail(s)) = 0
  <2> DEFINE q == Tail(s)
  <2>1. q \in Seq(S)
    BY <1>1
  <2> HIDE DEF q
  <2>2. q = <<>> <=> Len(q) = 0
    BY <2>1, EmptySeq
  <2> QED  BY <2>2 DEF q
<1>3. CASE Tail(s) = <<>>
  <2>1. Len(s) = 1
    BY <1>1, <1>2, <1>3
  <2> QED  BY <1>1, <1>3, <2>1
<1>4. CASE Tail(s) # <<>>
  <2>1. Len(Tail(s)) \in 1 .. Len(Tail(s)) /\ Len(Tail(s)) + 1 = Len(s)
    BY <1>1, <1>2, <1>4
  <2> QED  BY <1>1, <1>4, <2>1
<1> QED  BY <1>1, <1>3, <1>4

\* ... and of one that gets another.
LEMMA LastOfAppend ==
  ASSUME NEW S, NEW s \in Seq(S), NEW v \in S
  PROVE  /\ Append(s, v) \in Seq(S) /\ Append(s, v) # <<>>
         /\ Append(s, v)[Len(Append(s, v))] = v
BY AppendProperties

\* What the HCU reported of the group last, handled or not.
ReportedLast == IF reports = <<>> THEN known ELSE reports[Len(reports)]

\* A pair of an optimistic state and whether it is assumed that shows what the
\* cache holds.
Agrees(o, a) == a /\ o # "none" => o = known

\* Requests are sent by tasks that had the lock.
RequestsOK == \A t \in flight \cup executed : phase[t] \in {"sent", "done"}

\* With nothing left to handle, a report since the running task began has ended the
\* optimistic state; without one, both what the task shows, if the HCU carried it
\* out, and what it would restore agree with the cache.
LockedOK(t) ==
  \/ updated = TRUE /\ assumed = FALSE
  \/ /\ updated = FALSE
     /\ Agrees(previous[1], previous[2])
     /\ t \in executed => Wanted(t) = known
     /\ optimistic = Wanted(t)

ShownOK ==
  cancelled = FALSE /\ reports = <<>> =>
    /\ Unlocked => Agrees(optimistic, assumed)
    /\ \A t \in Task : phase[t] = "sent" => LockedOK(t)

SirenShownInv == RequestsOK /\ ReportedLast = siren /\ ShownOK

LEMMA BeginShows ==
  ASSUME SirenInv, SirenShownInv, NEW t \in Task, Begin(t), Unlocked,
         phase[t] \in {"new", "queued"},
         UNCHANGED <<asks, siren, executed, reports, cancelled>>
  PROVE  SirenShownInv'
<1>0. phase \in [Task -> {"new", "queued", "sent", "done"}] /\ t \notin flight \cup executed
  BY DEF SirenInv, SirenTypeOK, SirenShownInv, RequestsOK
<1>1. CASE Outdated(t)
  <2>1. /\ phase' = [phase EXCEPT ![t] = "done"]
        /\ UNCHANGED <<optimistic, assumed, known, previous, updated, flight>>
    BY <1>1 DEF Begin, shownVars
  <2>2. RequestsOK' /\ (ReportedLast = siren)'
    BY <1>0, <2>1 DEF SirenShownInv, RequestsOK, ReportedLast, SirenInv, SirenTypeOK
  <2>3. \A u \in Task : phase'[u] # "sent"
    BY <1>0, <2>1 DEF Unlocked
  <2>4. ShownOK'
    BY <2>1, <2>3 DEF SirenShownInv, ShownOK, Agrees
  <2> QED  BY <2>2, <2>4 DEF SirenShownInv
<1>2. CASE ~Outdated(t)
  <2>1. /\ phase' = [phase EXCEPT ![t] = "sent"]
        /\ previous' = <<optimistic, assumed>> /\ updated' = FALSE
        /\ optimistic' = Wanted(t) /\ assumed' = TRUE
        /\ flight' = flight \cup {t} /\ known' = known
    BY <1>2 DEF Begin
  <2>2. RequestsOK' /\ (ReportedLast = siren)'
    BY <1>0, <2>1 DEF SirenShownInv, RequestsOK, ReportedLast, SirenInv, SirenTypeOK
  <2>3. \A u \in Task : phase'[u] = "sent" => u = t
    BY <1>0, <2>1 DEF Unlocked
  <2>4. Wanted(t)' = Wanted(t)
    BY DEF Wanted
  <2>5. ASSUME (cancelled = FALSE /\ reports = <<>>)' PROVE LockedOK(t)'
    <3>1. Agrees(optimistic, assumed)
      BY <2>5 DEF SirenShownInv, ShownOK
    <3>2. (Agrees(previous[1], previous[2]))'
      BY <2>1, <3>1 DEF Agrees
    <3> QED  BY <1>0, <2>1, <2>4, <3>2 DEF LockedOK
  <2>6. ~Unlocked'
    BY <1>0, <2>1 DEF Unlocked
  <2>7. ShownOK'
    BY <2>3, <2>5, <2>6 DEF ShownOK
  <2> QED  BY <2>2, <2>7 DEF SirenShownInv
<1> QED  BY <1>1, <1>2

LEMMA ArriveShows ==
  ASSUME SirenInv, SirenShownInv, NEW t \in Task, Arrive(t), phase[t] = "new",
         UNCHANGED <<asks, siren, executed, reports, cancelled>>
  PROVE  SirenShownInv'
<1>1. CASE Unlocked /\ waiters = <<>>
  BY <1>1, BeginShows DEF Arrive
<1>2. CASE ~(Unlocked /\ waiters = <<>>)
  <2>1. /\ phase' = [phase EXCEPT ![t] = "queued"]
        /\ UNCHANGED <<optimistic, assumed, known, previous, updated, flight>>
    BY <1>2 DEF Arrive, shownVars
  <2>2. phase \in [Task -> {"new", "queued", "sent", "done"}] /\ t \notin flight \cup executed
    BY DEF SirenInv, SirenTypeOK, SirenShownInv, RequestsOK
  <2>3. \A u \in Task : phase'[u] = "sent" <=> phase[u] = "sent"
    BY <2>1, <2>2
  <2>4. RequestsOK' /\ (ReportedLast = siren)'
    BY <2>1, <2>2 DEF SirenShownInv, RequestsOK, ReportedLast, SirenInv, SirenTypeOK
  <2>5. Unlocked' = Unlocked /\ \A u \in Task : LockedOK(u)' = LockedOK(u)
    BY <2>1, <2>3 DEF Unlocked, LockedOK, Agrees, Wanted
  <2>6. ShownOK'
    BY <2>1, <2>3, <2>5 DEF SirenShownInv, ShownOK, Agrees, Unlocked
  <2> QED  BY <2>4, <2>6 DEF SirenShownInv
<1> QED  BY <1>1, <1>2

LEMMA EndShows ==
  ASSUME SirenInv, SirenShownInv, NEW t \in Task, phase[t] = "sent",
         phase' = [phase EXCEPT ![t] = "done"],
         UNCHANGED <<asks, known, flight, executed, reports, siren>>,
         \/ cancelled' = TRUE
         \/ /\ UNCHANGED cancelled
            /\ (cancelled = FALSE /\ reports = <<>> => Agrees(optimistic', assumed'))
  PROVE  SirenShownInv'
<1>1. /\ phase \in [Task -> {"new", "queued", "sent", "done"}]
      /\ \A u \in Task : phase[u] = "sent" => u = t
      /\ flight \cup executed \subseteq Task
  BY DEF SirenInv, SirenTypeOK
<1>2. \A u \in Task : phase'[u] # "sent"
  BY <1>1
<1>3. RequestsOK' /\ (ReportedLast = siren)'
  BY <1>1 DEF SirenShownInv, RequestsOK, ReportedLast
<1>4. ShownOK'
  BY <1>2 DEF ShownOK, Agrees
<1> QED  BY <1>3, <1>4 DEF SirenShownInv

LEMMA AcceptShows ==
  ASSUME SirenInv, SirenShownInv, NEW t \in Task, Accept(t)
  PROVE  SirenShownInv'
<1>1. /\ phase[t] = "sent" /\ t \in executed
      /\ phase' = [phase EXCEPT ![t] = "done"]
      /\ UNCHANGED <<asks, optimistic, assumed, known, flight, executed, reports, siren,
                     cancelled>>
  BY DEF Accept, shownVars, hcuVars
<1>2. cancelled = FALSE /\ reports = <<>> => Agrees(optimistic', assumed')
  BY <1>1 DEF SirenShownInv, ShownOK, LockedOK, Agrees
<1> QED  BY <1>1, <1>2, EndShows

LEMMA FailShows ==
  ASSUME SirenInv, SirenShownInv, NEW t \in Task, Fail(t)
  PROVE  SirenShownInv'
<1>1. /\ phase[t] = "sent"
      /\ phase' = [phase EXCEPT ![t] = "done"]
      /\ optimistic' = Restored[1] /\ assumed' = Restored[2]
      /\ UNCHANGED <<asks, known, flight, executed, reports, siren, cancelled>>
  BY DEF Fail, timerVars, hcuVars, history
<1>2. ASSUME cancelled = FALSE, reports = <<>> PROVE Agrees(optimistic', assumed')
  <2>1. LockedOK(t)
    BY <1>1, <1>2 DEF SirenShownInv, ShownOK
  <2>2. CASE updated = TRUE
    <3>1. Restored = <<"none", FALSE>>
      BY <2>2 DEF Restored
    <3> QED  BY <1>1, <3>1 DEF Agrees
  <2>3. CASE updated = FALSE /\ Agrees(previous[1], previous[2])
    <3>1. Restored = previous
      BY <2>3 DEF Restored
    <3> QED  BY <1>1, <2>3, <3>1 DEF Agrees
  <2> QED  BY <2>1, <2>2, <2>3 DEF LockedOK
<1> QED  BY <1>1, <1>2, EndShows

LEMMA CancelWaitingShows ==
  ASSUME SirenInv, SirenShownInv, NEW c \in Cmd, CancelWaiting(c)
  PROVE  SirenShownInv'
<1> DEFINE t == <<c, "call">>
<1>1. /\ phase[t] = "queued" /\ phase' = [phase EXCEPT ![t] = "done"]
      /\ UNCHANGED <<asks, optimistic, assumed, known, previous, updated, flight, executed,
                     reports, siren, cancelled>>
  BY DEF CancelWaiting, shownVars, timerVars, hcuVars, history
<1>2. /\ phase \in [Task -> {"new", "queued", "sent", "done"}] /\ t \in Task
      /\ flight \cup executed \subseteq Task
  BY DEF SirenInv, SirenTypeOK, Task
<1> HIDE DEF t
<1>3. \A u \in Task : phase'[u] = "sent" <=> phase[u] = "sent"
  BY <1>1, <1>2
<1>4. RequestsOK' /\ (ReportedLast = siren)'
  BY <1>1, <1>2 DEF SirenShownInv, RequestsOK, ReportedLast
<1>5. Unlocked' = Unlocked /\ \A u \in Task : LockedOK(u)' = LockedOK(u)
  BY <1>1, <1>3 DEF Unlocked, LockedOK, Agrees, Wanted
<1>6. ShownOK'
  BY <1>1, <1>3, <1>5 DEF SirenShownInv, ShownOK, Agrees
<1> QED  BY <1>4, <1>6 DEF SirenShownInv

LEMMA ReportShows ==
  ASSUME SirenInv, SirenShownInv, Report
  PROVE  SirenShownInv'
<1>1. /\ reports # <<>> /\ reports' = Tail(reports) /\ known' = Head(reports)
      /\ updated' = TRUE /\ optimistic' = "none" /\ assumed' = FALSE
      /\ UNCHANGED <<phase, flight, executed, siren>>
  BY DEF Report
<1>2. reports[Len(reports)] = IF Tail(reports) = <<>> THEN Head(reports)
                              ELSE Tail(reports)[Len(Tail(reports))]
  BY <1>1, LastOfTail DEF SirenInv, SirenTypeOK
<1>3. (ReportedLast = siren)'
  BY <1>1, <1>2 DEF SirenShownInv, ReportedLast
<1>4. RequestsOK'
  BY <1>1 DEF SirenShownInv, RequestsOK
<1>5. ShownOK'
  BY <1>1 DEF ShownOK, LockedOK, Agrees
<1> QED  BY <1>3, <1>4, <1>5 DEF SirenShownInv

LEMMA HcuShows ==
  ASSUME SirenInv, SirenShownInv,
         HcuReports \/ \E t \in Task : HcuExecutes(t) \/ HcuIgnores(t)
  PROVE  SirenShownInv'
<1>1. \A v \in {"on", "off"} :
        /\ Append(reports, v) # <<>>
        /\ Append(reports, v)[Len(Append(reports, v))] = v
  <2> DEFINE S == {"on", "off"}
  <2>1. reports \in Seq(S)
    BY DEF SirenInv, SirenTypeOK
  <2> HIDE DEF S
  <2>2. \A v \in S : /\ Append(reports, v) # <<>>
                     /\ Append(reports, v)[Len(Append(reports, v))] = v
    BY <2>1, LastOfAppend
  <2> QED  BY <2>2 DEF S
<1>2. UNCHANGED <<asks, phase, optimistic, assumed, known, previous, updated, cancelled>>
  <2>1. CASE HcuReports
    BY <2>1 DEF HcuReports, shownVars, history
  <2>2. ASSUME NEW t \in Task, HcuExecutes(t) \/ HcuIgnores(t)
        PROVE  UNCHANGED <<asks, phase, optimistic, assumed, known, previous, updated,
                           cancelled>>
    BY <2>2 DEF HcuExecutes, HcuIgnores, shownVars, history
  <2> QED  BY <2>1, <2>2
<1>3. CASE HcuReports
  <2>1. /\ siren' \in {"on", "off"} /\ reports' = Append(reports, siren')
        /\ UNCHANGED <<flight, executed>>
    BY <1>3 DEF HcuReports
  <2>2. ShownOK'
    BY <1>1, <2>1 DEF ShownOK
  <2> QED  BY <1>1, <1>2, <2>1, <2>2 DEF SirenShownInv, RequestsOK, ReportedLast
<1>4. ASSUME NEW t \in Task, HcuIgnores(t) PROVE SirenShownInv'
  <2>1. flight' = flight \ {t} /\ UNCHANGED <<executed, siren, reports>>
    BY <1>4 DEF HcuIgnores
  <2>2. Unlocked' = Unlocked /\ \A u \in Task : LockedOK(u)' = LockedOK(u)
    BY <1>2, <2>1 DEF Unlocked, LockedOK, Agrees, Wanted
  <2>3. ShownOK'
    BY <1>2, <2>1, <2>2 DEF SirenShownInv, ShownOK, Agrees
  <2> QED  BY <1>2, <2>1, <2>3 DEF SirenShownInv, RequestsOK, ReportedLast
<1>5. ASSUME NEW t \in Task, HcuExecutes(t) PROVE SirenShownInv'
  <2>1. /\ t \in flight /\ flight' = flight \ {t} /\ executed' = executed \cup {t}
        /\ siren' = Wanted(t)
        /\ reports' = IF siren' = siren THEN reports ELSE Append(reports, siren')
    BY <1>5 DEF HcuExecutes
  <2>2. Wanted(t) \in {"on", "off"} /\ \A u \in Task : Wanted(u)' = Wanted(u)
    BY <1>2 DEF Wanted
  <2>3. RequestsOK'
    BY <1>2, <2>1 DEF SirenShownInv, RequestsOK
  <2>4. (ReportedLast = siren)'
    BY <1>1, <1>2, <2>1, <2>2 DEF SirenShownInv, ReportedLast
  <2>5. CASE siren' = siren
    <3>1. ASSUME reports = <<>> PROVE known = Wanted(t)
      BY <2>1, <2>5, <3>1 DEF SirenShownInv, ReportedLast
    <3>2. ASSUME reports = <<>>, NEW u \in Task, LockedOK(u) PROVE LockedOK(u)'
      BY <1>2, <2>1, <2>2, <3>1, <3>2 DEF LockedOK, Agrees
    <3>3. Unlocked' = Unlocked
      BY <1>2 DEF Unlocked
    <3>4. ShownOK'
      BY <1>2, <2>1, <2>5, <3>2, <3>3 DEF SirenShownInv, ShownOK, Agrees
    <3> QED  BY <2>3, <2>4, <3>4 DEF SirenShownInv
  <2>6. CASE siren' # siren
    <3>1. ShownOK'
      BY <1>1, <2>1, <2>2, <2>6 DEF ShownOK
    <3> QED  BY <2>3, <2>4, <3>1 DEF SirenShownInv
  <2> QED  BY <2>5, <2>6
<1> QED  BY <1>3, <1>4, <1>5

LEMMA StillShows ==
  ASSUME SirenShownInv,
         UNCHANGED <<asks, phase, optimistic, assumed, known, previous, updated,
                     siren, flight, executed, reports, cancelled>>
  PROVE  SirenShownInv'
<1>1. Unlocked' = Unlocked /\ \A u \in Task : LockedOK(u)' = LockedOK(u)
  BY DEF Unlocked, LockedOK, Agrees, Wanted
<1>2. ShownOK'
  BY <1>1 DEF SirenShownInv, ShownOK, Agrees
<1> QED  BY <1>2 DEF SirenShownInv, RequestsOK, ReportedLast

LEMMA SirenShownInvAlways == SirenSpec => []SirenShownInv
<1>1. SirenInit => SirenShownInv
  <2> SUFFICES ASSUME SirenInit PROVE SirenShownInv
    OBVIOUS
  <2>1. reports = <<>> /\ flight = {} /\ executed = {} /\ siren = known
        /\ assumed = FALSE /\ \A t \in Task : phase[t] = "new"
    BY DEF SirenInit
  <2> QED  BY <2>1 DEF SirenShownInv, RequestsOK, ReportedLast, ShownOK, Agrees
<1>2. SirenInv /\ SirenShownInv /\ [SirenNext]_sirenVars => SirenShownInv'
  <2> SUFFICES ASSUME SirenInv, SirenShownInv, [SirenNext]_sirenVars PROVE SirenShownInv'
    OBVIOUS
  <2>1. CASE UNCHANGED sirenVars
    BY <2>1, StillShows DEF sirenVars, shownVars, hcuVars, history
  <2>2. CASE Remove
    BY <2>2, StillShows DEF Remove, shownVars, hcuVars, history
  <2>3. ASSUME NEW c \in Cmd, SwitchCall(c) PROVE SirenShownInv'
    BY <2>3, ArriveShows DEF SwitchCall, Task, history
  <2>4. ASSUME NEW c \in Cmd, Elapse(c) PROVE SirenShownInv'
    <3>1. phase[<<c, "stop">>] = "new"
      BY <2>4 DEF Elapse, SirenInv, StopsOK
    <3> QED  BY <2>4, <3>1, ArriveShows DEF Elapse, Task, history
  <2>5. CASE TakeLock
    <3>1. Head(waiters) \in Task /\ phase[Head(waiters)] = "queued"
      BY <2>5, HeadTailProperties, EmptySeq DEF TakeLock, SirenInv, SirenTypeOK, QueueOK
    <3> QED  BY <2>5, <3>1, BeginShows DEF TakeLock, history
  <2>6. ASSUME NEW c \in Cmd, CancelRunning(c) PROVE SirenShownInv'
    BY <2>6, EndShows DEF CancelRunning, Task, shownVars, hcuVars
  <2> QED
    BY <2>1, <2>2, <2>3, <2>4, <2>5, <2>6, AcceptShows, FailShows, CancelWaitingShows,
       ReportShows, HcuShows DEF SirenNext
<1> QED  BY <1>1, <1>2, SirenInvAlways, PTL DEF SirenSpec

\* For any number of service calls and reports: with nobody at the lock and every
\* report handled, the siren shows its group (_async_switch and
\* _handle_coordinator_update in siren.py), unless a call was cancelled while it ran.
THEOREM SirenSettles == SirenSpec => []ShownStateSettles
<1>1. SirenInv /\ SirenShownInv => ShownStateSettles
  <2> SUFFICES ASSUME SirenShownInv, SirenInv, reports = <<>>, ~cancelled, Unlocked
               PROVE  IsOn = siren
    BY DEF ShownStateSettles
  <2>1. cancelled = FALSE
    BY DEF SirenInv, SirenTypeOK
  <2>2. known = siren /\ Agrees(optimistic, assumed)
    BY <2>1 DEF SirenShownInv, ShownOK, ReportedLast
  <2> QED  BY <2>2 DEF IsOn, Agrees
<1> QED  BY <1>1, SirenInvAlways, SirenShownInvAlways, PTL

-----------------------------------------------------------------------------
(* A switched entity *)

\* What the HCU reported last, handled or not.
LastReport == IF news = <<>> THEN cached ELSE news[Len(news)]

\* v is what the cache holds, or what a running call asks for that the HCU has
\* not carried out.
Explained(v) ==
  v = cached \/ \E r \in Request : at[r] = "sent" /\ r \notin obeyed /\ v = wants[r]

\* A call that was not made has reached nobody; one that was made noted what was
\* shown before, except where the state is only laid over.
SwitchCallsOK ==
  \A r \in Request :
    /\ at[r] = "new" => r \notin obeyed \cup onItsWay
    /\ before[r] = "none" => at[r] = "new" \/ style = "overlay"

\* With every report handled, what the entity shows is explained, and so is its
\* optimistic attribute; a group that nothing else happened to would restore what
\* the cache holds.
GuessOK ==
  ~undone /\ news = <<>> =>
    /\ Explained(shown)
    /\ attr = "none" \/ Explained(attr)
    /\ \A r \in alone : at[r] = "sent" /\ style = "group" => before[r] = cached

GuessInv == OptimisticTypeOK /\ SwitchCallsOK /\ LastReport = device /\ GuessOK

LEMMA SwitchKeeps ==
  ASSUME GuessInv, NEW r \in Request, Switch(r)
  PROVE  GuessInv'
<1> USE DEF GuessInv
<1>1. /\ UNCHANGED <<style, wants, cached, device, obeyed, news, told, undone>>
      /\ at' = [at EXCEPT ![r] = "sent"] /\ before' = [before EXCEPT ![r] = attr]
      /\ attr' = wants[r] /\ shown' = wants[r] /\ onItsWay' = onItsWay \cup {r}
      /\ alone' = IF \E q \in Request : at[q] = "sent" THEN {} ELSE {r}
      /\ at[r] = "new"
  BY DEF Switch
<1>2. wants[r] \in {"on", "off"}
  BY DEF OptimisticTypeOK, OnOff
<1>3. OptimisticTypeOK'
  BY <1>1, <1>2 DEF OptimisticTypeOK, OnOff
<1>4. SwitchCallsOK'
  BY <1>1 DEF SwitchCallsOK, OptimisticTypeOK
<1>5. (LastReport = device)'
  BY <1>1 DEF LastReport
<1>6. GuessOK'
  <2>1. Explained(shown)' /\ Explained(attr)'
    BY <1>1 DEF Explained, SwitchCallsOK, OptimisticTypeOK
  <2>2. ASSUME (~undone /\ news = <<>>)', NEW q \in alone', (at[q] = "sent")', style = "group"
        PROVE  before'[q] = cached
    <3>1. q = r /\ \A p \in Request : at[p] # "sent"
      BY <1>1, <2>2
    <3>2. attr = cached
      BY <1>1, <2>2, <3>1 DEF GuessOK, Explained, OptimisticTypeOK
    <3> QED  BY <1>1, <3>1, <3>2 DEF OptimisticTypeOK
  <2> QED  BY <1>1, <2>1, <2>2 DEF GuessOK
<1> QED  BY <1>3, <1>4, <1>5, <1>6

LEMMA CallEndsKeep ==
  ASSUME GuessInv, NEW r \in Request, Succeed(r) \/ Abandon(r)
  PROVE  GuessInv'
<1> USE DEF GuessInv
<1>1. /\ UNCHANGED <<style, wants, cached, device, obeyed, news, told, onItsWay,
                     before, attr, shown>>
      /\ at[r] = "sent" /\ at' = [at EXCEPT ![r] = "done"]
      /\ \/ r \in obeyed /\ UNCHANGED <<undone, alone>>
         \/ undone' = TRUE /\ alone' = {}
  BY DEF Succeed, Abandon, shownState, deviceVars
<1>2. OptimisticTypeOK'
  BY <1>1 DEF OptimisticTypeOK
<1>3. SwitchCallsOK'
  BY <1>1 DEF SwitchCallsOK, OptimisticTypeOK
<1>4. (LastReport = device)'
  BY <1>1 DEF LastReport
<1>5. GuessOK'
  <2>1. ASSUME (~undone)' PROVE r \in obeyed /\ alone' = alone /\ undone' = undone
    BY <1>1, <2>1
  <2>2. ASSUME (~undone)', NEW v, Explained(v) PROVE Explained(v)'
    BY <1>1, <2>1, <2>2 DEF Explained, OptimisticTypeOK
  <2>3. ASSUME (~undone)', NEW q \in alone', (at[q] = "sent")'
        PROVE  q \in alone /\ at[q] = "sent"
    BY <1>1, <2>1, <2>3 DEF OptimisticTypeOK
  <2> QED  BY <1>1, <2>1, <2>2, <2>3 DEF GuessOK
<1> QED  BY <1>2, <1>3, <1>4, <1>5

LEMMA GiveUpKeeps ==
  ASSUME GuessInv, NEW r \in Request, GiveUp(r)
  PROVE  GuessInv'
<1> USE DEF GuessInv
<1>1. /\ UNCHANGED <<style, wants, cached, device, obeyed, news, told, onItsWay, before>>
      /\ at[r] = "sent" /\ at' = [at EXCEPT ![r] = "done"]
      /\ attr' = TakenBack(r) /\ shown' = Display(TakenBack(r), cached)
      /\ alone' = alone \ {r}
      /\ undone' = (undone \/ ~Harmless(r))
  BY DEF GiveUp, deviceVars
<1>2. undone' \in BOOLEAN /\ (undone' = FALSE => undone = FALSE /\ Harmless(r))
  <2>1. undone \in BOOLEAN
    BY DEF OptimisticTypeOK
  <2>2. Harmless(r) \in BOOLEAN
    BY DEF Harmless
  <2> QED  BY <1>1, <2>1, <2>2
<1>3. /\ TakenBack(r) \in OnOff \cup {"none"}
      /\ TakenBack(r) = "none" => style = "overlay"
  BY <1>1 DEF TakenBack, Opposite, OnOff, OptimisticTypeOK, SwitchCallsOK
<1>4. OptimisticTypeOK'
  BY <1>1, <1>2, <1>3 DEF OptimisticTypeOK, Display
<1>5. SwitchCallsOK'
  BY <1>1 DEF SwitchCallsOK, OptimisticTypeOK
<1>6. (LastReport = device)'
  BY <1>1 DEF LastReport
<1>7. GuessOK'
  <2> SUFFICES ASSUME undone' = FALSE, news' = <<>>
               PROVE  /\ Explained(shown)'
                      /\ (attr = "none" \/ Explained(attr))'
                      /\ \A q \in alone' : (at[q] = "sent")' /\ style = "group"
                           => before[q] = cached
    BY <1>1, <1>2 DEF GuessOK
  <2>1. undone = FALSE /\ news = <<>> /\ Harmless(r)
    BY <1>1, <1>2
  <2>2. \/ TakenBack(r) = "none"
        \/ style = "group" /\ r \in alone /\ TakenBack(r) = before[r]
    BY <2>1 DEF Harmless, TakenBack
  <2>3. TakenBack(r) = "none" \/ TakenBack(r) = cached
    BY <1>1, <2>1, <2>2 DEF GuessOK
  <2>4. Explained(shown)' /\ (attr = "none" \/ Explained(attr))'
    BY <1>1, <2>3 DEF Explained, Display
  <2>5. \A q \in alone' : (at[q] = "sent")' => q \in alone /\ at[q] = "sent"
    BY <1>1 DEF OptimisticTypeOK
  <2> QED  BY <2>1, <2>4, <2>5 DEF GuessOK
<1> QED  BY <1>4, <1>5, <1>6, <1>7

LEMMA NewsKeeps ==
  ASSUME GuessInv, HandleNews \/ HandleOther
  PROVE  GuessInv'
<1> USE DEF GuessInv
<1>1. CASE HandleNews
  <2>1. /\ Head(news) \in OnOff /\ Tail(news) \in Seq(OnOff)
        /\ news[Len(news)] = IF Tail(news) = <<>> THEN Head(news)
                             ELSE Tail(news)[Len(Tail(news))]
    BY <1>1, LastOfTail DEF HandleNews, OptimisticTypeOK
  <2>2. /\ UNCHANGED <<style, wants, at, before, device, onItsWay, obeyed, told>>
        /\ news # <<>> /\ news' = Tail(news) /\ cached' = Head(news)
        /\ attr' = Synced(cached') /\ shown' = Display(attr', cached')
        /\ undone' = FALSE /\ alone' = {}
    BY <1>1 DEF HandleNews
  <2>3. OptimisticTypeOK'
    BY <2>1, <2>2 DEF OptimisticTypeOK, Synced, Display, OnOff
  <2>4. SwitchCallsOK'
    BY <2>2 DEF SwitchCallsOK
  <2>5. (LastReport = device)'
    BY <2>1, <2>2 DEF LastReport
  <2>6. GuessOK'
    BY <2>2 DEF GuessOK, Explained, Synced, Display
  <2> QED  BY <2>3, <2>4, <2>5, <2>6
<1>2. CASE HandleOther
  <2>1. /\ UNCHANGED <<style, wants, at, before, cached, device, onItsWay, obeyed, news,
                       told, undone>>
        /\ attr' = cached /\ alone' = {} /\ shown' \in {cached, shown} 
    BY <1>2 DEF HandleOther, deviceVars
  <2>2. OptimisticTypeOK'
    BY <2>1 DEF OptimisticTypeOK, OnOff
  <2>3. SwitchCallsOK'
    BY <2>1 DEF SwitchCallsOK
  <2>4. (LastReport = device)'
    BY <2>1 DEF LastReport
  <2>5. GuessOK'
    BY <2>1 DEF GuessOK, Explained
  <2> QED  BY <2>2, <2>3, <2>4, <2>5
<1> QED  BY <1>1, <1>2

LEMMA DeviceKeeps ==
  ASSUME GuessInv,
         DeviceReports \/ \E r \in Request : DeviceObeys(r) \/ DeviceIgnores(r)
  PROVE  GuessInv'
<1> USE DEF GuessInv
<1>1. \A v \in OnOff : /\ Append(news, v) \in Seq(OnOff) /\ Append(news, v) # <<>>
                       /\ Append(news, v)[Len(Append(news, v))] = v
  BY AppendProperties, EmptySeq DEF OptimisticTypeOK
<1>2. CASE DeviceReports
  <2>1. /\ UNCHANGED <<style, wants, at, before, cached, attr, shown, onItsWay, obeyed,
                       undone, alone>>
        /\ device' \in OnOff /\ news' = Append(news, device')
        /\ told < MaxNews /\ told' = told + 1
    BY <1>2 DEF DeviceReports, shownState
  <2>2. OptimisticTypeOK'
    <3>1. told' \in 0 .. MaxNews /\ news' \in Seq(OnOff)
      BY <1>1, <2>1, MaxNewsAssumption DEF OptimisticTypeOK
    <3> QED  BY <2>1, <3>1 DEF OptimisticTypeOK
  <2> QED  BY <1>1, <2>1, <2>2 DEF SwitchCallsOK, LastReport, GuessOK
<1>3. ASSUME NEW r \in Request, DeviceIgnores(r) PROVE GuessInv'
  <2>1. /\ UNCHANGED <<style, wants, at, before, cached, attr, shown, obeyed, news, told,
                       device, undone, alone>>
        /\ onItsWay' = onItsWay \ {r}
    BY <1>3 DEF DeviceIgnores, shownState
  <2>2. OptimisticTypeOK'
    BY <2>1 DEF OptimisticTypeOK
  <2> QED  BY <2>1, <2>2 DEF SwitchCallsOK, LastReport, GuessOK, Explained
<1>4. ASSUME NEW r \in Request, DeviceObeys(r) PROVE GuessInv'
  <2>1. /\ UNCHANGED <<style, wants, at, before, cached, attr, shown, told, undone, alone>>
        /\ r \in onItsWay /\ onItsWay' = onItsWay \ {r} /\ obeyed' = obeyed \cup {r}
        /\ device' = wants[r]
        /\ news' = IF device' = device THEN news ELSE Append(news, device')
    BY <1>4 DEF DeviceObeys, shownState
  <2>2. wants[r] \in OnOff
    BY DEF OptimisticTypeOK
  <2>3. OptimisticTypeOK'
    <3>1. news' \in Seq(OnOff)
      BY <1>1, <2>1, <2>2 DEF OptimisticTypeOK
    <3> QED  BY <2>1, <2>2, <3>1 DEF OptimisticTypeOK
  <2>4. SwitchCallsOK'
    BY <2>1 DEF SwitchCallsOK
  <2>5. (LastReport = device)'
    BY <1>1, <2>1, <2>2 DEF LastReport
  <2>6. GuessOK'
    <3>1. CASE device' = device
      <4>1. news = <<>> => cached = wants[r]
        BY <2>1, <3>1 DEF LastReport
      <4>2. ASSUME news = <<>>, NEW v, Explained(v) PROVE Explained(v)'
        BY <2>1, <4>1, <4>2 DEF Explained
      <4> QED  BY <2>1, <3>1, <4>2 DEF GuessOK
    <3>2. CASE device' # device
      BY <1>1, <2>1, <2>2, <3>2 DEF GuessOK
    <3> QED  BY <3>1, <3>2
  <2> QED  BY <2>3, <2>4, <2>5, <2>6
<1> QED  BY <1>2, <1>3, <1>4

LEMMA GuessInvAlways == OptimisticSpec => []GuessInv
<1>1. OptimisticInit => GuessInv
  <2> SUFFICES ASSUME OptimisticInit PROVE GuessInv
    OBVIOUS
  <2>1. OptimisticTypeOK
    <3>1. /\ attr \in OnOff \cup {"none"} /\ (attr = "none" => style = "overlay")
          /\ cached \in OnOff /\ shown \in OnOff /\ device \in OnOff
      BY DEF OptimisticInit, Synced, OnOff
    <3>2. /\ style \in {"switch", "valve", "group", "overlay"}
          /\ wants \in [Request -> OnOff]
          /\ at \in [Request -> {"new", "sent", "done"}]
          /\ before \in [Request -> OnOff \cup {"none"}]
      BY DEF OptimisticInit
    <3>3. /\ onItsWay \subseteq Request /\ obeyed \subseteq Request
          /\ told \in 0 .. MaxNews /\ alone \subseteq Request
      BY MaxNewsAssumption DEF OptimisticInit
    <3>4. news \in Seq(OnOff)
      BY DEF OptimisticInit
    <3>5. undone \in BOOLEAN
      BY DEF OptimisticInit
    <3> QED  BY <3>1, <3>2, <3>3, <3>4, <3>5 DEF OptimisticTypeOK
  <2> QED  BY <2>1 DEF OptimisticInit, GuessInv, SwitchCallsOK, LastReport, GuessOK, Explained, Synced
<1>2. GuessInv /\ [OptimisticNext]_optimisticVars => GuessInv'
  <2> SUFFICES ASSUME GuessInv, [OptimisticNext]_optimisticVars PROVE GuessInv'
    OBVIOUS
  <2>1. CASE UNCHANGED optimisticVars
    BY <2>1 DEF optimisticVars, shownState, deviceVars, GuessInv, OptimisticTypeOK, SwitchCallsOK,
                LastReport, GuessOK, Explained
  <2> QED
    BY <2>1, SwitchKeeps, CallEndsKeep, GiveUpKeeps, NewsKeeps, DeviceKeeps
    DEF OptimisticNext
<1> QED  BY <1>1, <1>2, PTL DEF OptimisticSpec

\* For any number of calls and reports, and however commands fail or overlap: a
\* switch, a switching or watering group, a lock, an alarm panel or a valve shows
\* its device once every call is over and every report is handled (the error paths
\* and _handle_coordinator_update of entity.py and its siblings), except, until the
\* next report, after a call that was cancelled or a failed one that restored what
\* the HCU did not report.
THEOREM Settles == OptimisticSpec => []SettlesOnDevice
<1>1. GuessInv => SettlesOnDevice
  BY DEF GuessInv, GuessOK, Explained, LastReport, SettlesOnDevice
<1> QED  BY <1>1, GuessInvAlways, PTL

\* A siren or a switched entity that shows a guess of its own ends up showing what
\* its device is, for any number of calls and reports, whatever the other entities
\* do meanwhile.
THEOREM ShownStates == EntitiesSpec => []ShownStatesSettle
BY SirenSettles, Settles, PTL DEF EntitiesSpec, ShownStatesSettle

-----------------------------------------------------------------------------
(* A heating group: what it shows *)

Groups == [mode : {"AUTOMATIC", "MANUAL"}, setPoint : {"min", "comfort", "high"},
           boost : BOOLEAN, party : BOOLEAN, profile : {"p1", "p2"},
           absence : {"none", "eco", "vacation"}]
Modes == {"auto", "heat", "cool", "off"}
Temps == {"min", "comfort", "high", "eco"}
Presets == {"eco", "boost", "away", "party", "p1", "p2"}
Rooms == [assumed : BOOLEAN, mode : Modes, target : Temps, preset : Presets \cup {"none"}]
Parties == {<<"preset", "party">>, <<"party", "high">>}
RoomCommands ==
  {"heatManual", "manual", "automatic", "leave", "setPoint", "toMin", "toComfort",
   "boost", "noBoost", "profile", "party"}

RoomTypes ==
  /\ asked \in [Visit -> Ask] /\ stage \in [Visit -> 0 .. 5]
  /\ note \in [Visit -> Temps \cup Presets \cup {"none", "reset"}]
  /\ wire \in [Visit -> RoomCommands \cup {"none", "obeyed"}]
  /\ room \in Rooms /\ hcu \in Groups /\ group \in Groups
  /\ posts \in Seq({"group", "home"} \X Groups)
  /\ heard \in BOOLEAN

\* The command of v on its way to the HCU is one of its steps.
Sends(v) ==
  \E i \in 1 .. Len(Steps(asked[v])) :
    wire[v] = Steps(asked[v])[i] /\ (Running(v) => i = stage[v])

RoomCallsOK ==
  /\ \A v \in Visit : wire[v] # "none" => stage[v] \in 1 .. 3 \cup {Over}
  /\ \A v \in Visit : wire[v] \in {"none", "obeyed"} \/ Sends(v)
  /\ \A v \in Visit : Running(v) => stage[v] <= Len(Steps(asked[v]))
  /\ \A v \in Visit : asked[v] \in Parties /\ Running(v) => note[v] \in Temps
  /\ room.preset # "none" => \E v \in Visit : stage[v] # New

\* Once the group was reported nothing is assumed, and the panel shows the cache.
HeardOK == heard => room.assumed = FALSE /\ panel = Plain(group)

ClimateInv == RoomTypes /\ RoomCallsOK /\ HeardOK

LEMMA AskCases ==
  ASSUME NEW ask \in Ask
  PROVE  \/ ask = <<"temperature", "min">> \/ ask = <<"temperature", "high">>
         \/ ask = <<"hvac", "off">> \/ ask = <<"hvac", "auto">>
         \/ ask = <<"hvac", "heat">> \/ ask = <<"hvac", "cool">>
         \/ ask = <<"preset", "boost">> \/ ask = <<"preset", "party">>
         \/ ask = <<"preset", "p2">> \/ ask = <<"party", "high">>
BY DEF Ask, Profile

LEMMA StepsOf ==
  ASSUME NEW ask \in Ask
  PROVE  Steps(ask) =
           CASE ask[1] = "temperature" -> <<"heatManual", "setPoint">>
             [] ask = <<"hvac", "off">> -> <<"manual", "toMin">>
             [] ask = <<"hvac", "auto">> -> <<"automatic">>
             [] ask = <<"preset", "boost">> -> <<"boost">>
             [] ask = <<"preset", "p2">> -> <<"noBoost", "leave", "profile">>
             [] ask \in {<<"preset", "party">>, <<"party", "high">>} -> <<"party">>
             [] OTHER -> <<"manual", "toComfort">>
<1>1. CASE ask \in {<<"temperature", "min">>, <<"temperature", "high">>}
  BY <1>1 DEF Steps, Profile
<1>2. CASE ask \in {<<"hvac", "off">>, <<"hvac", "auto">>}
  BY <1>2 DEF Steps, Profile
<1>3. CASE ask \in {<<"hvac", "heat">>, <<"hvac", "cool">>}
  BY <1>3 DEF Steps, Profile
<1>4. CASE ask \in {<<"preset", "boost">>, <<"preset", "party">>}
  BY <1>4 DEF Steps, Profile
<1>5. CASE ask \in {<<"preset", "p2">>, <<"party", "high">>}
  BY <1>5 DEF Steps, Profile
<1> QED  BY <1>1, <1>2, <1>3, <1>4, <1>5, AskCases

LEMMA StepTypes ==
  ASSUME NEW ask \in Ask
  PROVE  /\ Len(Steps(ask)) \in 1 .. 3
         /\ \A i \in 1 .. Len(Steps(ask)) : Steps(ask)[i] \in RoomCommands
BY StepsOf, AskCases DEF RoomCommands

LEMMA MinOfSteps ==
  ASSUME NEW S, S \subseteq 1 .. 3, S # {}
  PROVE  Min(S) \in S /\ \A i \in S : Min(S) <= i
<1>1. \E x \in S : \A y \in S : x <= y
  <2>1. CASE 1 \in S
    BY <2>1
  <2>2. CASE 1 \notin S /\ 2 \in S
    <3>1. \A y \in S : y \in 2 .. 3
      BY <2>2
    <3> QED  BY <2>2, <3>1
  <2>3. CASE 1 \notin S /\ 2 \notin S
    <3>1. \A y \in S : y = 3
      BY <2>3
    <3>2. PICK x \in S : TRUE
      OBVIOUS
    <3> QED  BY <3>1, <3>2
  <2> QED  BY <2>1, <2>2, <2>3
<1> QED  BY <1>1 DEF Min

LEMMA GroupShows ==
  ASSUME NEW g \in Groups
  PROVE  /\ ModeOf(g) \in Modes /\ TargetOf(g) \in Temps /\ PresetOf(g) \in Presets
         /\ Plain(g).preset = PresetOf(g)
<1>1. /\ g.mode \in {"AUTOMATIC", "MANUAL"} /\ g.setPoint \in {"min", "comfort", "high"}
      /\ g.profile \in {"p1", "p2"}
  BY DEF Groups
<1>2. ModeOf(g) \in Modes
  BY DEF ModeOf, ActiveMode, Modes
<1>3. TargetOf(g) \in Temps
  BY <1>1 DEF TargetOf, Temps
<1>4. PresetOf(g) \in Presets
  BY <1>1 DEF PresetOf, Presets
<1> QED  BY <1>2, <1>3, <1>4 DEF Plain

LEMMA SameSeason ==
  ASSUME season' = season
  PROVE  Plain(group)' = Plain(group')
BY DEF Plain, ModeOf, TargetOf, PresetOf, ActiveMode

LEMMA Attributes ==
  ASSUME NEW r \in Rooms, NEW g \in Groups
  PROVE  /\ Refreshed(r, g) \in Rooms /\ Refreshed(r, g).assumed = r.assumed
         /\ Refreshed(r, g).preset = r.preset
         /\ r.assumed = FALSE => Written(r, g) = Plain(g)
         /\ Written(r, g).preset \in Presets
         /\ Cleared(r) \in Rooms /\ Cleared(r).assumed = FALSE /\ Cleared(r).preset = "none"
<1>1. Refreshed(r, g) = r \/ Refreshed(r, g) = [r EXCEPT !.mode = ModeOf(g), !.target = TargetOf(g)]
  BY DEF Refreshed
<1>2. [r EXCEPT !.mode = ModeOf(g), !.target = TargetOf(g)] \in Rooms
  BY GroupShows DEF Rooms
<1>3. Refreshed(r, g) \in Rooms /\ Refreshed(r, g).assumed = r.assumed
      /\ Refreshed(r, g).preset = r.preset
  BY <1>1, <1>2 DEF Rooms
<1>4. r.assumed = FALSE => Written(r, g) = Plain(g)
  BY DEF Written
<1>5. Written(r, g).preset \in Presets
  BY GroupShows DEF Written, Rooms
<1>6. Cleared(r) \in Rooms /\ Cleared(r).assumed = FALSE /\ Cleared(r).preset = "none"
  BY DEF Cleared, Rooms
<1> QED  BY <1>3, <1>4, <1>5, <1>6

LEMMA AssumedTypes ==
  ASSUME RoomTypes, NEW ask \in Ask
  PROVE  Assumed(ask) \in Rooms
<1> DEFINE r == [room EXCEPT !.assumed = TRUE]
<1>1. r \in Rooms /\ Assumed(ask) =
        CASE ask = <<"temperature", "min">> -> [r EXCEPT !.target = "min", !.mode = "off"]
          [] ask = <<"temperature", "high">> ->
               [r EXCEPT !.target = "high",
                         !.mode = IF @ \in {"auto", "heat"} THEN @ ELSE "heat"]
          [] ask = <<"hvac", "off">> -> [r EXCEPT !.mode = "off", !.target = "min"]
          [] ask = <<"hvac", "auto">> -> [r EXCEPT !.mode = "auto"]
          [] ask[1] = "hvac" /\ ask[2] \in {"heat", "cool"} ->
               [r EXCEPT !.mode = ask[2],
                         !.target = IF group.setPoint = "min" THEN "comfort" ELSE @]
          [] ask = <<"preset", "party">> -> [r EXCEPT !.preset = "party", !.target = "comfort"]
          [] ask = <<"preset", "boost">> \/ (ask[1] = "preset" /\ ask[2] \in Profile) ->
               [r EXCEPT !.preset = ask[2]]
          [] ask[1] = "party" -> [r EXCEPT !.preset = "party", !.target = ask[2]]
  BY DEF RoomTypes, Rooms, Assumed
<1> HIDE DEF r
<1>2. CASE ask = <<"temperature", "min">>
  <2>1. Assumed(ask) = [r EXCEPT !.target = "min", !.mode = "off"]
    BY <1>1, <1>2
  <2> QED  BY <1>1, <2>1 DEF Rooms, Modes, Temps
<1>3. CASE ask = <<"temperature", "high">>
  <2>1. Assumed(ask) = [r EXCEPT !.target = "high",
                                 !.mode = IF @ \in {"auto", "heat"} THEN @ ELSE "heat"]
    BY <1>1, <1>3
  <2> QED  BY <1>1, <2>1 DEF Rooms, Modes, Temps
<1>4. CASE ask = <<"hvac", "off">>
  <2>1. Assumed(ask) = [r EXCEPT !.mode = "off", !.target = "min"]
    BY <1>1, <1>4
  <2> QED  BY <1>1, <2>1 DEF Rooms, Modes, Temps
<1>5. CASE ask = <<"hvac", "auto">>
  <2>1. Assumed(ask) = [r EXCEPT !.mode = "auto"]
    BY <1>1, <1>5
  <2> QED  BY <1>1, <2>1 DEF Rooms, Modes, Temps
<1>6. CASE ask \in {<<"hvac", "heat">>, <<"hvac", "cool">>}
  <2>1. Assumed(ask) = [r EXCEPT !.mode = ask[2],
                                 !.target = IF group.setPoint = "min" THEN "comfort" ELSE @]
    BY <1>1, <1>6
  <2>2. ask[2] \in Modes
    BY <1>6 DEF Modes
  <2> QED  BY <1>1, <2>1, <2>2 DEF Rooms, Temps
<1>7. CASE ask = <<"preset", "party">>
  <2>1. Assumed(ask) = [r EXCEPT !.preset = "party", !.target = "comfort"]
    <3>1. /\ ask[1] = "preset" /\ ask[2] = "party"
          /\ ask \notin {<<"temperature", "min">>, <<"temperature", "high">>,
                         <<"hvac", "off">>, <<"hvac", "auto">>}
      BY <1>7
    <3> QED  BY <1>1, <1>7, <3>1 DEF Profile
  <2> QED  BY <1>1, <2>1 DEF Rooms, Presets, Temps
<1>8. CASE ask \in {<<"preset", "boost">>, <<"preset", "p2">>}
  <2>1. Assumed(ask) = [r EXCEPT !.preset = ask[2]]
    BY <1>1, <1>8 DEF Profile
  <2>2. ask[2] \in Presets
    BY <1>8 DEF Presets
  <2> QED  BY <1>1, <2>1, <2>2 DEF Rooms
<1>9. CASE ask = <<"party", "high">>
  <2>1. Assumed(ask) = [r EXCEPT !.preset = "party", !.target = ask[2]]
    BY <1>1, <1>9
  <2> QED  BY <1>1, <1>9, <2>1 DEF Rooms, Presets, Temps
<1> QED  BY <1>2, <1>3, <1>4, <1>5, <1>6, <1>7, <1>8, <1>9, AskCases

LEMMA NoteTypes ==
  ASSUME RoomTypes, NEW ask \in Ask
  PROVE  /\ NoteOf(ask) \in Temps \cup Presets \cup {"none", "reset"}
         /\ ask \in Parties => NoteOf(ask) \in Temps
<1>1. Written(room, group).preset \in Presets /\ room.target \in Temps
  BY Attributes DEF RoomTypes, Rooms
<1>2. CASE ask \in Parties
  BY <1>1, <1>2 DEF NoteOf, Parties
<1>3. CASE ask \notin Parties
  BY <1>1, <1>3 DEF NoteOf, Parties
<1> QED  BY <1>2, <1>3

LEMMA EffectTypes ==
  ASSUME NEW g \in Groups, NEW ask \in Ask, NEW i \in 1 .. Len(Steps(ask)),
         NEW command, command = Steps(ask)[i]
  PROVE  Effect(g, command, ask) \in Groups
<1>1. /\ command \in RoomCommands
      /\ command = "setPoint" => ask[2] \in {"min", "high"}
      /\ command = "profile" => ask[2] = "p2"
      /\ command = "party" /\ ask[1] = "party" => ask[2] = "high"
  BY StepsOf, AskCases DEF RoomCommands
<1>2. CASE command \in {"heatManual", "manual"}
  <2>1. Effect(g, command, ask) = [g EXCEPT !.mode = "MANUAL"]
    BY <1>2 DEF Effect
  <2> QED  BY <2>1 DEF Groups
<1>3. CASE command \in {"automatic", "leave"}
  <2>1. Effect(g, command, ask) =
          [g EXCEPT !.mode = "AUTOMATIC", !.party = FALSE, !.setPoint = "comfort"]
    BY <1>3 DEF Effect
  <2> QED  BY <2>1 DEF Groups
<1>4. CASE command \in {"setPoint", "toMin", "toComfort"}
  <2>1. PICK t \in {"min", "comfort", "high"} :
          Effect(g, command, ask) = [g EXCEPT !.setPoint = t]
    BY <1>1, <1>4 DEF Effect
  <2> QED  BY <2>1 DEF Groups
<1>5. CASE command \in {"boost", "noBoost"}
  <2>1. PICK b \in BOOLEAN : Effect(g, command, ask) = [g EXCEPT !.boost = b]
    BY <1>5 DEF Effect
  <2> QED  BY <2>1 DEF Groups
<1>6. CASE command = "profile"
  <2>1. Effect(g, command, ask) = [g EXCEPT !.profile = ask[2]]
    BY <1>6 DEF Effect
  <2> QED  BY <1>1, <1>6, <2>1 DEF Groups
<1>7. CASE command = "party"
  <2>1. PICK t \in {"comfort", "high"} :
          Effect(g, command, ask) = [g EXCEPT !.party = TRUE, !.setPoint = t]
    BY <1>1, <1>7 DEF Effect
  <2> QED  BY <2>1 DEF Groups
<1> QED  BY <1>1, <1>2, <1>3, <1>4, <1>5, <1>6, <1>7 DEF RoomCommands

\* The attributes once a call that has r is done.
Ends(v, r) == IF asked[v][1] = "preset" THEN Cleared(r) ELSE r

\* A call is done after its step i, with r ...
Finishes(v, i, n, r) ==
  /\ \A j \in i + 1 .. Len(Steps(asked[v])) : ~Needed(Steps(asked[v])[j], n, r, group)
  /\ stage' = [stage EXCEPT ![v] = Done] /\ wire' = [wire EXCEPT ![v] = "none"]
  /\ room' = Ends(v, r)
  /\ panel' = Written(room', group) \/ (i > 0 /\ panel' = panel)

\* ... or goes on with its step k.
GoesOn(v, i, n, r, k) ==
  /\ \A j \in i + 1 .. k - 1 : ~Needed(Steps(asked[v])[j], n, r, group)
  /\ stage' = [stage EXCEPT ![v] = k]
  /\ wire' = [wire EXCEPT ![v] = Steps(asked[v])[k]]
  /\ room' = r
  /\ panel' = Written(room', group) \/ (i > 0 /\ panel' = panel)

LEMMA Proceeds ==
  ASSUME RoomTypes, NEW v \in Visit, NEW i \in 0 .. 3, NEW n, NEW r \in Rooms,
         Proceed(v, i, n, r)
  PROVE  Finishes(v, i, n, r) \/ \E k \in i + 1 .. Len(Steps(asked[v])) : GoesOn(v, i, n, r, k)
<1> DEFINE steps == Steps(asked[v])
           rest == {j \in i + 1 .. Len(steps) : Needed(steps[j], n, r, group)}
<1>1. asked[v] \in Ask
  BY DEF RoomTypes
<1>2. Len(steps) \in 1 .. 3
  BY <1>1, StepTypes
<1>0. IF rest = {}
        THEN /\ stage' = [stage EXCEPT ![v] = Done]
             /\ wire' = [wire EXCEPT ![v] = "none"]
             /\ room' = Ends(v, r)
             /\ panel' = IF i > 0 /\ Ends(v, r) = r THEN panel ELSE Written(Ends(v, r), group)
        ELSE /\ stage' = [stage EXCEPT ![v] = Min(rest)]
             /\ wire' = [wire EXCEPT ![v] = steps[Min(rest)]]
             /\ room' = r
             /\ panel' = IF i > 0 THEN panel ELSE Written(r, group)
  BY Zenon DEF Proceed, Ends
<1>3. CASE rest = {}
  <2>1. /\ stage' = [stage EXCEPT ![v] = Done] /\ wire' = [wire EXCEPT ![v] = "none"]
        /\ room' = Ends(v, r)
        /\ panel' = Written(room', group) \/ (i > 0 /\ panel' = panel)
    <3> HIDE DEF rest
    <3> QED  BY <1>0, <1>3
  <2>2. \A j \in i + 1 .. Len(steps) : ~Needed(steps[j], n, r, group)
    BY <1>3
  <2> QED  BY <2>1, <2>2 DEF Finishes
<1>4. CASE rest # {}
  <2>1. rest \subseteq 1 .. 3
    BY <1>2
  <2>2. Min(rest) \in rest /\ \A j \in rest : Min(rest) <= j
    BY <1>4, <2>1, MinOfSteps
  <2>3. /\ stage' = [stage EXCEPT ![v] = Min(rest)]
        /\ wire' = [wire EXCEPT ![v] = steps[Min(rest)]]
        /\ room' = r
        /\ panel' = Written(room', group) \/ (i > 0 /\ panel' = panel)
    <3> HIDE DEF rest, steps
    <3> QED  BY <1>0, <1>4
  <2>4. PICK k : k = Min(rest)
    OBVIOUS
  <2>5. k \in i + 1 .. Len(steps) /\ Needed(steps[k], n, r, group)
    BY <2>2, <2>4
  <2>6. ASSUME NEW j \in i + 1 .. k - 1 PROVE ~Needed(steps[j], n, r, group)
    <3>1. j \in i + 1 .. Len(steps) /\ j < k
      BY <1>2, <2>5, <2>6
    <3> QED  BY <1>2, <2>2, <2>4, <2>5, <3>1
  <2>7. GoesOn(v, i, n, r, k)
    BY <2>3, <2>4, <2>6 DEF GoesOn
  <2> QED  BY <2>5, <2>7
<1> QED  BY <1>3, <1>4

LEMMA ProceedTypes ==
  ASSUME RoomTypes, RoomCallsOK, NEW v \in Visit, NEW i \in 0 .. 3, NEW n, NEW r \in Rooms,
         Proceed(v, i, n, r), UNCHANGED <<asked, hcu, group, posts>>,
         note' \in [Visit -> Temps \cup Presets \cup {"none", "reset"}], heard' \in BOOLEAN,
         \A w \in Visit : w # v => note'[w] = note[w],
         asked[v] \in Parties => note'[v] \in Temps
  PROVE  RoomTypes' /\ RoomCallsOK'
<1>1. asked[v] \in Ask /\ Len(Steps(asked[v])) \in 1 .. 3
  BY StepTypes DEF RoomTypes
<1>2. PICK s, c : /\ stage' = [stage EXCEPT ![v] = s] /\ wire' = [wire EXCEPT ![v] = c]
                  /\ room' \in {r, Cleared(r)}
                  /\ \/ s = Done /\ c = "none"
                     \/ /\ s \in 1 .. Len(Steps(asked[v])) /\ c = Steps(asked[v])[s]
                        /\ c \in RoomCommands
  <2>1. \A k \in i + 1 .. Len(Steps(asked[v])) : /\ k \in 1 .. Len(Steps(asked[v]))
                                                 /\ Steps(asked[v])[k] \in RoomCommands
    BY <1>1, StepTypes
  <2>2. CASE Finishes(v, i, n, r)
    BY <2>2 DEF Finishes, Ends
  <2>3. ASSUME NEW k \in i + 1 .. Len(Steps(asked[v])), GoesOn(v, i, n, r, k)
        PROVE  \E s, c : /\ stage' = [stage EXCEPT ![v] = s] /\ wire' = [wire EXCEPT ![v] = c]
                         /\ room' \in {r, Cleared(r)}
                         /\ s \in 1 .. Len(Steps(asked[v])) /\ c = Steps(asked[v])[s]
                         /\ c \in RoomCommands
    BY <2>1, <2>3 DEF GoesOn
  <2> QED  BY <2>2, <2>3, Proceeds
<1>3. s \in 1 .. 4 /\ s # New /\ (s \in 1 .. 3 <=> s # Done)
  BY <1>1, <1>2 DEF Done, New
<1>4. RoomTypes'
  <2>1. room' \in Rooms
    BY <1>2, Attributes DEF RoomTypes
  <2>2. stage' \in [Visit -> 0 .. 5] /\ wire' \in [Visit -> RoomCommands \cup {"none", "obeyed"}]
    BY <1>2, <1>3 DEF RoomTypes
  <2> QED  BY <2>1, <2>2 DEF RoomTypes
<1>5. /\ stage'[v] = s /\ wire'[v] = c
      /\ \A w \in Visit : w # v => /\ stage'[w] = stage[w] /\ wire'[w] = wire[w]
                                   /\ note'[w] = note[w]
  BY <1>2 DEF RoomTypes
<1>6. \A w \in Visit : w # v => Sends(w)' = Sends(w) /\ Running(w)' = Running(w)
  BY <1>5 DEF Sends, Running
<1>7. (wire[v] \in {"none", "obeyed"} \/ Sends(v))'
  BY <1>2, <1>5 DEF Sends
<1>8. (Running(v) => stage[v] <= Len(Steps(asked[v])))'
  BY <1>1, <1>2, <1>3, <1>5 DEF Running
<1>9. RoomCallsOK'
  BY <1>1, <1>2, <1>3, <1>5, <1>6, <1>7, <1>8 DEF RoomCallsOK
<1> QED  BY <1>4, <1>9

LEMMA ReportsKeep ==
  ASSUME ClimateInv, GroupReported \/ HomeReported \/ OtherReported
  PROVE  ClimateInv'
<1> USE DEF ClimateInv
<1>1. UNCHANGED <<season, asked, stage, note, wire, hcu>>
  BY DEF GroupReported, HomeReported, OtherReported, hcuSide
<1>2. /\ group' \in Groups /\ posts' \in Seq({"group", "home"} \X Groups)
      /\ room' \in {Refreshed(room, group'), [Refreshed(room, group') EXCEPT !.assumed = FALSE]}
      /\ \/ heard' = TRUE /\ room' = [Refreshed(room, group') EXCEPT !.assumed = FALSE]
            /\ panel' = Written(room', group')
         \/ /\ UNCHANGED heard /\ room' = Refreshed(room, group')
            /\ panel' = Written(room', group') \/ UNCHANGED <<group, panel>>
  <2>1. CASE OtherReported
    BY <2>1 DEF OtherReported, hcuSide, RoomTypes
  <2>2. CASE GroupReported \/ HomeReported
    <3> DEFINE Post == {"group", "home"} \X Groups
    <3>1. posts \in Seq(Post) /\ posts # <<>> /\ posts' = Tail(posts)
      BY <2>2 DEF GroupReported, HomeReported, RoomTypes
    <3> HIDE DEF Post
    <3>2. Head(posts) \in Post /\ posts' \in Seq(Post)
      BY <3>1, HeadTailProperties
    <3>3. group \in Groups /\ Head(posts)[2] \in Groups
      BY <3>2 DEF Post, RoomTypes
    <3>4. group' \in Groups
      BY <2>2, <3>3 DEF GroupReported, HomeReported, Groups
    <3> QED  BY <2>2, <3>2, <3>4 DEF GroupReported, HomeReported, Post
  <2> QED  BY <2>1, <2>2
<1>3. room \in Rooms
  BY DEF RoomTypes
<1>4. /\ room' \in Rooms /\ room'.preset = room.preset
      /\ heard' = TRUE => room'.assumed = FALSE
  <2> DEFINE r == Refreshed(room, group')
  <2>1. r \in Rooms /\ r.assumed = room.assumed /\ r.preset = room.preset
    BY <1>2, <1>3, Attributes
  <2> HIDE DEF r
  <2>2. CASE room' = [r EXCEPT !.assumed = FALSE]
    BY <2>1, <2>2 DEF Rooms
  <2>3. CASE room' = r /\ heard' = heard
    BY <2>1, <2>3 DEF HeardOK
  <2> QED  BY <1>2, <2>2, <2>3 DEF r
<1>5. RoomTypes'
  BY <1>1, <1>2, <1>4 DEF RoomTypes
<1>6. RoomCallsOK'
  BY <1>1, <1>4 DEF RoomCallsOK, Sends, Running
<1>7. HeardOK'
  <2>1. Plain(group)' = Plain(group')
    BY <1>1, SameSeason
  <2>2. heard' = TRUE => Written(room', group') = Plain(group')
    BY <1>2, <1>4, Attributes
  <2> QED  BY <1>2, <1>4, <2>1, <2>2 DEF HeardOK
<1> QED  BY <1>5, <1>6, <1>7

LEMMA BeginKeeps ==
  ASSUME ClimateInv, NEW v \in Visit, BeginCall(v)
  PROVE  ClimateInv'
<1> USE DEF ClimateInv
<1>1. asked[v] \in Ask
  BY DEF RoomTypes
<1>2. /\ Proceed(v, 0, note'[v], Assumed(asked[v]))
      /\ note' = [note EXCEPT ![v] = NoteOf(asked[v])] /\ heard' = FALSE
      /\ UNCHANGED <<asked, hcu, group, posts>>
  BY DEF BeginCall, hcuSide
<1>3. /\ note' \in [Visit -> Temps \cup Presets \cup {"none", "reset"}]
      /\ \A w \in Visit : w # v => note'[w] = note[w]
      /\ asked[v] \in Parties => note'[v] \in Temps
  BY <1>1, <1>2, NoteTypes DEF RoomTypes
<1>4. RoomTypes' /\ RoomCallsOK'
  <2>1. Assumed(asked[v]) \in Rooms
    BY <1>1, AssumedTypes
  <2>2. heard' \in BOOLEAN
    BY <1>2
  <2> DEFINE i == 0
  <2>3. i \in 0 .. 3
    OBVIOUS
  <2>4. Proceed(v, i, note'[v], Assumed(asked[v]))
    BY <1>2
  <2> HIDE DEF i
  <2> QED  BY <1>2, <1>3, <2>1, <2>2, <2>3, <2>4, ProceedTypes
<1> QED  BY <1>2, <1>4 DEF HeardOK

LEMMA ContinueKeeps ==
  ASSUME ClimateInv, NEW v \in Visit, Continue(v)
  PROVE  ClimateInv'
<1> USE DEF ClimateInv
<1>1. /\ Proceed(v, stage[v], note[v], room) /\ stage[v] \in 1 .. 3 /\ Running(v)
      /\ UNCHANGED <<season, asked, note, heard, hcu, group, posts>>
  BY DEF Continue, Running, hcuSide
<1>2. room \in Rooms /\ group \in Groups
  BY DEF RoomTypes
<1>3. RoomTypes' /\ RoomCallsOK'
  <2>1. asked[v] \in Parties => note'[v] \in Temps
    BY <1>1 DEF RoomCallsOK
  <2> QED  BY <1>1, <1>2, <2>1, ProceedTypes DEF RoomTypes
<1>4. HeardOK'
  <2> SUFFICES ASSUME heard' = TRUE
               PROVE  room'.assumed = FALSE /\ panel' = Plain(group)'
    BY <1>3 DEF HeardOK, RoomTypes
  <2>1. room.assumed = FALSE /\ panel = Plain(group)
    BY <1>1 DEF HeardOK
  <2>2. room' \in {room, Cleared(room)} /\ (panel' = Written(room', group) \/ panel' = panel)
    BY <1>1, <1>2, Proceeds DEF Ends, Finishes, GoesOn
  <2>3. room' \in Rooms /\ room'.assumed = FALSE
    BY <1>2, <2>1, <2>2, Attributes
  <2>4. Plain(group)' = Plain(group)
    BY <1>1, SameSeason
  <2> QED  BY <1>2, <2>1, <2>2, <2>3, <2>4, Attributes
<1> QED  BY <1>3, <1>4

\* A call that is over keeps what the HCU may still carry out.
LEMMA OverKeeps ==
  ASSUME ClimateInv, NEW v \in Visit, GiveUpCall(v) \/ CancelCall(v)
  PROVE  ClimateInv'
<1> USE DEF ClimateInv
<1>1. /\ Running(v) /\ stage' = [stage EXCEPT ![v] = Over]
      /\ note' = [note EXCEPT ![v] = "none"]
      /\ wire' = [wire EXCEPT ![v] = IF @ = "obeyed" THEN "none" ELSE @]
      /\ UNCHANGED <<season, asked, group, hcu, posts, heard>>
  BY DEF GiveUpCall, CancelCall, hcuSide
<1>2. room \in Rooms /\ group \in Groups /\ note[v] \in Temps \cup Presets \cup {"none", "reset"}
  BY DEF RoomTypes
<1>3. /\ room' \in Rooms
      /\ room'.assumed = FALSE \/ room' = room
      /\ (room' = room /\ panel' = panel) \/ panel' = Written(room', group)
  <2>1. CASE CancelCall(v)
    BY <1>2, <2>1 DEF CancelCall
  <2>2. CASE GiveUpCall(v) /\ asked[v] \in Parties
    <3>1. note[v] \in Temps
      BY <1>1, <2>2 DEF RoomCallsOK
    <3>2. /\ room' = [Cleared(room) EXCEPT !.target = note[v]]
          /\ (panel' = panel /\ room' = room) \/ panel' = Written(room', group)
      <4>1. asked[v][1] = "party" \/ asked[v] = <<"preset", "party">>
        BY <2>2 DEF Parties
      <4> QED  BY <2>2, <4>1 DEF GiveUpCall
    <3>3. Cleared(room) \in Rooms /\ Cleared(room).assumed = FALSE
      BY <1>2, Attributes
    <3> QED  BY <3>1, <3>2, <3>3 DEF Rooms
  <2>3. CASE GiveUpCall(v) /\ asked[v] \notin Parties
    <3>1. /\ room' \in {room, Cleared(room)}
          /\ (panel' = panel /\ room' = room) \/ panel' = Written(room', group)
      <4>1. asked[v] \in Ask
        BY DEF RoomTypes
      <4>2. ~(asked[v][1] = "party" \/ asked[v] = <<"preset", "party">>)
        BY <2>3, <4>1, AskCases DEF Parties
      <4> QED  BY <2>3, <4>2 DEF GiveUpCall
    <3> QED  BY <1>2, <3>1, Attributes
  <2> QED  BY <2>1, <2>2, <2>3
<1>4. RoomTypes'
  BY <1>1, <1>3 DEF RoomTypes, Over
<1>5. RoomCallsOK'
  <2>1. \A w \in Visit : w # v => /\ stage'[w] = stage[w] /\ wire'[w] = wire[w]
                                  /\ note'[w] = note[w]
    BY <1>1 DEF RoomTypes
  <2>2. /\ stage'[v] = Over /\ wire'[v] = IF wire[v] = "obeyed" THEN "none" ELSE wire[v]
    BY <1>1 DEF RoomTypes
  <2>3. ~Running(v)'
    BY <2>2 DEF Running, Over
  <2>4. \A w \in Visit : w # v => Sends(w)' = Sends(w) /\ Running(w)' = Running(w)
    BY <1>1, <2>1 DEF Sends, Running
  <2>5. (wire[v] \in {"none", "obeyed"} \/ Sends(v))'
    BY <1>1, <2>2, <2>3 DEF RoomCallsOK, Sends
  <2> QED  BY <1>1, <2>1, <2>2, <2>3, <2>4, <2>5 DEF RoomCallsOK, New, Over
<1>6. HeardOK'
  <2>1. heard = TRUE => room.assumed = FALSE /\ panel = Plain(group)
    BY DEF HeardOK
  <2>2. Plain(group)' = Plain(group)
    BY <1>1, SameSeason
  <2>3. room'.assumed = FALSE => Written(room', group) = Plain(group)
    BY <1>2, <1>3, Attributes
  <2> QED  BY <1>1, <1>3, <2>1, <2>2, <2>3, <1>4 DEF HeardOK, RoomTypes
<1> QED  BY <1>4, <1>5, <1>6

LEMMA HcuKeeps ==
  ASSUME ClimateInv, HcuChanges \/ \E v \in Visit : HcuObeys(v)
  PROVE  ClimateInv'
<1> USE DEF ClimateInv
<1>1. UNCHANGED <<season, asked, stage, note, room, group, panel, heard>>
  <2>1. CASE HcuChanges
    BY <2>1 DEF HcuChanges
  <2>2. ASSUME NEW v \in Visit, HcuObeys(v)
        PROVE  UNCHANGED <<season, asked, stage, note, room, group, panel, heard>>
    BY <2>2 DEF HcuObeys
  <2> QED  BY <2>1, <2>2
<1> DEFINE Post == {"group", "home"} \X Groups
<1>2. posts \in Seq(Post) /\ \A k \in {"group", "home"}, g \in Groups : <<k, g>> \in Post
  BY DEF RoomTypes
<1> HIDE DEF Post
<1>3. HeardOK'
  BY <1>1, SameSeason DEF HeardOK
<1>4. CASE HcuChanges
  <2>1. wire' = wire
    BY <1>4 DEF HcuChanges
  <2>2. \E k \in {"group", "home"} : hcu' \in Groups /\ posts' = Append(posts, <<k, hcu'>>)
    <3>1. hcu \in Groups
      BY DEF RoomTypes
    <3>2. CASE \E mode \in {"AUTOMATIC", "MANUAL"} :
                 /\ hcu' = [hcu EXCEPT !.mode = mode, !.setPoint = "high"]
                 /\ posts' = Append(posts, <<"group", hcu'>>)
      <4>1. PICK mode \in {"AUTOMATIC", "MANUAL"} :
                 /\ hcu' = [hcu EXCEPT !.mode = mode, !.setPoint = "high"]
                 /\ posts' = Append(posts, <<"group", hcu'>>)
        BY <3>2
      <4>2. hcu' \in Groups
        BY <3>1, <4>1 DEF Groups
      <4> QED  BY <4>1, <4>2
    <3>3. CASE \E absence \in {"eco", "vacation"} :
                 /\ hcu' = [hcu EXCEPT !.absence = absence]
                 /\ posts' = Append(posts, <<"home", hcu'>>)
      <4>1. PICK absence \in {"eco", "vacation"} :
                 /\ hcu' = [hcu EXCEPT !.absence = absence]
                 /\ posts' = Append(posts, <<"home", hcu'>>)
        BY <3>3
      <4>2. hcu' \in Groups
        BY <3>1, <4>1 DEF Groups
      <4> QED  BY <4>1, <4>2
    <3> QED  BY <1>4, <3>2, <3>3 DEF HcuChanges
  <2>3. posts' \in Seq(Post)
    BY <1>2, <2>2, AppendProperties
  <2>4. RoomTypes'
    BY <1>1, <2>1, <2>2, <2>3 DEF RoomTypes, Post
  <2> QED  BY <1>1, <1>3, <2>1, <2>4 DEF RoomCallsOK, Sends, Running
<1>5. ASSUME NEW v \in Visit, HcuObeys(v) PROVE ClimateInv'
  <2>1. /\ wire[v] \notin {"none", "obeyed"}
        /\ wire' = [wire EXCEPT ![v] = IF Running(v) THEN "obeyed" ELSE "none"]
        /\ hcu' = Effect(hcu, wire[v], asked[v])
        /\ posts' = IF hcu' = hcu THEN posts ELSE Append(posts, <<"group", hcu'>>)
    BY <1>5 DEF HcuObeys
  <2>2. hcu' \in Groups
    <3>1. PICK i \in 1 .. Len(Steps(asked[v])) : wire[v] = Steps(asked[v])[i]
      BY <2>1 DEF RoomCallsOK, Sends
    <3> QED  BY <2>1, <3>1, EffectTypes DEF RoomTypes
  <2>3. posts' \in Seq(Post)
    BY <1>2, <2>1, <2>2, AppendProperties
  <2>4. wire' \in [Visit -> RoomCommands \cup {"none", "obeyed"}]
    BY <2>1 DEF RoomTypes
  <2>5. RoomTypes'
    BY <1>1, <2>2, <2>3, <2>4 DEF RoomTypes, Post
  <2>6. /\ \A w \in Visit : w # v => wire'[w] = wire[w]
        /\ wire'[v] \in {"none", "obeyed"} /\ (wire'[v] # "none" => Running(v))
    BY <2>1 DEF RoomTypes
  <2>7. RoomCallsOK'
    BY <1>1, <2>6 DEF RoomCallsOK, Sends, Running
  <2> QED  BY <1>3, <2>5, <2>7
<1> QED  BY <1>4, <1>5

LEMMA ClimateInvInit == ClimateInit => ClimateInv
<1> SUFFICES ASSUME ClimateInit PROVE ClimateInv
  OBVIOUS
<1>1. /\ asked \in [Visit -> Ask] /\ stage = [v \in Visit |-> New]
      /\ note = [v \in Visit |-> "none"] /\ wire = [v \in Visit |-> "none"]
      /\ hcu \in [mode : {"AUTOMATIC", "MANUAL"}, setPoint : {"min", "high"},
              boost : {FALSE}, party : BOOLEAN, profile : {"p1"},
              absence : {"none"}]
      /\ group = hcu /\ panel = Plain(hcu) /\ posts = <<>> /\ heard = TRUE
      /\ room = [assumed |-> FALSE, mode |-> ModeOf(hcu), target |-> TargetOf(hcu),
                 preset |-> "none"]
  BY DEF ClimateInit
<1>2. hcu \in Groups
  BY <1>1 DEF Groups
<1>3. room \in Rooms /\ room.assumed = FALSE /\ room.preset = "none"
  BY <1>1, <1>2, GroupShows DEF Rooms
<1>4. RoomTypes
  <2>1. posts \in Seq({"group", "home"} \X Groups)
    BY <1>1
  <2>2. stage \in [Visit -> 0 .. 5] /\ heard \in BOOLEAN
    BY <1>1 DEF New
  <2> QED  BY <1>1, <1>2, <1>3, <2>1, <2>2 DEF RoomTypes
<1>5. RoomCallsOK
  BY <1>1, <1>3 DEF RoomCallsOK, Running, New
<1> QED  BY <1>1, <1>3, <1>4, <1>5 DEF ClimateInv, HeardOK

LEMMA ClimateInvNext ==
  ASSUME ClimateInv, [ClimateNext]_climateVars
  PROVE  ClimateInv'
<1>1. CASE UNCHANGED climateVars
  <2>1. UNCHANGED <<season, asked, stage, note, wire, room, group, panel, hcu, posts, heard>>
    BY <1>1 DEF climateVars, hcuSide
  <2>2. HeardOK'
    BY <2>1, SameSeason DEF ClimateInv, HeardOK
  <2> QED  BY <2>1, <2>2 DEF ClimateInv, RoomTypes, RoomCallsOK, Sends, Running
<1> QED
  BY <1>1, ReportsKeep, BeginKeeps, ContinueKeeps, OverKeeps, HcuKeeps DEF ClimateNext

LEMMA ClimateInvAlways == ClimateSpec => []ClimateInv
BY ClimateInvInit, ClimateInvNext, PTL DEF ClimateSpec

\* For any number of service calls and reports: once every report was handled, and
\* the group was reported since a call last began, a heating group shows what the
\* HCU has (_handle_coordinator_update in climate.py).
THEOREM RoomShown == ClimateSpec => []ShowsTheRoom
<1>1. ClimateInv => ShowsTheRoom
  BY DEF ClimateInv, RoomTypes, HeardOK, ShowsTheRoom
<1> QED  BY <1>1, ClimateInvAlways, PTL

\* The types of Climate, and that a command under way is one of its call.
THEOREM ClimateTypes == ClimateSpec => []ClimateTypeOK
<1>1. ClimateInv => ClimateTypeOK
  <2> SUFFICES ASSUME ClimateInv PROVE ClimateTypeOK
    OBVIOUS
  <2>1. room.mode \in {"auto", "heat", "cool", "off"}
    BY DEF ClimateInv, RoomTypes, Rooms, Modes
  <2>2. room.preset # "none" => stage # [v \in Visit |-> New]
    BY DEF ClimateInv, RoomCallsOK
  <2> QED  BY <2>1, <2>2 DEF ClimateInv, RoomTypes, RoomCallsOK, ClimateTypeOK
<1> QED  BY <1>1, ClimateInvAlways, PTL

-----------------------------------------------------------------------------
(* A heating group: a call by itself *)

\* What the steps up to the i-th of a call that asks for ask, and noted n, make of
\* the room h, those that were not needed included.
Reached(ask, n, h, i) ==
  /\ ask[1] = "temperature" /\ i >= 2 => h.setPoint = ask[2]
  /\ ask = <<"hvac", "off">> => /\ i >= 1 => h.mode = "MANUAL"
                                /\ i >= 2 => h.setPoint = "min"
  /\ ask = <<"hvac", "auto">> /\ i >= 1 => h.mode = "AUTOMATIC"
  /\ ask \in {<<"hvac", "heat">>, <<"hvac", "cool">>} =>
       /\ i >= 1 => h.mode = "MANUAL"
       /\ i >= 2 \/ n # "reset" => h.setPoint # "min"
  /\ ask = <<"preset", "boost">> /\ i >= 1 => h.boost = TRUE
  /\ ask \in Parties /\ i >= 1 => h.party = TRUE
  /\ ask = <<"preset", "p2">> =>
       /\ i >= 1 /\ n = "boost" => h.boost = FALSE
       /\ i >= 2 => h.mode = "AUTOMATIC" /\ (n = "party" => h.party = FALSE)
       /\ i >= 3 => h.profile = "p2"

\* The group g is the room h in what decides whether a call after its step i sends
\* the next one.
Alike(ask, i, g, h) ==
  /\ i = 0 => g = h
  /\ i = 1 /\ ask = <<"hvac", "off">> => g.setPoint = h.setPoint
  /\ i = 1 /\ ask = <<"preset", "p2">> => g.mode = h.mode

LEMMA StepsSkipped ==
  ASSUME NEW ask \in Ask, NEW n, NEW g, NEW h, NEW r, NEW i \in 0 .. 3,
         NEW k \in i + 1 .. Len(Steps(ask)) + 1,
         Reached(ask, n, h, i), Alike(ask, i, g, h),
         \A j \in i + 1 .. k - 1 : ~Needed(Steps(ask)[j], n, r, g)
  PROVE  Reached(ask, n, h, k - 1)
<1>1. CASE ask[1] = "temperature"
  <2>1. Steps(ask) = <<"heatManual", "setPoint">> /\ ask \notin Parties
        /\ ask[1] \notin {"hvac", "preset"}
    BY <1>1, StepsOf, AskCases DEF Parties
  <2>2. Len(Steps(ask)) = 2 /\ Needed(Steps(ask)[2], n, r, g) = TRUE
    BY <2>1 DEF Needed
  <2>3. k - 1 >= 2 => i >= 2
    BY <2>2
  <2> QED  BY <1>1, <2>1, <2>3 DEF Reached
<1>2. CASE ask = <<"hvac", "off">>
  <2>1. Steps(ask) = <<"manual", "toMin">> /\ Len(Steps(ask)) = 2
    BY <1>2, StepsOf
  <2>2. /\ Needed(Steps(ask)[1], n, r, g) <=> g.mode # "MANUAL"
        /\ Needed(Steps(ask)[2], n, r, g) <=> g.setPoint # "min"
    BY <2>1 DEF Needed
  <2>3. k - 1 >= 1 => h.mode = "MANUAL"
    BY <1>2, <2>1, <2>2 DEF Reached, Alike
  <2>4. k - 1 >= 2 => h.setPoint = "min"
    BY <1>2, <2>1, <2>2 DEF Reached, Alike
  <2> QED  BY <1>2, <2>3, <2>4 DEF Reached, Parties
<1>3. CASE ask = <<"hvac", "auto">>
  <2>1. Steps(ask) = <<"automatic">> /\ Len(Steps(ask)) = 1
    BY <1>3, StepsOf
  <2>2. Needed(Steps(ask)[1], n, r, g) <=> g.mode # "AUTOMATIC"
    BY <2>1 DEF Needed
  <2>3. k - 1 >= 1 => h.mode = "AUTOMATIC"
    BY <1>3, <2>1, <2>2 DEF Reached, Alike
  <2> QED  BY <1>3, <2>3 DEF Reached, Parties
<1>4. CASE ask \in {<<"hvac", "heat">>, <<"hvac", "cool">>}
  <2>1. Steps(ask) = <<"manual", "toComfort">> /\ Len(Steps(ask)) = 2 /\ ask[1] = "hvac"
    BY <1>4, StepsOf
  <2>2. /\ Needed(Steps(ask)[1], n, r, g) <=> g.mode # "MANUAL"
        /\ Needed(Steps(ask)[2], n, r, g) <=> n = "reset"
    BY <2>1 DEF Needed
  <2>3. k - 1 >= 1 => h.mode = "MANUAL"
    BY <1>4, <2>1, <2>2 DEF Reached, Alike
  <2>4. k - 1 >= 2 \/ n # "reset" => h.setPoint # "min"
    BY <1>4, <2>1, <2>2 DEF Reached
  <2> QED  BY <1>4, <2>3, <2>4 DEF Reached, Parties
<1>5. CASE ask = <<"preset", "boost">> \/ ask \in Parties
  <2>1. Len(Steps(ask)) = 1 /\ Needed(Steps(ask)[1], n, r, g) = TRUE
    BY <1>5, StepsOf DEF Needed, Parties
  <2>2. k - 1 >= 1 => i >= 1
    BY <2>1
  <2> QED  BY <1>5, <2>2 DEF Reached, Parties
<1>6. CASE ask = <<"preset", "p2">>
  <2>1. Steps(ask) = <<"noBoost", "leave", "profile">> /\ Len(Steps(ask)) = 3
    BY <1>6, StepsOf
  <2>2. /\ Needed(Steps(ask)[1], n, r, g) <=> n = "boost"
        /\ Needed(Steps(ask)[2], n, r, g) <=> g.mode # "AUTOMATIC" \/ n = "party"
        /\ Needed(Steps(ask)[3], n, r, g) = TRUE
    BY <2>1 DEF Needed, Leaves
  <2>3. k - 1 >= 1 /\ n = "boost" => h.boost = FALSE
    BY <1>6, <2>1, <2>2 DEF Reached
  <2>4. k - 1 >= 2 => h.mode = "AUTOMATIC" /\ (n = "party" => h.party = FALSE)
    BY <1>6, <2>1, <2>2 DEF Reached, Alike
  <2>5. k - 1 >= 3 => h.profile = "p2"
    BY <1>6, <2>1, <2>2 DEF Reached
  <2> QED  BY <1>6, <2>3, <2>4, <2>5 DEF Reached, Parties
<1> QED  BY <1>1, <1>2, <1>3, <1>4, <1>5, <1>6, AskCases DEF Parties

LEMMA StepCarriedOut ==
  ASSUME NEW ask \in Ask, NEW n, NEW h \in Groups, NEW i \in 1 .. Len(Steps(ask)),
         Reached(ask, n, h, i - 1), NEW e, e = Effect(h, Steps(ask)[i], ask)
  PROVE  /\ Reached(ask, n, e, i)
         /\ \A g : Alike(ask, i, g, h) => Alike(ask, i, g, e)
<1>1. CASE ask[1] = "temperature"
  <2>1. Steps(ask) = <<"heatManual", "setPoint">> /\ ask \notin Parties
        /\ ask[1] \notin {"hvac", "preset"}
    BY <1>1, StepsOf, AskCases DEF Parties
  <2>2. i = 2 => e.setPoint = ask[2]
    BY <2>1 DEF Effect, Groups
  <2>3. i \in 1 .. 2
    BY <2>1
  <2> QED  BY <1>1, <2>1, <2>2, <2>3 DEF Reached, Alike
<1>2. CASE ask = <<"hvac", "off">>
  <2>1. Steps(ask) = <<"manual", "toMin">> /\ i \in 1 .. 2
    BY <1>2, StepsOf
  <2>2. CASE i = 1
    <3>1. e = [h EXCEPT !.mode = "MANUAL"]
      BY <2>1, <2>2 DEF Effect
    <3>2. e.mode = "MANUAL" /\ e.setPoint = h.setPoint
      BY <3>1 DEF Groups
    <3> QED  BY <1>2, <2>2, <3>2 DEF Reached, Alike, Parties
  <2>3. CASE i = 2
    <3>1. e = [h EXCEPT !.setPoint = "min"]
      BY <2>1, <2>3 DEF Effect
    <3>2. e.mode = h.mode /\ e.setPoint = "min"
      BY <3>1 DEF Groups
    <3> QED  BY <1>2, <2>3, <3>2 DEF Reached, Alike, Parties
  <2> QED  BY <2>1, <2>2, <2>3
<1>3. CASE ask = <<"hvac", "auto">>
  <2>1. Steps(ask) = <<"automatic">> /\ i = 1
    BY <1>3, StepsOf
  <2>2. e = [h EXCEPT !.mode = "AUTOMATIC", !.party = FALSE, !.setPoint = "comfort"]
    BY <2>1 DEF Effect
  <2>3. e.mode = "AUTOMATIC"
    BY <2>2 DEF Groups
  <2>4. Reached(ask, n, e, i)
    BY <1>3, <2>1, <2>3 DEF Reached, Parties
  <2>5. \A g : Alike(ask, i, g, h) => Alike(ask, i, g, e)
    BY <1>3, <2>1 DEF Alike
  <2> QED  BY <2>4, <2>5
<1>4. CASE ask \in {<<"hvac", "heat">>, <<"hvac", "cool">>}
  <2>1. Steps(ask) = <<"manual", "toComfort">> /\ i \in 1 .. 2
    BY <1>4, StepsOf
  <2>2. CASE i = 1
    <3>1. e = [h EXCEPT !.mode = "MANUAL"]
      BY <2>1, <2>2 DEF Effect
    <3>2. e.mode = "MANUAL" /\ e.setPoint = h.setPoint
      BY <3>1 DEF Groups
    <3> QED  BY <1>4, <2>2, <3>2 DEF Reached, Alike, Parties
  <2>3. CASE i = 2
    <3>1. e = [h EXCEPT !.setPoint = "comfort"]
      BY <2>1, <2>3 DEF Effect
    <3>2. e.mode = h.mode /\ e.setPoint = "comfort"
      BY <3>1 DEF Groups
    <3> QED  BY <1>4, <2>3, <3>2 DEF Reached, Alike, Parties
  <2> QED  BY <2>1, <2>2, <2>3
<1>5. CASE ask = <<"preset", "boost">>
  <2>1. Steps(ask) = <<"boost">> /\ i = 1
    BY <1>5, StepsOf
  <2>2. e = [h EXCEPT !.boost = TRUE]
    BY <2>1 DEF Effect
  <2>3. e.boost = TRUE
    BY <2>2 DEF Groups
  <2> QED  BY <1>5, <2>1, <2>3 DEF Reached, Alike, Parties
<1>6. CASE ask \in Parties
  <2>1. Steps(ask) = <<"party">> /\ i = 1
    BY <1>6, StepsOf DEF Parties
  <2>2. e = [h EXCEPT !.party = TRUE,
                      !.setPoint = IF ask[1] = "party" THEN ask[2] ELSE "comfort"]
    BY <2>1 DEF Effect
  <2>3. e.party = TRUE
    BY <2>2 DEF Groups
  <2>4. /\ ask[1] \in {"preset", "party"}
        /\ ask \notin {<<"preset", "boost">>, <<"preset", "p2">>}
        /\ ask[1] = "party" => ask # <<"preset", "p2">>
        /\ ask \notin {<<"hvac", "off">>, <<"hvac", "auto">>, <<"hvac", "heat">>,
                       <<"hvac", "cool">>}
    BY <1>6 DEF Parties
  <2>5. Reached(ask, n, e, i)
    BY <1>6, <2>1, <2>3, <2>4 DEF Reached
  <2>6. \A g : Alike(ask, i, g, e)
    BY <2>1, <2>4 DEF Alike
  <2> QED  BY <2>5, <2>6
<1>7. CASE ask = <<"preset", "p2">>
  <2>1. Steps(ask) = <<"noBoost", "leave", "profile">> /\ i \in 1 .. 3
    BY <1>7, StepsOf
  <2>2. CASE i = 1
    <3>1. e = [h EXCEPT !.boost = FALSE]
      BY <2>1, <2>2 DEF Effect
    <3>2. e.boost = FALSE /\ e.mode = h.mode
      BY <3>1 DEF Groups
    <3> QED  BY <1>7, <2>2, <3>2 DEF Reached, Alike, Parties
  <2>3. CASE i = 2
    <3>1. e = [h EXCEPT !.mode = "AUTOMATIC", !.party = FALSE, !.setPoint = "comfort"]
      BY <2>1, <2>3 DEF Effect
    <3>2. e.boost = h.boost /\ e.mode = "AUTOMATIC" /\ e.party = FALSE
      BY <3>1 DEF Groups
    <3> QED  BY <1>7, <2>3, <3>2 DEF Reached, Alike, Parties
  <2>4. CASE i = 3
    <3>1. e = [h EXCEPT !.profile = ask[2]]
      BY <2>1, <2>4 DEF Effect
    <3>2. e.boost = h.boost /\ e.mode = h.mode /\ e.party = h.party /\ e.profile = "p2"
      BY <1>7, <3>1 DEF Groups
    <3> QED  BY <1>7, <2>4, <3>2 DEF Reached, Alike, Parties
  <2> QED  BY <2>1, <2>2, <2>3, <2>4
<1> QED  BY <1>1, <1>2, <1>3, <1>4, <1>5, <1>6, <1>7, AskCases DEF Parties

\* While the call v is the last one and began by itself, nothing else of it can
\* reach the room; how far it got shows in the room, and the reports on their way
\* do not mislead it about what is left to do.
LoneOK(v) ==
  /\ stage[v] # New /\ Offered(asked[v])
  /\ \A w \in Visit \ {v} : ~Running(w) /\ wire[w] \in {"none", "obeyed"}
  /\ Running(v) =>
       /\ wire[v] # "none"
       /\ Reached(asked[v], note[v], hcu, stage[v] - 1)
       /\ wire[v] = "obeyed" => Reached(asked[v], note[v], hcu, stage[v])
       /\ Alike(asked[v], stage[v], group, hcu)
       /\ \A j \in 1 .. Len(posts) : Alike(asked[v], stage[v], posts[j][2], hcu)
  /\ stage[v] = Done =>
       Reached(asked[v], note[v], hcu, Len(Steps(asked[v])))

LoneInv == ClimateInv /\ \A v \in Visit : lone = <<v>> => LoneOK(v)

LEMMA Single ==
  ASSUME NEW a, NEW b
  PROVE  <<a>> # <<>> /\ (<<a>> = <<b>> => a = b)
OBVIOUS

LEMMA ReachedBefore ==
  ASSUME NEW ask, NEW n, NEW h, NEW i \in Int, Reached(ask, n, h, i)
  PROVE  Reached(ask, n, h, i - 1)
BY DEF Reached

LEMMA LoneProceeds ==
  ASSUME ClimateInv, NEW v \in Visit, NEW i \in 0 .. 3, NEW n, NEW r \in Rooms,
         Proceed(v, i, n, r), note'[v] = n, UNCHANGED <<season, asked, group, hcu, posts>>,
         Offered(asked[v]),
         \A w \in Visit \ {v} : ~Running(w) /\ wire[w] \in {"none", "obeyed"},
         Reached(asked[v], n, hcu, i), Alike(asked[v], i, group, hcu),
         \A j \in 1 .. Len(posts) : Alike(asked[v], i, posts[j][2], hcu)
  PROVE  LoneOK(v)'
<1>0. /\ RoomTypes /\ asked[v] \in Ask /\ Len(Steps(asked[v])) \in 1 .. 3
      /\ asked'[v] = asked[v] /\ group' = group /\ hcu' = hcu /\ posts' = posts
  BY StepTypes DEF ClimateInv, RoomTypes
<1>1. Offered(asked[v])'
  BY <1>0 DEF Offered, ActiveMode
<1> DEFINE m == Len(Steps(asked[v]))
<1>a. m \in 1 .. 3
  BY <1>0
<1> HIDE DEF m
<1>b. \A k \in i + 1 .. m : k \in 1 .. 3 /\ k \in i + 1 .. m + 1 /\ k \in 1 .. m
  BY <1>a
<1>2. CASE Finishes(v, i, n, r)
  <2>1. /\ stage'[v] = Done /\ \A w \in Visit \ {v} : stage'[w] = stage[w] /\ wire'[w] = wire[w]
    BY <1>0, <1>2 DEF Finishes, RoomTypes
  <2>2. Reached(asked[v], n, hcu, Len(Steps(asked[v])))
    <3> DEFINE k == Len(Steps(asked[v])) + 1
    <3>1. CASE i >= Len(Steps(asked[v]))
      BY <1>0, <3>1 DEF Reached
    <3>2. CASE i < Len(Steps(asked[v]))
      <4>1. k \in i + 1 .. Len(Steps(asked[v])) + 1 /\ k - 1 = Len(Steps(asked[v]))
        BY <1>0, <3>2
      <4> HIDE DEF k
      <4>2. Reached(asked[v], n, hcu, k - 1)
        BY <1>0, <1>2, <4>1, StepsSkipped DEF Finishes
      <4> QED  BY <4>1, <4>2
    <3> QED  BY <1>0, <3>1, <3>2
  <2>3. ~Running(v)' /\ stage'[v] # New /\ \A w \in Visit \ {v} : ~Running(w)'
    BY <2>1 DEF Running, Done, New
  <2> QED  BY <1>0, <1>1, <2>1, <2>2, <2>3 DEF LoneOK
<1>3. ASSUME NEW k \in i + 1 .. Len(Steps(asked[v])), GoesOn(v, i, n, r, k)
      PROVE  LoneOK(v)'
  <2>1. /\ stage'[v] = k /\ wire'[v] = Steps(asked[v])[k]
        /\ \A w \in Visit \ {v} : stage'[w] = stage[w] /\ wire'[w] = wire[w]
    BY <1>0, <1>3 DEF GoesOn, RoomTypes
  <2>2. k \in 1 .. 3 /\ k \in i + 1 .. Len(Steps(asked[v])) + 1
        /\ k \in 1 .. Len(Steps(asked[v]))
    BY <1>b, <1>3 DEF m
  <2>3. Reached(asked[v], n, hcu, k - 1)
    BY <1>0, <1>3, <2>2, StepsSkipped DEF GoesOn
  <2>4. wire'[v] \notin {"none", "obeyed"}
    BY <1>0, <2>1, <2>2, StepTypes DEF RoomCommands
  <2>5. \A g : Alike(asked[v], i, g, hcu) => Alike(asked[v], k, g, hcu)
    BY <1>3, <2>2 DEF Alike
  <2>6. stage'[v] \notin {New, Done} /\ \A w \in Visit \ {v} : ~Running(w)'
    BY <2>1, <2>2 DEF Running, Done, New
  <2> QED  BY <1>0, <1>1, <2>1, <2>3, <2>4, <2>5, <2>6 DEF LoneOK
<1> QED  BY <1>0, <1>2, <1>3, Proceeds

LEMMA LoneBegins ==
  ASSUME LoneInv, NEW w \in Visit, BeginCall(w), NEW v \in Visit, lone' = <<v>>
  PROVE  LoneOK(v)'
<1>1. v = w /\ Settled(v)
  <2>1. lone' = IF Settled(w) THEN <<w>> ELSE <<>>
    BY DEF BeginCall, None
  <2> QED  BY <2>1, Single
<1>2. /\ Offered(asked[v]) /\ Proceed(v, 0, note'[v], Assumed(asked[v]))
      /\ note' = [note EXCEPT ![v] = NoteOf(asked[v])]
      /\ UNCHANGED <<season, asked, group, hcu, posts>>
  BY <1>1 DEF BeginCall, hcuSide
<1>3. ClimateInv /\ asked[v] \in Ask /\ Assumed(asked[v]) \in Rooms
  BY AssumedTypes DEF LoneInv, ClimateInv, RoomTypes
<1>4. /\ posts = <<>> /\ group = hcu
      /\ \A u \in Visit : ~Running(u) /\ wire[u] \in {"none", "obeyed"}
  BY <1>1 DEF Settled
<1> DEFINE i == 0
<1>5. /\ i \in 0 .. 3 /\ Proceed(v, i, note'[v], Assumed(asked[v]))
      /\ Alike(asked[v], i, group, hcu) /\ Len(posts) = 0
  BY <1>2, <1>4 DEF Alike
<1>6. Reached(asked[v], note'[v], hcu, i)
  <2>1. note'[v] = NoteOf(asked[v])
    BY <1>2 DEF LoneInv, ClimateInv, RoomTypes
  <2>2. asked[v] \in {<<"hvac", "heat">>, <<"hvac", "cool">>} /\ note'[v] # "reset"
          => hcu.setPoint # "min"
    BY <1>4, <2>1 DEF NoteOf
  <2> QED  BY <2>2 DEF Reached
<1> HIDE DEF i
<1> QED  BY <1>2, <1>3, <1>4, <1>5, <1>6, LoneProceeds

LEMMA LoneContinues ==
  ASSUME LoneInv, NEW w \in Visit, Continue(w), NEW v \in Visit, lone' = <<v>>
  PROVE  LoneOK(v)'
<1>1. /\ lone = <<v>> /\ Running(w) /\ wire[w] = "obeyed"
      /\ Proceed(w, stage[w], note[w], room)
      /\ UNCHANGED <<season, asked, note, group, hcu, posts>>
  BY DEF Continue, hcuSide
<1>2. LoneOK(v) /\ ClimateInv
  BY <1>1 DEF LoneInv
<1>3. w = v
  BY <1>1, <1>2 DEF LoneOK
<1>4. stage[v] \in 0 .. 3 /\ room \in Rooms
  BY <1>1, <1>2, <1>3 DEF Running, ClimateInv, RoomTypes
<1> QED  BY <1>1, <1>2, <1>3, <1>4, LoneProceeds DEF LoneOK

LEMMA LoneObeyed ==
  ASSUME LoneInv, NEW w \in Visit, HcuObeys(w), NEW v \in Visit, lone' = <<v>>
  PROVE  LoneOK(v)'
<1>1. /\ lone = <<v>> /\ wire[w] \notin {"none", "obeyed"}
      /\ wire' = [wire EXCEPT ![w] = IF Running(w) THEN "obeyed" ELSE "none"]
      /\ hcu' = Effect(hcu, wire[w], asked[w])
      /\ posts' = IF hcu' = hcu THEN posts ELSE Append(posts, <<"group", hcu'>>)
      /\ UNCHANGED <<season, asked, stage, note, group>>
  BY DEF HcuObeys
<1>2. LoneOK(v) /\ ClimateInv /\ RoomTypes /\ RoomCallsOK
  BY <1>1 DEF LoneInv, ClimateInv
<1>3. w = v
  BY <1>1, <1>2 DEF LoneOK
<1>4. Offered(asked[v])' /\ stage'[v] # New
  BY <1>1, <1>2 DEF Offered, ActiveMode, LoneOK
<1>5. \A u \in Visit \ {v} : (~Running(u) /\ wire[u] \in {"none", "obeyed"})'
  BY <1>1, <1>2, <1>3 DEF LoneOK, Running, RoomTypes
<1>6. stage[v] # Done
  BY <1>1, <1>2, <1>3 DEF RoomCallsOK, Done, Over
<1>7. CASE ~Running(v)
  <2>1. ~Running(v)'
    BY <1>1, <1>7 DEF Running
  <2> QED  BY <1>1, <1>4, <1>5, <1>6, <2>1 DEF LoneOK
<1>8. CASE Running(v)
  <2>1. /\ Reached(asked[v], note[v], hcu, stage[v] - 1)
        /\ Alike(asked[v], stage[v], group, hcu)
        /\ \A j \in 1 .. Len(posts) : Alike(asked[v], stage[v], posts[j][2], hcu)
    BY <1>2, <1>8 DEF LoneOK
  <2>2. /\ stage[v] \in 1 .. Len(Steps(asked[v])) /\ wire[v] = Steps(asked[v])[stage[v]]
        /\ asked[v] \in Ask /\ hcu \in Groups /\ stage[v] >= 1
    BY <1>1, <1>2, <1>3, <1>8 DEF RoomCallsOK, Sends, RoomTypes, Running
  <2>3. /\ Reached(asked[v], note[v], hcu', stage[v])
        /\ \A g : Alike(asked[v], stage[v], g, hcu) => Alike(asked[v], stage[v], g, hcu')
    BY <1>1, <1>3, <2>1, <2>2, StepCarriedOut
  <2>4. Reached(asked[v], note[v], hcu', stage[v] - 1)
    <3>1. stage[v] \in Int
      BY <1>2 DEF RoomTypes
    <3> QED  BY <2>3, <3>1, ReachedBefore
  <2>5. wire'[v] = "obeyed"
    BY <1>1, <1>2, <1>3, <1>8 DEF RoomTypes
  <2>6. \A j \in 1 .. Len(posts') : Alike(asked[v], stage[v], posts'[j][2], hcu')
    <3>1. CASE hcu' = hcu
      BY <1>1, <2>1, <2>3, <3>1
    <3>2. CASE hcu' # hcu
      <4> DEFINE Post == {"group", "home"} \X Groups
      <4>1. posts \in Seq(Post) /\ <<"group", hcu'>> \in Post
        <5>1. hcu' \in Groups
          BY <1>1, <1>3, <2>2, EffectTypes
        <5> QED  BY <1>2, <5>1 DEF RoomTypes
      <4> HIDE DEF Post
      <4>2. /\ posts' = Append(posts, <<"group", hcu'>>) /\ Len(posts') = Len(posts) + 1
            /\ posts'[Len(posts) + 1] = <<"group", hcu'>> /\ Len(posts) \in Nat
            /\ \A j \in 1 .. Len(posts) : posts'[j] = posts[j]
        BY <1>1, <3>2, <4>1, AppendProperties, LenProperties
      <4>3. Alike(asked[v], stage[v], hcu', hcu')
        BY DEF Alike
      <4>4. \A j \in 1 .. Len(posts') : j \in 1 .. Len(posts) \/ j = Len(posts) + 1
        BY <4>2
      <4>5. posts'[Len(posts) + 1][2] = hcu'
        BY <4>2
      <4> QED  BY <2>1, <2>3, <4>2, <4>3, <4>4, <4>5
    <3> QED  BY <3>1, <3>2
  <2> QED  BY <1>1, <1>4, <1>5, <1>6, <2>1, <2>3, <2>4, <2>5, <2>6 DEF LoneOK
<1> QED  BY <1>7, <1>8

LEMMA LoneOver ==
  ASSUME LoneInv, NEW w \in Visit, GiveUpCall(w) \/ CancelCall(w), NEW v \in Visit,
         lone' = <<v>>
  PROVE  LoneOK(v)'
<1>1. /\ lone = <<v>> /\ Running(w) /\ stage' = [stage EXCEPT ![w] = Over]
      /\ wire' = [wire EXCEPT ![w] = IF @ = "obeyed" THEN "none" ELSE @]
      /\ UNCHANGED <<season, asked>>
  BY DEF GiveUpCall, CancelCall
<1>2. LoneOK(v) /\ RoomTypes
  BY <1>1 DEF LoneInv, ClimateInv
<1>3. w = v
  BY <1>1, <1>2 DEF LoneOK
<1>4. stage'[v] = Over /\ \A u \in Visit \ {v} : stage'[u] = stage[u] /\ wire'[u] = wire[u]
  BY <1>1, <1>2, <1>3 DEF RoomTypes
<1>5. Offered(asked[v])'
  BY <1>1, <1>2 DEF LoneOK, Offered, ActiveMode
<1> QED  BY <1>2, <1>4, <1>5 DEF LoneOK, Running, New, Done, Over

LEMMA LoneReported ==
  ASSUME LoneInv, GroupReported \/ HomeReported \/ OtherReported, NEW v \in Visit,
         lone' = <<v>>
  PROVE  LoneOK(v)'
<1>1. lone = <<v>> /\ UNCHANGED <<season, asked, stage, note, wire, hcu>>
  BY DEF GroupReported, HomeReported, OtherReported, hcuSide
<1>2. LoneOK(v) /\ RoomTypes
  BY <1>1 DEF LoneInv, ClimateInv
<1>3. Offered(asked[v])'
  BY <1>1, <1>2 DEF LoneOK, Offered, ActiveMode
<1>4. ASSUME Running(v)
      PROVE  /\ Alike(asked[v], stage[v], group', hcu)
             /\ \A j \in 1 .. Len(posts') : Alike(asked[v], stage[v], posts'[j][2], hcu)
  <2>1. /\ Alike(asked[v], stage[v], group, hcu) /\ stage[v] >= 1
        /\ \A j \in 1 .. Len(posts) : Alike(asked[v], stage[v], posts[j][2], hcu)
    BY <1>2, <1>4 DEF LoneOK, Running
  <2>2. CASE OtherReported
    BY <2>1, <2>2 DEF OtherReported, hcuSide
  <2>3. CASE GroupReported \/ HomeReported
    <3> DEFINE Post == {"group", "home"} \X Groups
    <3>1. posts \in Seq(Post) /\ posts # <<>> /\ posts' = Tail(posts)
      BY <1>2, <2>3 DEF GroupReported, HomeReported, RoomTypes
    <3> HIDE DEF Post
    <3>2. /\ Head(posts) \in Post /\ Head(posts) = posts[1] /\ Len(posts) \in Nat \ {0}
          /\ Len(posts') = Len(posts) - 1
          /\ \A j \in 1 .. Len(posts') : posts'[j] = posts[j + 1]
      BY <3>1, HeadTailProperties, EmptySeq, LenProperties
    <3>3. \A j \in 1 .. Len(posts') : Alike(asked[v], stage[v], posts'[j][2], hcu)
      <4>1. \A j \in 1 .. Len(posts') : j + 1 \in 1 .. Len(posts)
        BY <3>2
      <4> QED  BY <2>1, <3>2, <4>1
    <3>4. Alike(asked[v], stage[v], Head(posts)[2], hcu) /\ Head(posts)[2] \in Groups
      BY <2>1, <3>2 DEF Post
    <3>5. \/ group' = [Head(posts)[2] EXCEPT !.absence = group.absence]
          \/ group' = [group EXCEPT !.absence = Head(posts)[2].absence]
      BY <2>3 DEF GroupReported, HomeReported
    <3>6. \E g \in Groups : /\ Alike(asked[v], stage[v], g, hcu)
                            /\ group'.mode = g.mode /\ group'.setPoint = g.setPoint
      BY <1>2, <2>1, <3>4, <3>5 DEF Groups, RoomTypes
    <3>7. Alike(asked[v], stage[v], group', hcu)
      BY <2>1, <3>6 DEF Alike
    <3> QED  BY <3>3, <3>7
  <2> QED  BY <2>2, <2>3
<1> QED  BY <1>1, <1>2, <1>3, <1>4 DEF LoneOK, Running

LEMMA LoneInvAlways == ClimateSpec => []LoneInv
<1>1. ClimateInit => LoneInv
  BY ClimateInvInit, Single DEF ClimateInit, LoneInv, None
<1>2. LoneInv /\ [ClimateNext]_climateVars => LoneInv'
  <2> SUFFICES ASSUME LoneInv, [ClimateNext]_climateVars, NEW v \in Visit, lone' = <<v>>
               PROVE  LoneOK(v)'
    BY ClimateInvNext DEF LoneInv
  <2>1. CASE UNCHANGED climateVars
    <3>1. lone = <<v>> /\ UNCHANGED <<season, asked, stage, note, wire, hcu, group, posts>>
      BY <2>1 DEF climateVars, hcuSide
    <3>2. LoneOK(v)
      BY <3>1 DEF LoneInv
    <3> QED  BY <3>1, <3>2 DEF LoneOK, Running, Offered, ActiveMode
  <2>2. CASE HcuChanges
    BY <2>2, Single DEF HcuChanges, None
  <2> QED
    BY <2>1, <2>2, LoneBegins, LoneContinues, LoneObeyed, LoneOver, LoneReported
    DEF ClimateNext
<1> QED  BY <1>1, <1>2, PTL DEF ClimateSpec

\* However many calls came before: a service call of a heating group that ran by
\* itself and was done took effect, although which of its commands it sends is
\* decided from a cache that reports of its first ones reach meanwhile
\* (async_set_hvac_mode, async_set_preset_mode).
THEOREM LoneCalls == ClimateSpec => []LoneCallTakesEffect
<1>1. LoneInv => LoneCallTakesEffect
  <2> SUFFICES ASSUME LoneInv, NEW v \in Visit, stage[v] = Done, lone = <<v>>
               PROVE  CASE asked[v][1] = "temperature" -> hcu.setPoint = asked[v][2]
                        [] asked[v][1] = "hvac" -> ModeOf(hcu) = asked[v][2]
                        [] asked[v] = <<"preset", "boost">> -> hcu.boost
                        [] asked[v][1] = "preset" /\ asked[v][2] \in Profile ->
                             /\ hcu.mode = "AUTOMATIC" /\ hcu.profile = asked[v][2]
                             /\ note[v] = "boost" => ~hcu.boost
                             /\ note[v] = "party" => ~hcu.party
                        [] OTHER -> hcu.party
    BY Zenon DEF LoneCallTakesEffect
  <2>1. /\ asked[v] \in Ask /\ Offered(asked[v])
        /\ Reached(asked[v], note[v], hcu, Len(Steps(asked[v])))
    BY DEF LoneInv, LoneOK, ClimateInv, RoomTypes
  <2>2. CASE asked[v][1] = "temperature"
    <3>1. Len(Steps(asked[v])) = 2
      BY <2>1, <2>2, StepsOf
    <3> QED  BY <2>1, <2>2, <3>1 DEF Reached
  <2>3. CASE asked[v][1] = "hvac"
    <3>1. asked[v] = <<"hvac", "off">> => ModeOf(hcu) = "off"
      BY <2>1, StepsOf DEF Reached, ModeOf
    <3>2. asked[v] = <<"hvac", "auto">> => ModeOf(hcu) = "auto"
      BY <2>1, StepsOf DEF Reached, ModeOf
    <3>3. asked[v] \in {<<"hvac", "heat">>, <<"hvac", "cool">>} => ModeOf(hcu) = ActiveMode
      <4> HAVE asked[v] \in {<<"hvac", "heat">>, <<"hvac", "cool">>}
      <4>1. Len(Steps(asked[v])) = 2
        BY <2>1, StepsOf
      <4>2. hcu.mode = "MANUAL" /\ hcu.setPoint # "min"
        BY <2>1, <4>1 DEF Reached
      <4> QED  BY <4>2 DEF ModeOf
    <3>4. asked[v] \in {<<"hvac", "heat">>, <<"hvac", "cool">>} => asked[v][2] = ActiveMode
      BY <2>1 DEF Offered, ActiveMode
    <3>5. ModeOf(hcu) = asked[v][2]
      BY <2>1, <2>3, <3>1, <3>2, <3>3, <3>4, AskCases
    <3> QED  BY <2>3, <3>5
  <2>4. CASE asked[v] = <<"preset", "boost">>
    <3>1. Len(Steps(asked[v])) = 1
      BY <2>1, <2>4, StepsOf
    <3>2. hcu.boost = TRUE
      BY <2>1, <2>4, <3>1 DEF Reached
    <3>3. asked[v][1] # "temperature" /\ asked[v][1] # "hvac"
      BY <2>4
    <3> QED  BY <2>4, <3>2, <3>3 DEF Profile
  <2>5. CASE asked[v] = <<"preset", "p2">>
    <3>1. Len(Steps(asked[v])) = 3
      BY <2>1, <2>5, StepsOf
    <3>2. /\ hcu.mode = "AUTOMATIC" /\ hcu.profile = "p2"
          /\ note[v] = "boost" => hcu.boost = FALSE
          /\ note[v] = "party" => hcu.party = FALSE
      BY <2>1, <2>5, <3>1 DEF Reached
    <3> QED  BY <2>5, <3>2 DEF Profile
  <2>6. CASE asked[v] \in Parties
    <3>1. Len(Steps(asked[v])) = 1
      BY <2>1, <2>6, StepsOf DEF Parties
    <3>2. hcu.party = TRUE
      BY <2>1, <2>6, <3>1 DEF Reached
    <3> QED  BY <2>6, <3>2 DEF Parties, Profile
  <2> QED  BY <2>1, <2>2, <2>3, <2>4, <2>5, <2>6, AskCases DEF Parties
<1> QED  BY <1>1, LoneInvAlways, PTL

-----------------------------------------------------------------------------
(* A cover: the direction it shows *)

Ways == {"opening", "closing"}
Reports == [moving : BOOLEAN, way : Ways, level : 0 .. Top]

\* The last report after c, which was handled last, and the one before it.
LastOf(c, q) == IF q = <<>> THEN c ELSE q[Len(q)]
BeforeLast(c, q) == IF Len(q) = 1 THEN c ELSE q[Len(q) - 1]

ShutterTypes ==
  /\ pos \in 0 .. Top /\ aim \in 0 .. Top /\ last \in Ways
  /\ stale \in 0 .. 3 /\ onWay \in -2 .. Top
  /\ pushes \in Seq(Reports) /\ channel \in Reports
  /\ wanted \in Ways \cup {"none"} /\ since \in 0 .. 3 /\ underway \in -1 .. 3
  /\ settling \in BOOLEAN /\ display \in Ways \cup {"none"}
  /\ turned \in BOOLEAN /\ late \in BOOLEAN

\* The last report tells whether the shutter moves, and which way, unless it is
\* still the direction of the move before.
ReportsOK ==
  LET rep == LastOf(channel, pushes)
  IN  /\ rep.moving = TRUE <=> Real # "none"
      /\ Real # "none" /\ stale = 0 => rep.way = Real
      /\ stale # 0 => Real # "none"

\* The seconds of a move run while the channel moves, and for the last of its own
\* commands at least as long as for the move, unless one was given meanwhile.
AgesOK ==
  /\ underway # NoMove <=> channel.moving = TRUE
  /\ settling = TRUE => underway # NoMove
  /\ settling = FALSE /\ underway # NoMove => underway = 3
  /\ wanted # "none" /\ late = FALSE /\ underway # NoMove => since >= underway

\* A move from a standstill follows the own command, if any; and as long as its
\* direction was not corrected its report comes after one that nothing moves, and
\* the direction has not settled.
StandstillOK ==
  turned = FALSE =>
    /\ Real # "none" => wanted \in {"none", Real}
    /\ stale # 0 /\ pushes = <<>> => underway < stale
    /\ stale # 0 /\ pushes # <<>> =>
         stale = 1 /\ BeforeLast(channel, pushes).moving = FALSE

DisplayOK ==
  pushes = <<>> /\ Real # "none" =>
    /\ turned = FALSE => display \in {"none", Real}
    /\ settling = FALSE /\ stale = 0 /\ late = FALSE => display = Real

CoverInv == ShutterTypes /\ ReportsOK /\ AgesOK /\ StandstillOK /\ DisplayOK

LEMMA WayTypes ==
  ASSUME NEW a, NEW b
  PROVE  Way(a, b) \in Ways \cup {"none"}
BY DEF Way, Ways

\* What a display with the state there is shows.
ShowsReal ==
  /\ turned = FALSE => Shown(channel, wanted, since, underway) \in {"none", Real}
  /\ (settling = FALSE \/ underway >= 3) /\ stale = 0 /\ late = FALSE =>
       Shown(channel, wanted, since, underway) = Real
MovesSeen ==
  /\ ShutterTypes /\ ReportsOK /\ AgesOK /\ StandstillOK
  /\ pushes = <<>> /\ Real # "none"

LEMMA ShownIsReal == MovesSeen => ShowsReal
<1> SUFFICES ASSUME MovesSeen PROVE ShowsReal
  OBVIOUS
<1> USE DEF MovesSeen
<1>1. channel.moving = TRUE /\ (stale = 0 => channel.way = Real)
  BY DEF ReportsOK, LastOf
<1>2. underway \in 0 .. 3
  BY <1>1 DEF AgesOK, ShutterTypes, NoMove
<1>3. turned = FALSE => wanted \in {"none", Real} /\ (underway >= 3 => stale = 0)
  BY <1>2 DEF StandstillOK, ShutterTypes
<1>4. settling = FALSE => underway = 3
  BY <1>2 DEF AgesOK, NoMove
<1>5. underway >= 3 /\ late = FALSE => wanted = "none" \/ since >= 3
  BY <1>2 DEF AgesOK, NoMove, ShutterTypes
<1>6. Shown(channel, wanted, since, underway) =
        IF wanted # "none" /\ since < 3 THEN wanted
        ELSE IF underway >= 3 THEN channel.way ELSE "none"
  BY <1>1, <1>2 DEF Shown, RawSettled, Grace, Settle, NoMove
<1>7. since \in 0 .. 3
  BY DEF ShutterTypes
<1> QED  BY <1>1, <1>2, <1>3, <1>4, <1>5, <1>6, <1>7 DEF ShowsReal

LEMMA ShownIsRealNext == MovesSeen' => ShowsReal'
BY ShownIsReal, PTL

LEMMA CommandKeeps ==
  ASSUME CoverInv, NEW p \in -2 .. Top, NEW way \in Ways \cup {"none", "keep"},
         Command(p, way)
  PROVE  CoverInv'
<1> USE DEF CoverInv
<1>1. /\ onWay' = p
      /\ \/ UNCHANGED <<wanted, since>>
         \/ wanted' = way /\ since' = 0 /\ way # "keep"
      /\ UNCHANGED <<pos, aim, last, stale, pushes, channel, underway, settling, display>>
  BY DEF Command
<1>2. /\ turned' \in BOOLEAN /\ late' \in BOOLEAN
      /\ turned' = FALSE => turned = FALSE /\ Standstill
      /\ late' = FALSE => late = FALSE /\ underway = NoMove
  <2>1. turned' = (turned \/ ~Standstill) /\ late' = (late \/ underway # NoMove)
    BY DEF Command
  <2>2. turned \in BOOLEAN /\ late \in BOOLEAN
    BY DEF ShutterTypes
  <2> QED  BY <2>1, <2>2 DEF Standstill
<1>3. Real' = Real
  BY <1>1 DEF Real
<1>4. ShutterTypes'
  BY <1>1, <1>2 DEF ShutterTypes
<1>5. ReportsOK'
  BY <1>1, <1>3 DEF ReportsOK, LastOf
<1>6. AgesOK'
  BY <1>1, <1>2 DEF AgesOK
<1>7. StandstillOK'
  BY <1>1, <1>2, <1>3 DEF StandstillOK, Standstill, BeforeLast
<1>8. DisplayOK'
  BY <1>1, <1>2, <1>3 DEF DisplayOK, Standstill, AgesOK, ReportsOK, LastOf
<1> QED  BY <1>4, <1>5, <1>6, <1>7, <1>8

LEMMA PushKeeps ==
  ASSUME CoverInv, Push
  PROVE  CoverInv'
<1> USE DEF CoverInv
<1>1. /\ pushes # <<>> /\ pushes' = Tail(pushes) /\ channel' = Head(pushes)
      /\ display' = Shown(channel', wanted', since', underway')
      /\ UNCHANGED <<pos, aim, last, stale, onWay>>
  BY DEF Push
<1>2. /\ channel' \in Reports /\ pushes' \in Seq(Reports) /\ pushes \in Seq(Reports)
      /\ LastOf(channel', pushes') = LastOf(channel, pushes)
  BY <1>1, LastOfTail DEF ShutterTypes, LastOf
<1>3. Real' = Real
  BY <1>1 DEF Real
<1>4. channel'.moving \in BOOLEAN
  BY <1>2 DEF Reports
<1>5. /\ channel'.moving = TRUE =>
           /\ underway' = IF underway = NoMove THEN 0 ELSE underway
           /\ settling' = (settling \/ underway = NoMove)
           /\ UNCHANGED <<wanted, since, turned, late>>
      /\ channel'.moving = FALSE =>
           /\ underway' = NoMove /\ settling' = FALSE
           /\ wanted' = "none" /\ since' = 0 /\ late' = FALSE
           /\ turned' = (turned /\ ~(Real = "none" /\ pushes' = <<>> /\ onWay = Nowhere))
  BY <1>4 DEF Push, Started
<1>6. /\ turned' \in BOOLEAN /\ late' \in BOOLEAN /\ settling' \in BOOLEAN
      /\ underway' \in -1 .. 3
      /\ turned' = FALSE => turned = FALSE \/ Real = "none"
      /\ channel'.moving = TRUE /\ settling' = FALSE => settling = FALSE /\ underway # NoMove
      /\ underway = NoMove /\ channel'.moving = TRUE => settling' = TRUE
  <2>1. /\ turned \in BOOLEAN /\ late \in BOOLEAN /\ settling \in BOOLEAN
        /\ underway \in -1 .. 3
    BY DEF ShutterTypes
  <2>2. CASE channel'.moving = TRUE
    <3>1. CASE underway = NoMove
      <4>1. settling' = (settling \/ underway = NoMove) /\ underway' = 0
        BY <1>5, <2>2, <3>1
      <4>2. settling' = TRUE
        BY <3>1, <4>1, Zenon
      <4> QED  BY <1>5, <2>1, <2>2, <3>1, <4>1, <4>2
    <3>2. CASE underway # NoMove
      <4>1. settling' = settling /\ underway' = underway
        BY <1>5, <2>1, <2>2, <3>2
      <4> QED  BY <1>5, <2>1, <2>2, <3>2, <4>1
    <3> QED  BY <3>1, <3>2
  <2>3. CASE channel'.moving = FALSE
    <3>1. /\ underway' = NoMove /\ settling' = FALSE /\ late' = FALSE
          /\ turned' = (turned /\ ~(Real = "none" /\ pushes' = <<>> /\ onWay = Nowhere))
      BY <1>5, <2>3
    <3>2. turned' \in BOOLEAN /\ (turned' = FALSE => turned = FALSE \/ Real = "none")
      <4>1. turned' \in BOOLEAN
        BY <3>1, Zenon
      <4>2. CASE Real = "none"
        BY <4>1, <4>2
      <4>3. CASE Real # "none"
        <5>1. turned' = turned \/ turned' = TRUE
          BY <2>1, <3>1, <4>3
        <5> QED  BY <4>1, <5>1
      <4> QED  BY <4>2, <4>3
    <3>3. ~(channel'.moving = TRUE)
      BY <2>3
    <3>4. late' = FALSE /\ settling' = FALSE /\ underway' = -1
      BY <3>1, Zenon DEF NoMove
    <3>5. late' \in BOOLEAN /\ settling' \in BOOLEAN
      BY <3>4, Zenon
    <3>6. underway' \in -1 .. 3
      BY <3>4
    <3> QED  BY <3>2, <3>3, <3>5, <3>6, Zenon
  <2> QED  BY <1>4, <2>2, <2>3
<1>7. display' \in Ways \cup {"none"}
  BY <1>1, <1>2, <1>5 DEF Shown, ShutterTypes, Reports
<1>8. ShutterTypes'
  BY <1>1, <1>2, <1>4, <1>5, <1>6, <1>7 DEF ShutterTypes
<1>9. ReportsOK'
  BY <1>1, <1>2, <1>3 DEF ReportsOK
<1>10. AgesOK'
  <2>1. CASE channel'.moving = TRUE
    BY <1>5, <1>6, <2>1 DEF AgesOK, NoMove, ShutterTypes
  <2>2. CASE channel'.moving = FALSE
    BY <1>5, <1>6, <2>2 DEF AgesOK, NoMove
  <2> QED  BY <1>4, <2>1, <2>2
<1>11. StandstillOK'
  <2> SUFFICES ASSUME turned' = FALSE
               PROVE  /\ Real # "none" => wanted' \in {"none", Real}
                      /\ stale # 0 /\ pushes' = <<>> => underway' < stale
                      /\ stale # 0 /\ pushes' # <<>> =>
                           stale = 1 /\ BeforeLast(channel', pushes').moving = FALSE
    BY <1>1, <1>3 DEF StandstillOK
  <2>1. Real # "none" => wanted' \in {"none", Real}
    BY <1>4, <1>5, <1>6 DEF StandstillOK
  <2>2. stale # 0 => /\ turned = FALSE /\ stale = 1
                     /\ BeforeLast(channel, pushes).moving = FALSE
    BY <1>1, <1>6 DEF StandstillOK, ReportsOK
  <2>3. /\ Len(pushes) \in Nat \ {0} /\ Head(pushes) = pushes[1]
        /\ Len(pushes') = Len(pushes) - 1
        /\ \A i \in 1 .. Len(pushes') : pushes'[i] = pushes[i + 1]
    BY <1>1, <1>2, HeadTailProperties, EmptySeq
  <2>4. pushes' = <<>> <=> Len(pushes') = 0
    BY <1>2, EmptySeq
  <2>5. ASSUME stale # 0, pushes' = <<>> PROVE underway' < stale
    <3>1. Len(pushes) = 1
      BY <2>3, <2>4, <2>5
    <3>2. underway = NoMove
      BY <2>2, <2>5, <3>1 DEF BeforeLast, AgesOK
    <3> QED  BY <1>4, <1>5, <2>2, <2>5, <3>2 DEF NoMove
  <2>6. ASSUME stale # 0, pushes' # <<>>
        PROVE  BeforeLast(channel', pushes').moving = FALSE
    <3>1. Len(pushes) > 1
      BY <2>3, <2>4, <2>6
    <3>2. BeforeLast(channel', pushes') = BeforeLast(channel, pushes)
      <4>1. CASE Len(pushes) = 2
        BY <1>1, <2>3, <4>1 DEF BeforeLast
      <4>2. CASE Len(pushes) > 2
        BY <1>1, <2>3, <4>2 DEF BeforeLast
      <4> QED  BY <2>3, <3>1, <4>1, <4>2
    <3> QED  BY <2>2, <2>6, <3>2
  <2> QED  BY <2>1, <2>2, <2>5, <2>6
<1>12. DisplayOK'
  <2>1. pushes' = <<>> /\ Real' # "none" => ShowsReal'
    BY <1>8, <1>9, <1>10, <1>11, ShownIsRealNext DEF MovesSeen
  <2> QED  BY <1>1, <2>1 DEF DisplayOK, ShowsReal
<1> QED  BY <1>8, <1>9, <1>10, <1>11, <1>12

LEMMA SettleCheckKeeps ==
  ASSUME CoverInv, SettleCheck
  PROVE  CoverInv'
<1> USE DEF CoverInv
<1>1. /\ underway >= 3 /\ settling' = FALSE
      /\ display' = IF channel.moving THEN Shown(channel, wanted, since, underway) ELSE display
      /\ UNCHANGED <<pos, aim, last, stale, pushes, onWay, channel, wanted, since,
                     underway, turned, late>>
  BY DEF SettleCheck, Settle, shutterVars
<1>2. Real' = Real
  BY <1>1 DEF Real
<1>3. underway \in 3 .. 3 /\ channel.moving = TRUE
  BY <1>1 DEF ShutterTypes, AgesOK, NoMove
<1>4. display' = Shown(channel, wanted, since, underway)
  BY <1>1, <1>3
<1>5. display' \in Ways \cup {"none"}
  BY <1>4 DEF Shown, ShutterTypes, Reports
<1>6. ShutterTypes'
  BY <1>1, <1>5 DEF ShutterTypes
<1>7. ReportsOK'
  BY <1>1, <1>2 DEF ReportsOK, LastOf
<1>8. AgesOK'
  BY <1>1, <1>3 DEF AgesOK, NoMove
<1>9. StandstillOK'
  BY <1>1, <1>2 DEF StandstillOK, BeforeLast
<1>10. DisplayOK'
  <2>1. pushes = <<>> /\ Real # "none" => ShowsReal
    BY ShownIsReal DEF MovesSeen
  <2> QED  BY <1>1, <1>2, <1>3, <1>4, <2>1 DEF DisplayOK, ShowsReal
<1> QED  BY <1>6, <1>7, <1>8, <1>9, <1>10

\* A report that comes after the others.
LEMMA Appended ==
  ASSUME ShutterTypes, NEW rep \in Reports
  PROVE  /\ Append(pushes, rep) \in Seq(Reports) /\ Append(pushes, rep) # <<>>
         /\ LastOf(channel, Append(pushes, rep)) = rep
         /\ BeforeLast(channel, Append(pushes, rep)) = LastOf(channel, pushes)
<1> DEFINE S == Reports
           q == Append(pushes, rep)
<1>1. pushes \in Seq(S) /\ rep \in S
  BY DEF ShutterTypes
<1> HIDE DEF S
<1>2. /\ q \in Seq(S) /\ Len(q) = Len(pushes) + 1 /\ Len(pushes) \in Nat
      /\ \A i \in 1 .. Len(pushes) : q[i] = pushes[i]
      /\ q[Len(q)] = rep /\ q # <<>>
  BY <1>1, AppendProperties, LenProperties
<1>3. pushes = <<>> <=> Len(pushes) = 0
  BY <1>1, EmptySeq
<1> HIDE DEF q
<1>4. LastOf(channel, q) = rep
  BY <1>2 DEF LastOf
<1>5. BeforeLast(channel, q) = LastOf(channel, pushes)
  <2>1. CASE pushes = <<>>
    BY <1>2, <1>3, <2>1 DEF BeforeLast, LastOf
  <2>2. CASE pushes # <<>>
    <3>1. Len(pushes) \in 1 .. Len(pushes) /\ Len(q) # 1 /\ Len(q) - 1 = Len(pushes)
      BY <1>2, <1>3, <2>2
    <3> QED  BY <1>2, <2>2, <3>1 DEF BeforeLast, LastOf
  <2> QED  BY <2>1, <2>2
<1> QED  BY <1>2, <1>4, <1>5 DEF q, S

\* A turn, a start or a stop.
LEMMA DriveKeeps ==
  ASSUME CoverInv, NEW p \in 0 .. Top, Drive(p), onWay' \in -2 .. Top
  PROVE  CoverInv'
<1> USE DEF CoverInv
<1> DEFINE way == Way(pos, p)
           rep == [moving |-> way # "none", way |-> last', level |-> pos]
<1>1. /\ aim' = p /\ UNCHANGED <<pos, channel, wanted, since, underway, settling,
                                 display, late>>
      /\ pushes' = IF way = Real THEN pushes ELSE Append(pushes, rep)
  BY DEF Drive, entityVars
<1>2. \/ way # Real /\ way # "none" /\ last' = way /\ stale' = 0
      \/ way # Real /\ way \notin {"none", last} /\ last' = last /\ stale' = 1
      \/ way # Real /\ way = "none" /\ last' = last /\ stale' = 0
      \/ way = Real /\ UNCHANGED <<last, stale>>
  BY DEF Drive
<1>3. turned' = \/ turned
                \/ Real # "none" /\ way # Real
                \/ way # "none" /\ wanted \notin {"none", way}
  BY DEF Drive
<1>4. /\ turned' \in BOOLEAN
      /\ turned' = FALSE =>
           /\ turned = FALSE
           /\ Real # "none" => way = Real
           /\ way # "none" => wanted \in {"none", way}
  <2>1. turned' \in BOOLEAN
    BY <1>3, Zenon
  <2>2. turned' = FALSE =>
          ~(turned \/ (Real # "none" /\ way # Real) \/ (way # "none" /\ wanted \notin {"none", way}))
    BY <1>3, Zenon
  <2>3. turned \in BOOLEAN
    BY DEF ShutterTypes
  <2> QED  BY <2>1, <2>2, <2>3
<1>5. Real' = way
  BY <1>1 DEF Real
<1>6. way \in Ways \cup {"none"} /\ Real \in Ways \cup {"none"}
  BY WayTypes DEF Real
<1>7. last' \in Ways /\ stale' \in 0 .. 3
  BY <1>2, <1>6 DEF ShutterTypes, Ways
<1> HIDE DEF way
<1>8. CASE way = Real
  <2>1. /\ UNCHANGED <<last, stale, pushes>> /\ Real' = Real
    BY <1>1, <1>2, <1>5, <1>8
  <2>2. ShutterTypes'
    BY <1>1, <1>4, <1>7, <2>1 DEF ShutterTypes
  <2>3. ReportsOK'
    BY <1>1, <2>1 DEF ReportsOK, LastOf
  <2>4. AgesOK'
    BY <1>1 DEF AgesOK
  <2>5. StandstillOK'
    BY <1>1, <1>4, <2>1 DEF StandstillOK, BeforeLast
  <2>6. DisplayOK'
    BY <1>1, <1>4, <2>1 DEF DisplayOK
  <2> QED  BY <2>2, <2>3, <2>4, <2>5, <2>6
<1>9. CASE way # Real
  <2>1. rep \in Reports
    BY <1>7 DEF Reports, ShutterTypes
  <2>2. /\ pushes' \in Seq(Reports) /\ pushes' # <<>>
        /\ LastOf(channel, pushes') = rep
        /\ BeforeLast(channel, pushes') = LastOf(channel, pushes)
    <3>1. pushes' = Append(pushes, rep)
      BY <1>1, <1>9
    <3> HIDE DEF rep
    <3> QED  BY <2>1, <3>1, Appended
  <2>3. ShutterTypes'
    BY <1>1, <1>4, <1>7, <2>2 DEF ShutterTypes
  <2>4. ReportsOK'
    <3>1. rep.moving = (way # "none") /\ rep.way = last'
      OBVIOUS
    <3>2. (way # "none") = TRUE <=> way # "none"
      OBVIOUS
    <3> HIDE DEF rep
    <3>3. LastOf(channel', pushes') = rep /\ (rep.moving = TRUE <=> Real' # "none")
      BY <1>1, <1>5, <2>2, <3>1, <3>2
    <3>4. /\ Real' # "none" /\ stale' = 0 => rep.way = Real'
          /\ stale' # 0 => Real' # "none"
      BY <1>2, <1>5, <1>6, <1>9, <3>1 DEF ShutterTypes, Ways
    <3> QED  BY <3>3, <3>4 DEF ReportsOK
  <2>5. AgesOK'
    BY <1>1 DEF AgesOK
  <2>6. StandstillOK'
    <3>1. turned' = FALSE => turned = FALSE /\ Real = "none"
      BY <1>4, <1>9, Zenon
    <3>2. Real = "none" => LastOf(channel, pushes).moving = FALSE
      <4>1. LastOf(channel, pushes) \in Reports
        <5>1. Len(pushes) \in Nat /\ (pushes # <<>> => pushes[Len(pushes)] \in Reports)
          BY LastOfTail, ElementOfSeq, EmptySeq, LenProperties DEF ShutterTypes
        <5> QED  BY <5>1 DEF LastOf, ShutterTypes
      <4> QED  BY <4>1 DEF ReportsOK, Reports
    <3> QED  BY <1>1, <1>2, <1>4, <1>5, <1>9, <2>2, <3>1, <3>2 DEF StandstillOK
  <2>7. DisplayOK'
    BY <2>2 DEF DisplayOK
  <2> QED  BY <2>3, <2>4, <2>5, <2>6, <2>7
<1> QED  BY <1>8, <1>9

LEMMA ObeyKeeps ==
  ASSUME CoverInv, Obey
  PROVE  CoverInv'
<1> DEFINE p == IF onWay = Halt THEN pos ELSE onWay
<1>1. onWay # Nowhere /\ onWay' = Nowhere /\ Drive(p)
  BY DEF Obey
<1>2. p \in 0 .. Top /\ onWay' \in -2 .. Top
  BY <1>1, CoverAssumption DEF CoverInv, ShutterTypes, Halt, Nowhere
<1> HIDE DEF p
<1> QED  BY <1>1, <1>2, DriveKeeps

LEMMA MoveElsewhereKeeps ==
  ASSUME CoverInv, MoveElsewhere
  PROVE  CoverInv'
<1>1. PICK p \in {0, Top} : p # pos /\ Drive(p)
  BY DEF MoveElsewhere
<1>2. p \in 0 .. Top /\ onWay' \in -2 .. Top
  BY <1>1, CoverAssumption DEF MoveElsewhere, CoverInv, ShutterTypes
<1> QED  BY <1>1, <1>2, DriveKeeps

LEMMA RefuseKeeps ==
  ASSUME CoverInv, Refuse
  PROVE  CoverInv'
<1> USE DEF CoverInv
<1>1. /\ onWay' = Nowhere
      /\ UNCHANGED <<pos, aim, last, stale, pushes, channel, wanted, since, underway,
                     settling, display, turned, late>>
  BY DEF Refuse, entityVars
<1>2. Real' = Real
  BY <1>1 DEF Real
<1>3. ShutterTypes'
  BY <1>1, CoverAssumption DEF ShutterTypes, Nowhere
<1>4. ReportsOK' /\ AgesOK'
  BY <1>1, <1>2 DEF ReportsOK, AgesOK, LastOf
<1>5. StandstillOK' /\ DisplayOK'
  BY <1>1, <1>2 DEF StandstillOK, BeforeLast, DisplayOK
<1> QED  BY <1>3, <1>4, <1>5

LEMMA CorrectKeeps ==
  ASSUME CoverInv, Correct
  PROVE  CoverInv'
<1> USE DEF CoverInv
<1> DEFINE rep == [moving |-> TRUE, way |-> last', level |-> channel.level]
<1>1. /\ stale # 0 /\ stale' = 0 /\ last' = Real /\ pushes' = Append(pushes, rep)
      /\ UNCHANGED <<pos, aim, onWay, channel, wanted, since, underway,
                     settling, display, turned, late>>
  BY DEF Correct, entityVars
<1>2. Real' = Real /\ Real # "none"
  BY <1>1 DEF Real, ReportsOK
<1>3. last' \in Ways
  BY <1>1, <1>2, WayTypes DEF Real
<1>4. rep \in Reports /\ rep.moving = TRUE /\ rep.way = last'
  BY <1>3 DEF ShutterTypes, Reports
<1> HIDE DEF rep
<1>5. /\ pushes' \in Seq(Reports) /\ pushes' # <<>>
      /\ LastOf(channel, pushes') = rep
  BY <1>1, <1>4, Appended
<1>6. ShutterTypes'
  BY <1>1, <1>3, <1>5 DEF ShutterTypes
<1>7. ReportsOK'
  BY <1>1, <1>2, <1>4, <1>5 DEF ReportsOK
<1>8. AgesOK'
  BY <1>1 DEF AgesOK
<1>9. StandstillOK' /\ DisplayOK'
  BY <1>1, <1>2, <1>5 DEF StandstillOK, DisplayOK
<1> QED  BY <1>6, <1>7, <1>8, <1>9

LEMMA GetOnKeeps ==
  ASSUME CoverInv, NEW p \in 0 .. Top, GetOn(p)
  PROVE  CoverInv'
<1> USE DEF CoverInv
<1> DEFINE rep == [moving |-> FALSE, way |-> last, level |-> p]
<1>1. /\ Real # "none" /\ stale = 0 /\ stale' = 0 /\ pos' = p
      /\ p = IF Real = "opening" THEN pos + 1 ELSE pos - 1
      /\ pushes' = IF p # aim THEN pushes ELSE Append(pushes, rep)
      /\ UNCHANGED <<aim, last, onWay, channel, wanted, since, underway,
                     settling, display, turned, late>>
  BY DEF GetOn, entityVars
<1>2. Real' = IF p = aim THEN "none" ELSE Real
  <2>1. pos \in Int /\ aim \in Int /\ p \in Int
    BY DEF ShutterTypes
  <2>2. CASE aim > pos
    BY <1>1, <2>1, <2>2 DEF Real, Way
  <2>3. CASE aim < pos
    BY <1>1, <2>1, <2>3 DEF Real, Way
  <2>4. aim # pos
    BY <1>1, <2>1 DEF Real, Way
  <2> QED  BY <2>1, <2>2, <2>3, <2>4
<1>3. rep \in Reports /\ rep.moving = FALSE
  BY DEF ShutterTypes, Reports
<1> HIDE DEF rep
<1>4. CASE p # aim
  <2>1. pushes' = pushes /\ Real' = Real
    BY <1>1, <1>2, <1>4
  <2>2. ShutterTypes'
    BY <1>1, <2>1 DEF ShutterTypes
  <2>3. ReportsOK' /\ AgesOK'
    BY <1>1, <2>1 DEF ReportsOK, AgesOK, LastOf
  <2>4. StandstillOK' /\ DisplayOK'
    BY <1>1, <2>1 DEF StandstillOK, BeforeLast, DisplayOK
  <2> QED  BY <2>2, <2>3, <2>4
<1>5. CASE p = aim
  <2>1. pushes' = Append(pushes, rep) /\ Real' = "none"
    BY <1>1, <1>2, <1>5
  <2>2. pushes' \in Seq(Reports) /\ LastOf(channel, pushes') = rep
    BY <1>3, <2>1, Appended
  <2>3. ShutterTypes'
    BY <1>1, <2>2 DEF ShutterTypes
  <2>4. ReportsOK' /\ AgesOK'
    BY <1>1, <1>3, <2>1, <2>2 DEF ReportsOK, AgesOK
  <2>5. StandstillOK' /\ DisplayOK'
    BY <1>1, <2>1 DEF StandstillOK, DisplayOK
  <2> QED  BY <2>3, <2>4, <2>5
<1> QED  BY <1>4, <1>5

LEMMA SecondKeeps ==
  ASSUME CoverInv, Second
  PROVE  CoverInv'
<1> USE DEF CoverInv
<1>1. /\ pushes = <<>> /\ stale <= 2 /\ ~(settling /\ underway >= 3)
      /\ since' = IF wanted = "none" THEN 0 ELSE IF since < 3 THEN since + 1 ELSE since
      /\ underway' = IF underway = NoMove THEN NoMove
                     ELSE IF underway < 3 THEN underway + 1 ELSE underway
      /\ stale' = IF stale = 0 THEN 0 ELSE stale + 1
      /\ UNCHANGED <<pos, aim, last, pushes, onWay, channel, wanted, settling, display,
                     turned, late>>
  BY DEF Second, Grace, Settle, Older, Correction
<1>2. Real' = Real
  BY <1>1 DEF Real
<1>3. ShutterTypes'
  BY <1>1 DEF ShutterTypes, NoMove
<1>4. ReportsOK'
  BY <1>1, <1>2 DEF ReportsOK, LastOf, ShutterTypes
<1>5. AgesOK'
  <2>1. settling \in BOOLEAN /\ since \in 0 .. 3 /\ underway \in -1 .. 3
    BY DEF ShutterTypes
  <2>2. UNCHANGED <<channel, settling, wanted, late>>
    BY <1>1
  <2>3. /\ since' = IF wanted = "none" THEN 0 ELSE IF since < 3 THEN since + 1 ELSE since
        /\ underway' = IF underway = NoMove THEN NoMove
                       ELSE IF underway < 3 THEN underway + 1 ELSE underway
    BY <1>1
  <2> QED  BY <2>1, <2>2, <2>3 DEF AgesOK, NoMove
<1>6. StandstillOK'
  BY <1>1, <1>2 DEF StandstillOK, ShutterTypes, NoMove
<1>7. DisplayOK'
  BY <1>1, <1>2 DEF DisplayOK, ShutterTypes
<1> QED  BY <1>3, <1>4, <1>5, <1>6, <1>7

LEMMA CoverStep ==
  ASSUME CoverInv, [CoverNext]_coverVars
  PROVE  CoverInv'
<1>1. channel.level \in -2 .. Top /\ Top \in -2 .. Top /\ 0 \in -2 .. Top
  BY CoverAssumption DEF CoverInv, ShutterTypes, Reports
<1>2. ASSUME OpenCover \/ CloseCover \/ StopCover \/ Tilt PROVE CoverInv'
  <2>1. CASE OpenCover
    BY <1>1, <2>1, CommandKeeps DEF OpenCover, Ways
  <2>2. CASE CloseCover
    BY <1>1, <2>2, CommandKeeps DEF CloseCover, Ways
  <2>3. CASE StopCover
    <3>1. Halt \in -2 .. Top
      BY CoverAssumption DEF Halt
    <3> QED  BY <2>3, <3>1, CommandKeeps DEF StopCover
  <2>4. CASE Tilt
    BY <1>1, <2>4, CommandKeeps DEF Tilt
  <2> QED  BY <1>2, <2>1, <2>2, <2>3, <2>4
<1>3. ASSUME NEW p \in 0 .. Top, SetPosition(p) PROVE CoverInv'
  <2>1. p \in -2 .. Top /\ Way(channel.level, p) \in Ways \cup {"none", "keep"}
    BY WayTypes
  <2> QED  BY <1>3, <2>1, CommandKeeps DEF SetPosition
<1>4. CASE UNCHANGED coverVars
  <2>1. UNCHANGED <<pos, aim, last, stale, pushes, onWay, channel, wanted, since,
                    underway, settling, display, turned, late>>
    BY <1>4 DEF coverVars, shutterVars, entityVars
  <2>2. Real' = Real
    BY <2>1 DEF Real
  <2>3. ShutterTypes' /\ ReportsOK' /\ AgesOK'
    BY <2>1, <2>2 DEF CoverInv, ShutterTypes, ReportsOK, AgesOK, LastOf
  <2>4. StandstillOK' /\ DisplayOK'
    BY <2>1, <2>2 DEF CoverInv, StandstillOK, BeforeLast, DisplayOK
  <2> QED  BY <2>3, <2>4 DEF CoverInv
<1> QED
  BY <1>2, <1>3, <1>4, PushKeeps, SettleCheckKeeps, ObeyKeeps, RefuseKeeps,
     MoveElsewhereKeeps, CorrectKeeps, GetOnKeeps, SecondKeeps DEF CoverNext

LEMMA CoverStart == CoverInit => CoverInv
<1> SUFFICES ASSUME CoverInit PROVE CoverInv
  OBVIOUS
<1>1. /\ pos \in 0 .. Top /\ aim = pos /\ last \in Ways /\ stale = 0
      /\ pushes = <<>> /\ onWay = -1
      /\ channel = [moving |-> FALSE, way |-> last, level |-> pos]
      /\ wanted = "none" /\ since = 0 /\ underway = -1 /\ settling = FALSE
      /\ display = "none" /\ turned = FALSE /\ late = FALSE
  BY DEF CoverInit, Ways, Nowhere, NoMove
<1>2. Real = "none"
  BY <1>1 DEF Real, Way
<1>3. channel \in Reports /\ channel.moving = FALSE
  BY <1>1 DEF Reports
<1>4. ShutterTypes
  <2>1. pushes \in Seq(Reports)
    BY <1>1, EmptySeq
  <2>2. /\ aim \in 0 .. Top /\ stale \in 0 .. 3 /\ onWay \in -2 .. Top
        /\ since \in 0 .. 3 /\ underway \in -1 .. 3
    BY <1>1, CoverAssumption
  <2>3. settling \in BOOLEAN /\ turned \in BOOLEAN /\ late \in BOOLEAN
    BY <1>1, Zenon
  <2>4. wanted \in Ways \cup {"none"} /\ display \in Ways \cup {"none"}
    BY <1>1
  <2> QED  BY <1>1, <1>3, <2>1, <2>2, <2>3, <2>4, Zenon DEF ShutterTypes
<1>5. ReportsOK /\ AgesOK
  BY <1>1, <1>2, <1>3 DEF ReportsOK, AgesOK, LastOf, NoMove
<1>6. StandstillOK /\ DisplayOK
  BY <1>1, <1>2 DEF StandstillOK, DisplayOK
<1> QED  BY <1>4, <1>5, <1>6 DEF CoverInv

LEMMA CoverInvAlways == CoverSpec => []CoverInv
<1>1. CoverInv /\ [CoverNext]_coverVars => CoverInv'
  BY CoverStep
<1> QED  BY <1>1, CoverStart, PTL DEF CoverSpec

\* The types of Cover, and that it settles only while a motor is under way.
THEOREM CoverTypes == CoverSpec => []CoverTypeOK
<1>1. ASSUME CoverInv PROVE CoverTypeOK
  <2>1. channel.level \in 0 .. Top
    BY <1>1 DEF CoverInv, ShutterTypes, Reports
  <2>2. /\ {wanted, display} \subseteq {"none", "opening", "closing"}
        /\ settling \in BOOLEAN /\ channel.moving \in BOOLEAN
    BY <1>1 DEF CoverInv, ShutterTypes, Ways, Reports
  <2>3. /\ settling => underway # NoMove
        /\ underway # NoMove <=> channel.moving
    BY <1>1, <2>2 DEF CoverInv, AgesOK
  <2> QED  BY <1>1, <2>1, <2>2, <2>3 DEF CoverInv, ShutterTypes, CoverTypeOK, Correction, Grace, Settle
<1> QED  BY <1>1, CoverInvAlways, PTL

\* For a cover of any height and any number of moves: a move that starts from a
\* standstill never shows the wrong direction, and once the refresh after its start
\* is over every move without further commands shows the real one (is_opening,
\* is_closing and _async_refresh_moving_state in cover.py).
THEOREM DirectionShown == CoverSpec => []DirectionIsReal
<1>1. CoverInv => DirectionIsReal
  BY DEF CoverInv, DisplayOK, ShutterTypes, DirectionIsReal
<1> QED  BY <1>1, CoverInvAlways, PTL

-----------------------------------------------------------------------------
(* The types of all of them *)

\* The types of OptimisticState, for any number of calls and reports.
LEMMA SwitchTypes == OptimisticSpec => []OptimisticTypeOK
<1>1. GuessInv => OptimisticTypeOK
  BY DEF GuessInv
<1> QED  BY <1>1, GuessInvAlways, PTL

\* Every entity and what the bridge does for one keep their types, whatever the
\* others do: a siren's stop is due only while it is on, a timer runs only for the
\* request that armed it, and the HCU is told of announced types only.
THEOREM AllTypes == EntitiesSpec => []TypesOK
BY SirenTypes, SwitchTypes, ClimateTypes, CoverTypes, AutoOffTypes, StatusTypes, PTL
   DEF EntitiesSpec, TypesOK

-----------------------------------------------------------------------------
(* The tables of the commands *)

\* No action is of two kinds.
LEMMA KindsApart ==
  ASSUME NEW a
  PROVE  /\ a \in LightActions =>
              a \notin SwitchActions /\ a # "stop" /\ a \notin ShadingLevelActions
              /\ a \notin ShadingTiltActions /\ a \notin HeatingModeActions
              /\ a \notin DOMAIN ActionAspect
         /\ a \in SwitchActions =>
              a # "stop" /\ a \notin ShadingLevelActions /\ a \notin ShadingTiltActions
              /\ a \notin HeatingModeActions /\ a \notin DOMAIN ActionAspect
         /\ a = "stop" =>
              a \notin ShadingLevelActions /\ a \notin ShadingTiltActions
              /\ a \notin HeatingModeActions /\ a \notin DOMAIN ActionAspect
         /\ a \in ShadingLevelActions =>
              a \notin ShadingTiltActions /\ a \notin HeatingModeActions
              /\ a \notin DOMAIN ActionAspect
         /\ a \in ShadingTiltActions =>
              a \notin HeatingModeActions /\ a \notin DOMAIN ActionAspect
         /\ a \in HeatingModeActions => a \notin DOMAIN ActionAspect
         /\ a = "setSetPointTemperature" =>
              a \notin LightActions /\ a \notin SwitchActions /\ a # "stop"
              /\ a \notin ShadingLevelActions /\ a \notin ShadingTiltActions
              /\ a \notin HeatingModeActions /\ a \notin DOMAIN ActionAspect
  <1> USE DEF LightActions, LightColorActions, SwitchActions, ShadingLevelActions,
              ShadingTiltActions, HeatingModeActions, ActionAspect
  <1>1. CASE a \in LightActions
    BY <1>1
  <1>2. CASE a \in SwitchActions
    BY <1>2
  <1>3. CASE a = "stop"
    BY <1>3
  <1>4. CASE a \in ShadingLevelActions \cup ShadingTiltActions
    BY <1>4
  <1>5. CASE a \in HeatingModeActions \cup {"setSetPointTemperature"}
    BY <1>5
  <1> QED BY <1>1, <1>2, <1>3, <1>4, <1>5

\* The light actions are setDimLevel, setOpticalSignal and those of the colours.
LEMMA LightKinds ==
  ASSUME NEW a
  PROVE  /\ a \in LightActions <=>
              a = "setDimLevel" \/ a = "setOpticalSignal" \/ a \in LightColorActions
         /\ a \in LightColorActions => a # "setDimLevel" /\ a # "setOpticalSignal"
  BY DEF LightActions, LightColorActions

\* The setting and the overridden settings of each kind of command.
LEMMA OffSpec ==
  ASSUME NEW cmd, LightsOff(cmd)
  PROVE  /\ CommandAspect(cmd) = "light_off"
         /\ ExtraSupersededAspects(cmd) =
              {"dim_level", "light_color", "optical_signal", "switch_state"}
  <1> DEFINE a == Action(cmd)
  <1>1. a \in LightActions
    BY DEF LightsOff
  <1>2. a \notin {"stop"} \cup ShadingLevelActions \cup ShadingTiltActions
    BY <1>1, KindsApart
  <1>3. CommandAspect(cmd) = "light_off"
    BY <1>1, KindsApart, Zenon DEF CommandAspect
  <1>4. ExtraSupersededAspects(cmd) =
          {"dim_level", "light_color", "optical_signal", "switch_state"}
    BY <1>1, <1>2, KindsApart, Zenon DEF ExtraSupersededAspects
  <1> QED BY <1>3, <1>4

\* A light that is switched on or recoloured.
LEMMA LightSpec ==
  ASSUME NEW cmd, Action(cmd) \in LightActions, ~LightsOff(cmd)
  PROVE  /\ Action(cmd) = "setDimLevel" => CommandAspect(cmd) = "dim_level"
         /\ Action(cmd) = "setOpticalSignal" => CommandAspect(cmd) = "optical_signal"
         /\ Action(cmd) \in LightColorActions => CommandAspect(cmd) = "light_color"
         /\ ExtraSupersededAspects(cmd) = LightExtras(cmd)
  <1> DEFINE a == Action(cmd)
  <1>1. a \notin {"stop"} \cup ShadingLevelActions \cup ShadingTiltActions
    BY KindsApart
  <1>2. ASSUME a = "setDimLevel"  PROVE CommandAspect(cmd) = "dim_level"
    <2>1. a # "setOpticalSignal" /\ a \notin LightColorActions
      BY <1>2 DEF LightColorActions
    <2> QED BY <1>2, <2>1, KindsApart, Zenon DEF CommandAspect
  <1>3. ASSUME a = "setOpticalSignal"  PROVE CommandAspect(cmd) = "optical_signal"
    <2>1. a # "setDimLevel" /\ a \notin LightColorActions
      BY <1>3 DEF LightColorActions
    <2> QED BY <1>3, <2>1, KindsApart, Zenon DEF CommandAspect
  <1>4. ASSUME a \in LightColorActions  PROVE CommandAspect(cmd) = "light_color"
    BY <1>4, LightKinds, KindsApart, Zenon DEF CommandAspect
  <1>5. ExtraSupersededAspects(cmd) = LightExtras(cmd)
    BY <1>1, KindsApart, Zenon DEF ExtraSupersededAspects
  <1> QED BY <1>2, <1>3, <1>4, <1>5

\* A command that is not a light command turns no light off.
LEMMA NotLight ==
  ASSUME NEW cmd, Action(cmd) \notin LightActions
  PROVE  ~LightsOff(cmd) /\ Action(cmd) # "setDimLevel"
         /\ Action(cmd) # "setOpticalSignal" /\ Action(cmd) \notin LightColorActions
  BY LightKinds DEF LightsOff

\* A switch.
LEMMA SwitchSpec ==
  ASSUME NEW cmd, Action(cmd) \in SwitchActions
  PROVE  /\ CommandAspect(cmd) = "switch_state"
         /\ ExtraSupersededAspects(cmd) = SwitchExtras(cmd)
  <1> DEFINE a == Action(cmd)
  <1>1. a \notin LightActions
    BY KindsApart
  <1>2. a \notin {"stop"} \cup ShadingLevelActions \cup ShadingTiltActions
    BY KindsApart
  <1>3. CommandAspect(cmd) = "switch_state"
    BY <1>1, NotLight, KindsApart, Zenon DEF CommandAspect
  <1>4. ExtraSupersededAspects(cmd) = SwitchExtras(cmd)
    BY <1>1, <1>2, NotLight, KindsApart, Zenon DEF ExtraSupersededAspects
  <1> QED BY <1>3, <1>4

\* A shading that moves or stops.
LEMMA ShadingSpec ==
  ASSUME NEW cmd,
         Action(cmd) \in {"stop"} \cup ShadingLevelActions \cup ShadingTiltActions
  PROVE  /\ Action(cmd) = "stop" => CommandAspect(cmd) = "shading_stop"
         /\ Action(cmd) \in ShadingLevelActions => CommandAspect(cmd) = "shading_level"
         /\ Action(cmd) \in ShadingTiltActions => CommandAspect(cmd) = "shading_tilt"
         /\ Action(cmd) = "stop" =>
              ExtraSupersededAspects(cmd) = {"shading_level", "shading_tilt"}
         /\ "shading_stop" \in {CommandAspect(cmd)} \cup ExtraSupersededAspects(cmd)
         /\ CommandAspect(cmd) \notin ExtraSupersededAspects(cmd)
  <1> DEFINE a == Action(cmd)
  <1>1. a \notin LightActions /\ a \notin SwitchActions /\ a \notin HeatingModeActions
    BY KindsApart
  <1>2. ASSUME a = "stop"  PROVE CommandAspect(cmd) = "shading_stop"
    BY <1>1, <1>2, NotLight, KindsApart, Zenon DEF CommandAspect
  <1>3. ASSUME a \in ShadingLevelActions  PROVE CommandAspect(cmd) = "shading_level"
    BY <1>1, <1>3, NotLight, KindsApart, Zenon DEF CommandAspect
  <1>4. ASSUME a \in ShadingTiltActions  PROVE CommandAspect(cmd) = "shading_tilt"
    BY <1>1, <1>4, NotLight, KindsApart, Zenon DEF CommandAspect
  <1>5. ExtraSupersededAspects(cmd) = ShadingExtras(cmd)
    BY <1>1, NotLight, KindsApart, Zenon DEF ExtraSupersededAspects
  <1>6. ASSUME a = "stop"  PROVE ShadingExtras(cmd) = {"shading_level", "shading_tilt"}
    <2>1. a # "setFavoriteShadingPosition"
      BY <1>6
    <2> QED BY <1>6, <2>1, Zenon DEF ShadingExtras
  <1>7. ASSUME a = "setFavoriteShadingPosition"
        PROVE  ShadingExtras(cmd) = {"shading_stop", "shading_tilt"} /\ a \in ShadingLevelActions
    <2>1. a # "stop" /\ a \in ShadingLevelActions
      BY <1>7 DEF ShadingLevelActions
    <2> QED BY <1>7, <2>1, Zenon DEF ShadingExtras
  <1>8. ASSUME a # "stop", a # "setFavoriteShadingPosition"
        PROVE  ShadingExtras(cmd) = {"shading_stop"}
    BY <1>8, Zenon DEF ShadingExtras
  <1> QED BY <1>2, <1>3, <1>4, <1>5, <1>6, <1>7, <1>8

\* A mode of a heating group.
LEMMA HeatingSpec ==
  ASSUME NEW cmd, Action(cmd) \in HeatingModeActions
  PROVE  /\ CommandAspect(cmd) = "heating_control_mode"
         /\ ExtraSupersededAspects(cmd) = HeatingExtras(cmd)
  <1> DEFINE a == Action(cmd)
  <1>1. a \notin LightActions /\ a \notin SwitchActions
    BY KindsApart
  <1>2. a \notin {"stop"} \cup ShadingLevelActions \cup ShadingTiltActions
    BY KindsApart
  <1>3. CommandAspect(cmd) = "heating_control_mode"
    BY <1>1, <1>2, NotLight, KindsApart, Zenon DEF CommandAspect
  <1>4. ExtraSupersededAspects(cmd) = HeatingExtras(cmd)
    BY <1>1, <1>2, NotLight, KindsApart, Zenon DEF ExtraSupersededAspects
  <1> QED BY <1>3, <1>4

\* A set point of a heating group.
LEMMA SetPointSpec ==
  ASSUME NEW cmd, Action(cmd) = "setSetPointTemperature"
  PROVE  CommandAspect(cmd) = "setSetPointTemperature"
  <1> DEFINE a == Action(cmd)
  <1>1. a \notin LightActions
    BY KindsApart
  <1>2. CommandAspect(cmd) = a
    BY <1>1, NotLight, KindsApart, Zenon DEF CommandAspect
  <1> QED BY <1>2

-----------------------------------------------------------------------------
\* The newer command replaces what the older one asked for.
Replaces(b, a) == CommandAspect(a) \in {CommandAspect(b)} \cup ExtraSupersededAspects(b)

AsksOff(cmd) == LightsOff(cmd) \/ (Action(cmd) \in SwitchActions /\ BodyIs(cmd, "on", FALSE))
AsksOn(cmd) ==
  \/ Action(cmd) \in LightActions /\ ~LightsOff(cmd)
  \/ Action(cmd) \in SwitchActions

\* Only switch commands carry the key the power is read from, besides the lights.
LEMMA PowerCases ==
  ASSUME NEW cmd \in Commands
  PROVE  /\ Power(cmd) \in {"on", "off", "none"}
         /\ Power(cmd) = "off" => AsksOff(cmd)
         /\ Power(cmd) = "on" => AsksOn(cmd)
  <1>1. Has(cmd, "on") => Action(cmd) \in SwitchActions
    BY CommandsAssumption DEF KeyUsers
  <1>2. LightsOff(cmd) => Action(cmd) \in LightActions
    BY DEF LightsOff
  <1>3. Action(cmd) \in SwitchActions => Action(cmd) \notin LightActions
    BY KindsApart
  <1>4. \A v : BodyIs(cmd, "on", v) => Action(cmd) \in SwitchActions
    BY <1>1 DEF BodyIs
  <1>5. ~(BodyIs(cmd, "on", TRUE) /\ BodyIs(cmd, "on", FALSE))
    BY DEF BodyIs
  <1>6. CASE LightsOff(cmd) \/ BodyIs(cmd, "on", FALSE)
    <2>1. ~((~LightsOff(cmd) /\ Action(cmd) \in LightActions) \/ BodyIs(cmd, "on", TRUE))
      BY <1>2, <1>3, <1>4, <1>5, <1>6
    <2>2. Power(cmd) = "off"
      BY <1>6, <2>1, Zenon DEF Power
    <2> QED BY <1>4, <1>6, <2>2 DEF AsksOff
  <1>7. CASE /\ ~(LightsOff(cmd) \/ BodyIs(cmd, "on", FALSE))
             /\ (~LightsOff(cmd) /\ Action(cmd) \in LightActions) \/ BodyIs(cmd, "on", TRUE)
    <2>1. Power(cmd) = "on"
      BY <1>7, Zenon DEF Power
    <2> QED BY <1>4, <1>7, <2>1 DEF AsksOn
  <1>8. CASE /\ ~(LightsOff(cmd) \/ BodyIs(cmd, "on", FALSE))
             /\ ~((~LightsOff(cmd) /\ Action(cmd) \in LightActions) \/ BodyIs(cmd, "on", TRUE))
    <2>1. Power(cmd) = "none"
      BY <1>8, Zenon DEF Power
    <2> QED BY <2>1
  <1> QED BY <1>6, <1>7, <1>8

\* Whatever turns an output off replaces whatever turned it on ...
LEMMA OffReplacesOn ==
  ASSUME NEW a, NEW b, AsksOn(a), AsksOff(b)
  PROVE  Replaces(b, a)
  <1>1. CommandAspect(a) \in {"dim_level", "light_color", "optical_signal", "switch_state"}
    BY LightKinds, LightSpec, SwitchSpec DEF AsksOn
  <1>2. CASE LightsOff(b)
    BY <1>1, <1>2, OffSpec DEF Replaces
  <1>3. CASE Action(b) \in SwitchActions /\ BodyIs(b, "on", FALSE)
    BY <1>1, <1>3, SwitchSpec DEF Replaces, SwitchExtras
  <1> QED BY <1>2, <1>3 DEF AsksOff

\* ... and the other way round.
LEMMA OnReplacesOff ==
  ASSUME NEW a, NEW b, AsksOff(a), AsksOn(b)
  PROVE  Replaces(b, a)
  <1>1. CommandAspect(a) \in {"light_off", "switch_state"}
    BY OffSpec, SwitchSpec DEF AsksOff
  <1>2. CASE Action(b) \in LightActions /\ ~LightsOff(b)
    BY <1>1, <1>2, LightSpec DEF Replaces, LightExtras
  <1>3. CASE Action(b) \in SwitchActions
    BY <1>1, <1>3, SwitchSpec DEF Replaces, SwitchExtras
  <1> QED BY <1>2, <1>3 DEF AsksOn

\* Only the shading commands and the stop ask for a motion.
LEMMA MotionCases ==
  ASSUME NEW cmd
  PROVE  /\ Motion(cmd) \in {"stop", "move", "none"}
         /\ Motion(cmd) = "stop" => Action(cmd) = "stop"
         /\ Motion(cmd) = "move" => Action(cmd) \in ShadingLevelActions \cup ShadingTiltActions
  <1> DEFINE moves == Action(cmd) \in ShadingLevelActions \cup ShadingTiltActions
  <1>1. ~(Action(cmd) = "stop" /\ moves)
    BY KindsApart
  <1>2. CASE Action(cmd) = "stop"
    BY <1>1, <1>2, Zenon DEF Motion
  <1>3. CASE moves
    BY <1>1, <1>3, Zenon DEF Motion
  <1>4. CASE ~moves /\ Action(cmd) # "stop"
    BY <1>4, Zenon DEF Motion
  <1> QED BY <1>2, <1>3, <1>4

\* A stop and a move replace each other.
LEMMA StopAndMove ==
  ASSUME NEW a, NEW b, Opposed(Motion(a), Motion(b))
  PROVE  Replaces(b, a)
  <1>1. CASE Motion(a) = "stop" /\ Motion(b) = "move"
    BY <1>1, MotionCases, ShadingSpec DEF Replaces
  <1>2. CASE Motion(a) = "move" /\ Motion(b) = "stop"
    BY <1>2, MotionCases, ShadingSpec DEF Replaces
  <1> QED BY <1>1, <1>2, MotionCases DEF Opposed

-----------------------------------------------------------------------------
\* What a command decides, by the body key that carries it.
LEMMA Deciders ==
  ASSUME NEW cmd
  PROVE  /\ "dimLevel" \in FieldUpdates(cmd) =>
              Action(cmd) \in LightActions /\ ~LightsOff(cmd) /\ Has(cmd, "dimLevel")
         /\ "simpleRGBColorState" \in FieldUpdates(cmd) =>
              /\ Action(cmd) \in {"setSimpleRGBColorDimLevel", "setOpticalSignal"}
              /\ ~LightsOff(cmd) /\ Has(cmd, "simpleRGBColorState")
         /\ "primary_level" \in FieldUpdates(cmd) =>
              /\ Action(cmd) \in ShadingLevelActions
              /\ Has(cmd, "shutterLevel") \/ Has(cmd, "primaryShadingLevel")
         /\ "setPointTemperature" \in FieldUpdates(cmd) =>
              \/ Action(cmd) \in {"setSetPointTemperature", "setControlMode"}
                   /\ Has(cmd, "setPointTemperature")
              \/ Action(cmd) = "activatePartyMode" /\ Has(cmd, "temperature")
         /\ FieldUpdates(cmd) \subseteq
              {"dimLevel", "simpleRGBColorState", "primary_level", "setPointTemperature"}
  <1> DEFINE a == Action(cmd)
  <1> DEFINE light == a \in LightActions /\ ~LightsOff(cmd)
  <1>1. /\ a \in LightActions =>
             /\ a # "setShutterLevel" /\ a # "setPrimaryShadingLevel" /\ a # "activatePartyMode"
             /\ a \notin {"setSetPointTemperature", "setControlMode"}
        /\ a = "setShutterLevel" \/ a = "setPrimaryShadingLevel" => a \in ShadingLevelActions
    BY DEF LightActions, LightColorActions, ShadingLevelActions
  <1>2. CASE a = "setShutterLevel"
    <2>1. a # "setPrimaryShadingLevel" /\ a # "activatePartyMode" /\ ~light
          /\ a \notin {"setSetPointTemperature", "setControlMode"}
      BY <1>1, <1>2
    <2>2. DecidedBy(cmd) = {<<"shutterLevel", "primary_level">>}
      BY <1>2, <2>1, Zenon DEF DecidedBy
    <2> QED BY <1>1, <1>2, <2>2 DEF FieldUpdates
  <1>3. CASE a = "setPrimaryShadingLevel"
    <2>1. a # "setShutterLevel" /\ a # "activatePartyMode" /\ ~light
          /\ a \notin {"setSetPointTemperature", "setControlMode"}
      BY <1>1, <1>3
    <2>2. DecidedBy(cmd) = {<<"primaryShadingLevel", "primary_level">>}
      BY <1>3, <2>1, Zenon DEF DecidedBy
    <2> QED BY <1>1, <1>3, <2>2 DEF FieldUpdates
  <1>4. CASE a \in {"setSetPointTemperature", "setControlMode"}
    <2>1. a # "setShutterLevel" /\ a # "setPrimaryShadingLevel" /\ a # "activatePartyMode" /\ ~light
      BY <1>1, <1>4
    <2>2. DecidedBy(cmd) = {<<"setPointTemperature", "setPointTemperature">>}
      BY <1>4, <2>1, Zenon DEF DecidedBy
    <2> QED BY <1>4, <2>2 DEF FieldUpdates
  <1>5. CASE a = "activatePartyMode"
    <2>1. a # "setShutterLevel" /\ a # "setPrimaryShadingLevel" /\ ~light
          /\ a \notin {"setSetPointTemperature", "setControlMode"}
      BY <1>1, <1>5
    <2>2. DecidedBy(cmd) = {<<"temperature", "setPointTemperature">>}
      BY <1>5, <2>1, Zenon DEF DecidedBy
    <2> QED BY <1>5, <2>2 DEF FieldUpdates
  <1>6. CASE light
    <2>1. a # "setShutterLevel" /\ a # "setPrimaryShadingLevel" /\ a # "activatePartyMode"
          /\ a \notin {"setSetPointTemperature", "setControlMode"}
      BY <1>1, <1>6
    <2>2. DecidedBy(cmd) = {<<"dimLevel", "dimLevel">>}
               \cup {p \in {<<"simpleRGBColorState", "simpleRGBColorState">>} :
                       a \in {"setSimpleRGBColorDimLevel", "setOpticalSignal"}}
      BY <1>6, <2>1, Zenon DEF DecidedBy
    <2> QED BY <1>6, <2>2 DEF FieldUpdates
  <1>7. CASE /\ a # "setShutterLevel" /\ a # "setPrimaryShadingLevel"
             /\ a # "activatePartyMode" /\ ~light
             /\ a \notin {"setSetPointTemperature", "setControlMode"}
    <2>1. DecidedBy(cmd) = {}
      BY <1>7, Zenon DEF DecidedBy
    <2> QED BY <2>1 DEF FieldUpdates
  <1> QED BY <1>2, <1>3, <1>4, <1>5, <1>6, <1>7

\* What a retry brings up to date.
LEMMA RetryMaps ==
  ASSUME NEW cmd
  PROVE  /\ Action(cmd) \in LightColorActions =>
              RetryFieldMap(cmd) = {<<"dimLevel", "dimLevel">>}
         /\ Action(cmd) = "setOpticalSignal" =>
              RetryFieldMap(cmd) = {<<"dimLevel", "dimLevel">>,
                                    <<"simpleRGBColorState", "simpleRGBColorState">>}
         /\ Action(cmd) \in ShadingTiltActions =>
              RetryFieldMap(cmd) = {<<"shutterLevel", "primary_level">>,
                                    <<"primaryShadingLevel", "primary_level">>}
         /\ Action(cmd) = "activatePartyMode" =>
              RetryFieldMap(cmd) = {<<"temperature", "setPointTemperature">>}
         /\ Action(cmd) = "setControlMode" =>
              RetryFieldMap(cmd) = {<<"setPointTemperature", "setPointTemperature">>}
  <1> DEFINE a == Action(cmd)
  <1>1. CASE a \in LightColorActions
    <2>1. a # "setOpticalSignal" /\ a \notin ShadingTiltActions
          /\ a # "activatePartyMode" /\ a # "setControlMode"
      BY <1>1 DEF LightColorActions, ShadingTiltActions
    <2> QED BY <1>1, <2>1, Zenon DEF RetryFieldMap
  <1>2. CASE a = "setOpticalSignal"
    <2>1. a \notin LightColorActions /\ a \notin ShadingTiltActions
          /\ a # "activatePartyMode" /\ a # "setControlMode"
      BY <1>2 DEF LightColorActions, ShadingTiltActions
    <2> QED BY <1>2, <2>1, Zenon DEF RetryFieldMap
  <1>3. CASE a \in ShadingTiltActions
    <2>1. a \notin LightColorActions /\ a # "setOpticalSignal"
          /\ a # "activatePartyMode" /\ a # "setControlMode"
      BY <1>3 DEF LightColorActions, ShadingTiltActions
    <2> QED BY <1>3, <2>1, Zenon DEF RetryFieldMap
  <1>4. CASE a = "activatePartyMode"
    <2>1. a \notin LightColorActions /\ a # "setOpticalSignal"
          /\ a \notin ShadingTiltActions /\ a # "setControlMode"
      BY <1>4 DEF LightColorActions, ShadingTiltActions
    <2> QED BY <1>4, <2>1, Zenon DEF RetryFieldMap
  <1>5. CASE a = "setControlMode"
    <2>1. a \notin LightColorActions /\ a # "setOpticalSignal"
          /\ a \notin ShadingTiltActions /\ a # "activatePartyMode"
      BY <1>5 DEF LightColorActions, ShadingTiltActions
    <2> QED BY <1>5, <2>1, Zenon DEF RetryFieldMap
  <1> QED BY <1>1, <1>2, <1>3, <1>4, <1>5

\* A retry of an older command that carries a value the newer one decided takes
\* the newer value over, or the newer command replaces the older one.
LEMMA OldValueGoes ==
  ASSUME NEW a \in Commands, NEW b \in Commands, TargetScope(a) = TargetScope(b),
         NEW key \in DOMAIN CarriedField, Has(a, key),
         CarriedField[key] \in FieldUpdates(b)
  PROVE  Replaces(b, a) \/ <<key, CarriedField[key]>> \in RetryFieldMap(a)
  <1>1. CASE key = "dimLevel"
    <2>1. Action(b) \in LightActions /\ ~LightsOff(b) /\ Has(b, "dimLevel")
      BY <1>1, Deciders DEF CarriedField
    <2>2. Action(a) \in LightActions
      BY <1>1, CommandsAssumption DEF KeyUsers
    <2>3. CASE Action(a) = "setDimLevel"
      <3>1. CommandAspect(a) \in {"light_off", "dim_level"}
        BY <2>2, <2>3, OffSpec, LightSpec
      <3>2. {"light_off", "dim_level"} \subseteq {CommandAspect(b)} \cup ExtraSupersededAspects(b)
        BY <2>1, LightSpec DEF LightExtras
      <3> QED BY <3>1, <3>2 DEF Replaces
    <2>4. CASE Action(a) # "setDimLevel"
      BY <1>1, <2>2, <2>4, LightKinds, RetryMaps DEF CarriedField
    <2> QED BY <2>3, <2>4
  <1>2. CASE key = "simpleRGBColorState"
    <2>1. /\ Action(b) \in {"setSimpleRGBColorDimLevel", "setOpticalSignal"}
          /\ ~LightsOff(b) /\ Has(b, "simpleRGBColorState")
      BY <1>2, Deciders DEF CarriedField
    <2>2. Action(a) \in {"setSimpleRGBColorDimLevel", "setOpticalSignal"}
      BY <1>2, CommandsAssumption DEF KeyUsers
    <2>3. CASE Action(a) = "setSimpleRGBColorDimLevel"
      <3>1. Action(a) \in LightColorActions /\ Action(a) \in LightActions
        BY <2>3 DEF LightColorActions, LightActions
      <3>2. CommandAspect(a) \in {"light_off", "light_color"}
        BY <3>1, OffSpec, LightSpec
      <3>3. Action(b) \in LightActions
            /\ (Action(b) = "setOpticalSignal" \/ Action(b) \in LightColorActions)
        BY <2>1 DEF LightColorActions, LightActions
      <3>4. {"light_off", "light_color"} \subseteq {CommandAspect(b)} \cup ExtraSupersededAspects(b)
        BY <2>1, <3>3, LightSpec DEF LightExtras
      <3> QED BY <3>2, <3>4 DEF Replaces
    <2>4. CASE Action(a) = "setOpticalSignal"
      BY <1>2, <2>4, RetryMaps DEF CarriedField
    <2> QED BY <2>2, <2>3, <2>4
  <1>3. CASE key \in {"shutterLevel", "primaryShadingLevel"}
    <2>1. Action(b) \in ShadingLevelActions
      BY <1>3, Deciders DEF CarriedField
    <2>2. Action(a) \in ShadingLevelActions \cup ShadingTiltActions
      BY <1>3, CommandsAssumption DEF KeyUsers
    <2>3. CASE Action(a) \in ShadingLevelActions
      BY <2>1, <2>3, ShadingSpec DEF Replaces
    <2>4. CASE Action(a) \in ShadingTiltActions
      BY <1>3, <2>4, RetryMaps DEF CarriedField
    <2> QED BY <2>2, <2>3, <2>4
  <1>4. CASE key \in {"temperature", "setPointTemperature"}
    <2>1. \/ Action(b) \in {"setSetPointTemperature", "setControlMode"}
               /\ Has(b, "setPointTemperature")
          \/ Action(b) = "activatePartyMode" /\ Has(b, "temperature")
      BY <1>4, Deciders DEF CarriedField
    <2>2. Action(b) \in HeatingModeActions \cup {"setSetPointTemperature"}
      BY <2>1 DEF HeatingModeActions
    <2>3. Action(a) # "activateVacation"
      BY <2>2, CommandsAssumption
    <2>4. CASE key = "temperature"
      <3>1. Action(a) = "activatePartyMode"
        BY <2>3, <2>4, CommandsAssumption DEF KeyUsers
      <3> QED BY <2>4, <3>1, RetryMaps DEF CarriedField
    <2>5. CASE key = "setPointTemperature" /\ Action(a) = "setControlMode"
      BY <2>5, RetryMaps DEF CarriedField
    <2>6. CASE key = "setPointTemperature" /\ Action(a) = "setSetPointTemperature"
      <3>1. CommandAspect(a) = "setSetPointTemperature"
        BY <2>6, SetPointSpec
      <3>2. CASE Action(b) = "setSetPointTemperature"
        BY <3>1, <3>2, SetPointSpec DEF Replaces
      <3>3. CASE Action(b) = "setControlMode" /\ Has(b, "setPointTemperature")
        BY <3>1, <3>3, HeatingSpec DEF Replaces, HeatingExtras, HeatingModeActions
      <3>4. CASE Action(b) = "activatePartyMode" /\ Has(b, "temperature")
        BY <3>1, <3>4, HeatingSpec DEF Replaces, HeatingExtras, HeatingModeActions
      <3> QED BY <2>1, <3>2, <3>3, <3>4
    <2>7. key = "setPointTemperature" => Action(a) \in {"setSetPointTemperature", "setControlMode"}
      BY CommandsAssumption DEF KeyUsers
    <2> QED BY <1>4, <2>4, <2>5, <2>6, <2>7
  <1> QED BY <1>1, <1>2, <1>3, <1>4 DEF CarriedField

\* A command does not override its own setting besides replacing it.
LEMMA OwnSettingApart ==
  ASSUME NEW cmd
  PROVE  CommandAspect(cmd) \notin ExtraSupersededAspects(cmd)
  <1> DEFINE a == Action(cmd)
  <1>1. CASE LightsOff(cmd)
    BY <1>1, OffSpec
  <1>2. CASE a \in LightActions /\ ~LightsOff(cmd)
    BY <1>2, LightKinds, LightSpec DEF LightExtras
  <1>3. CASE a \in SwitchActions
    BY <1>3, SwitchSpec DEF SwitchExtras
  <1>4. CASE a \in {"stop"} \cup ShadingLevelActions \cup ShadingTiltActions
    BY <1>4, ShadingSpec
  <1>5. CASE a \in HeatingModeActions
    BY <1>5, HeatingSpec DEF HeatingExtras
  <1>6. CASE /\ ~LightsOff(cmd) /\ a \notin LightActions /\ a \notin SwitchActions
             /\ a \notin {"stop"} \cup ShadingLevelActions \cup ShadingTiltActions
             /\ a \notin HeatingModeActions
    BY <1>6, Zenon DEF ExtraSupersededAspects
  <1> QED BY <1>1, <1>2, <1>3, <1>4, <1>5, <1>6 DEF LightsOff

-----------------------------------------------------------------------------
\* The pair always consists of commands the entities send.
LEMMA StreamTypes == StreamSpec => []StreamTypeOK
  <1>1. StreamInit => StreamTypeOK
    BY DEF StreamInit, StreamTypeOK
  <1>2. StreamTypeOK /\ [StreamNext]_<<older, newer>> => StreamTypeOK'
    BY DEF StreamTypeOK, StreamNext, Follow, Outlast
  <1> QED BY <1>1, <1>2, PTL DEF StreamSpec

\* A command that asks for the opposite of an earlier one makes a retry of it
\* pointless, whatever kinds of commands the two are.
THEOREM OppositeIsReplaced == StreamSpec => []OppositeSupersedes
  <1>1. ASSUME StreamTypeOK  PROVE OppositeSupersedes
    <2> SUFFICES ASSUME SameTarget,
                        Opposed(Power(older), Power(newer)) \/ Opposed(Motion(older), Motion(newer))
                 PROVE  Replaces(newer, older)
      BY DEF OppositeSupersedes, Supersedes, SameTarget, Replaces
    <2>1. CASE Opposed(Motion(older), Motion(newer))
      BY <2>1, StopAndMove
    <2>2. CASE Opposed(Power(older), Power(newer))
      <3>1. \/ AsksOn(older) /\ AsksOff(newer)
            \/ AsksOff(older) /\ AsksOn(newer)
        BY <1>1, <2>2, PowerCases DEF Opposed, StreamTypeOK
      <3> QED BY <3>1, OffReplacesOn, OnReplacesOff
    <2> QED BY <2>1, <2>2
  <1> QED BY <1>1, StreamTypes, PTL

\* A retry never puts back a value that a newer command decided.
THEOREM NoOldValueIsRetried == StreamSpec => []NoRetryCarriesAnOldValue
  <1>1. ASSUME StreamTypeOK  PROVE NoRetryCarriesAnOldValue
    <2> SUFFICES ASSUME SameTarget, NEW key \in DOMAIN older.body \cap DOMAIN CarriedField,
                        CarriedField[key] \in FieldUpdates(newer)
                 PROVE  Replaces(newer, older) \/ <<key, CarriedField[key]>> \in RetryFieldMap(older)
      BY DEF NoRetryCarriesAnOldValue, Supersedes, SameTarget, Replaces
    <2> QED BY <1>1, OldValueGoes DEF StreamTypeOK, SameTarget, Has
  <1> QED BY <1>1, StreamTypes, PTL

\* The tables are what TargetTracking assumes of them (TablesAssumption).
THEOREM TablesFitTheTracking == TablesFit
  BY OwnSettingApart
     DEF TablesFit, AspectTable, ExtrasTable, CarriesTable, NeedsTable, Carried

\* The tables are what AppRestCommands assumes of them (DecidedAssumption), so
\* its theorems hold of the commands the entities send.
THEOREM TablesDecide == DecidedByTheTables
  <1> SUFFICES ASSUME NEW b \in Mutating, NEW a \in Mutating,
                      TargetScope(a) = TargetScope(b),
                      NEW f \in FieldUpdates(a), f \in FieldUpdates(b), f \notin Carried(a)
               PROVE  Replaces(b, a)
    BY DEF DecidedByTheTables, ScopeTable, UpdatesTable, CarriesTable, AspectTable,
           ExtrasTable, Replaces
  <1>1. PICK key \in DOMAIN CarriedField : Has(a, key) /\ CarriedField[key] = f
    BY Deciders DEF CarriedField
  <1>2. <<key, f>> \in RetryFieldMap(a) => f \in Carried(a)
    BY <1>1 DEF Carried
  <1> QED BY <1>1, <1>2, OldValueGoes DEF Mutating
=============================================================================
