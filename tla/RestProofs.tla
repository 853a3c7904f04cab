------------------------------ MODULE RestProofs ------------------------------
(***************************************************************************)
(* Theorems about AppRestCommands for every set of calls and every table.  *)
(***************************************************************************)
EXTENDS AppRestCommands, TargetTrackingProofs, SequenceTheorems

\* A call is between its start and its end exactly while it is tracked, and a
\* call that queues, posts or was answered does not wait.
StagesOK ==
  /\ stage \in [Cmd -> Stage]
  /\ \A c \in Active : stage[c] \in {"queued", "posting", "answered", "asleep"}
  /\ \A c \in Cmd : stage[c] \in {"queued", "posting", "answered"} => phase[c] = "running"
  /\ \A c \in Cmd : stage[c] = "asleep" => c \in Active

RestInv == FullInv /\ StagesOK

\* A call that ends takes only its own bookkeeping along.
LEMMA FinishKeeps ==
  ASSUME RestInv, NEW c \in Active, NEW ok \in BOOLEAN, Finish(c, ok)
  PROVE  RestInv'
<1> USE DEF RestInv
<1>1. FullInv' /\ c \in Cmd
  BY LeaveKeeps DEF Finish, Active
<1>2. Active' = Active \ {c}
  BY LeaveActive DEF Finish, FullInv, IInv
<1>3. \A d \in Cmd \ {c} : phase[d] = "running" => phase'[d] = "running"
  BY DEF Finish, Leave, PopInflight, Woken, FullInv, IInv, TypeOK
<1>4. /\ \A d \in Cmd \ {c} : stage'[d] = stage[d]
      /\ stage'[c] \in {"succeeded", "failed"}
      /\ stage' \in [Cmd -> Stage]
  BY <1>1 DEF Finish, StagesOK, Stage
<1>5. /\ Active' \subseteq Cmd \ {c} /\ Active' \subseteq Active
      /\ \A d \in Cmd : stage[d] = "asleep" /\ d # c => d \in Active'
  BY <1>2 DEF Active, StagesOK
<1> QED
  BY <1>1, <1>3, <1>4, <1>5 DEF StagesOK

\* A call starts.
LEMMA CallKeeps ==
  ASSUME RestInv, NEW c \in Cmd, Call(c)
  PROVE  RestInv'
<1> USE DEF RestInv
<1>1. FullInv' /\ Active' = Active \cup {c} /\ phase'[c] = "running"
  BY EnterKeeps, EnterActive DEF Call, FullInv, IInv
<1>2. \A d \in Cmd \ {c} : phase[d] = "running" => phase'[d] = "running"
  BY DEF Call, Enter, Woken, FullInv, IInv, TypeOK
<1>3. stage' = [stage EXCEPT ![c] = "queued"]
  BY DEF Call
<1> QED
  BY <1>1, <1>2, <1>3 DEF StagesOK, Stage

\* A step on which the bookkeeping stays quiet moves one running call from
\* stage to stage.
LEMMA MoveKeeps ==
  ASSUME RestInv, NEW c \in Active,
         NEW st \in {"queued", "posting", "answered", "asleep"},
         FullInv', Quiet, stage' = [stage EXCEPT ![c] = st],
         st \in {"queued", "posting", "answered"} => phase'[c] = "running",
         \A d \in Cmd \ {c} : phase[d] = "running" => phase'[d] = "running"
  PROVE  RestInv'
BY DEF RestInv, StagesOK, Quiet, Active, Stage

\* A step that leaves the stages alone and lets no running call wait.
LEMMA StayKeeps ==
  ASSUME RestInv, FullInv', Quiet, stage' = stage,
         \A d \in Cmd : stage[d] # "asleep" /\ phase[d] = "running" => phase'[d] = "running"
  PROVE  RestInv'
BY DEF RestInv, StagesOK, Quiet

LEMMA ClientKeeps ==
  ASSUME RestInv, NEW c \in Cmd, Client(c) \/ WaitTimeout(c)
  PROVE  RestInv'
<1> USE DEF RestInv
<1>1. CASE Post(c)
  <2>1. c \in Active /\ phase[c] = "running"
    BY <1>1 DEF Post, StagesOK, Active
  <2>2. FullInv' /\ Quiet /\ phase' = phase
    BY <1>1, UnchangedKeeps DEF Post, trackVars
  <2> QED
    BY <1>1, <2>1, <2>2, MoveKeeps DEF Post, Send, Stage
<1>2. CASE PostRetry(c)
  <2>1. c \in Active /\ phase[c] = "running"
    BY <1>2 DEF PostRetry, StagesOK, Active
  <2>2. FullInv' /\ Quiet /\ phase' = phase
    BY <1>2, <2>1, RefreshStep, RefreshKeeps DEF PostRetry, Refresh, FullInv
  <2> QED
    BY <1>2, <2>1, <2>2, MoveKeeps DEF PostRetry, Send, Stage
<1>3. CASE SkipQueuedRetry(c)
  BY <1>3, FinishKeeps DEF SkipQueuedRetry, StagesOK, Active
<1>4. CASE RecordSuccess(c)
  <2>1. c \in Active /\ phase[c] = "running"
    BY <1>4 DEF RecordSuccess, StagesOK, Active
  <2>2. FullInv' /\ Quiet
    BY <1>4, RecordStep, RecordKeeps DEF RecordSuccess, FullInv
  <2>3. \A d \in Cmd : phase[d] = "running" => phase'[d] = "running"
    BY <1>4 DEF RecordSuccess, Record, PopInflight, Woken
  <2> QED
    BY <1>4, <2>1, <2>2, <2>3, MoveKeeps DEF RecordSuccess, Stage
<1>5. CASE Return(c) \/ Raise(c)
  BY <1>5, FinishKeeps DEF Return, Raise, StagesOK, Active
<1>6. CASE BackOff(c)
  <2>1. c \in Active
    BY <1>6 DEF BackOff, StagesOK, Active
  <2>2. FullInv' /\ Quiet /\ phase' = phase
    BY <1>6, UnchangedKeeps DEF BackOff, trackVars
  <2> QED
    BY <1>6, <2>1, <2>2, MoveKeeps DEF BackOff, Stage
<1>7. CASE AwaitNewer(c)
  <2>1. FullInv' /\ Quiet /\ stage' = stage
    BY <1>7, AwaitKeeps DEF AwaitNewer, restVars
  <2>2. \A d \in Cmd : stage[d] # "asleep" /\ phase[d] = "running" => phase'[d] = "running"
    BY <1>7 DEF AwaitNewer, Wait, FullInv, IInv, TypeOK
  <2> QED
    BY <2>1, <2>2, StayKeeps
<1>8. CASE QueueRetry(c) \/ WaitTimeout(c)
  <2>1. c \in Active /\ GoOn(c)
    BY <1>8 DEF QueueRetry, WaitTimeout, Active
  <2>2. CASE Superseded(c)
    BY <2>1, <2>2, FinishKeeps DEF GoOn
  <2>3. CASE ~Superseded(c)
    <3>1. /\ Resume(c) /\ sentFrom' = sentFrom
          /\ UNCHANGED <<request, cmdSeq, gen, counters, inflight, overrides>>
          /\ stage' = [stage EXCEPT ![c] = "queued"]
      BY <2>1, <2>3 DEF GoOn
    <3>2. FullInv' /\ Quiet
      BY <2>1, <3>1, ResumeKeeps
    <3>3. /\ phase'[c] = "running"
          /\ \A d \in Cmd \ {c} : phase[d] = "running" => phase'[d] = "running"
      BY <2>1, <3>1 DEF Resume, FullInv, IInv, TypeOK
    <3> QED
      BY <2>1, <3>1, <3>2, <3>3, MoveKeeps DEF Stage
  <2> QED
    BY <2>2, <2>3
<1> QED
  BY <1>1, <1>2, <1>3, <1>4, <1>5, <1>6, <1>7, <1>8 DEF Client

LEMMA RestInvInit == Init => RestInv
<1> SUFFICES ASSUME Init PROVE RestInv
  OBVIOUS
<1>1. FullInv /\ Active = {}
  BY InitFullInv DEF Init, TrackInit, Active
<1>2. stage = [c \in Cmd |-> "idle"]
  BY DEF Init
<1> QED
  BY <1>1, <1>2 DEF RestInv, StagesOK, Stage

LEMMA RestInvNext == RestInv /\ [Next]_vars => RestInv'
<1> SUFFICES ASSUME RestInv, [Next]_vars PROVE RestInv'
  OBVIOUS
<1>1. CASE UNCHANGED <<trackVars, stage>>
  <2>1. FullInv' /\ Quiet /\ phase' = phase /\ stage' = stage
    BY <1>1, UnchangedKeeps DEF RestInv, trackVars
  <2> QED
    BY <2>1, StayKeeps
<1>2. CASE Next
  <2>1. PICK c \in Cmd : \/ Call(c) \/ Client(c) \/ WaitTimeout(c)
                         \/ Cancel(c) \/ HcuApply(c) \/ HcuRefuse(c)
    BY <1>2 DEF Next
  <2>2. CASE Cancel(c)
    BY <2>2, FinishKeeps DEF Cancel
  <2>3. CASE HcuApply(c) \/ HcuRefuse(c)
    BY <1>1, <2>3 DEF HcuApply, HcuRefuse
  <2> QED
    BY <2>1, <2>2, <2>3, CallKeeps, ClientKeeps
<1> QED
  BY <1>1, <1>2 DEF vars, restVars

\* Of all steps, only the checked one posts a retry that queued.
LEMMA OnlyChecked ==
  ASSUME RestInv, [Next]_vars, NEW c \in Cmd,
         stage[c] = "queued", stage'[c] = "posting", c \in retried
  PROVE  PostRetry(c)
<1>1. stage' # stage /\ stage \in [Cmd -> Stage]
  BY DEF RestInv, StagesOK
<1>2. PICK d \in Cmd : \/ Call(d) \/ Client(d) \/ WaitTimeout(d)
                       \/ Cancel(d) \/ HcuApply(d) \/ HcuRefuse(d)
  BY <1>1 DEF Next, vars, restVars
<1>3. ~(Call(d) \/ HcuApply(d) \/ HcuRefuse(d) \/ Cancel(d))
  BY <1>1 DEF Call, HcuApply, HcuRefuse, Cancel, Finish
<1>4. ~(WaitTimeout(d) \/ QueueRetry(d))
  BY <1>1 DEF WaitTimeout, QueueRetry, GoOn, Finish
<1>5. ~(\/ Post(d) \/ SkipQueuedRetry(d) \/ RecordSuccess(d) \/ Return(d) \/ Raise(d)
        \/ BackOff(d) \/ AwaitNewer(d))
  BY <1>1 DEF Post, Send, SkipQueuedRetry, RecordSuccess, Return, Raise, BackOff,
              AwaitNewer, restVars, Finish
<1>6. PostRetry(d)
  BY <1>2, <1>3, <1>4, <1>5 DEF Client
<1>7. d = c
  BY <1>1, <1>6 DEF PostRetry, Send
<1> QED
  BY <1>6, <1>7

\* For any number of overlapping App User commands: "skipping the retry if a newer
\* command was issued for the same target" (_async_app_rest_call) holds at the
\* moment a retry is posted, after the back-off, the wait and the lock.
THEOREM RetriesAreNotStale == Spec => NoStaleRetry
<1>1. RestInv /\ [Next]_vars =>
        [\A c \in Cmd :
           stage[c] = "queued" /\ stage'[c] = "posting" /\ c \in retried
             => \A d \in Cmd : ~CalledLater(d, c)]_vars
  <2> SUFFICES ASSUME RestInv, [Next]_vars, NEW c \in Cmd,
                      stage[c] = "queued", stage'[c] = "posting", c \in retried
               PROVE  \A d \in Cmd : ~CalledLater(d, c)
    OBVIOUS
  <2>1. c \in Active /\ ~Superseded(c)
    BY OnlyChecked DEF RestInv, StagesOK, PostRetry, Active
  <2> QED
    BY <2>1, NotReplaced DEF RestInv
<1> QED
  BY <1>1, RestInvInit, RestInvNext, PTL DEF Spec, NoStaleRetry

-----------------------------------------------------------------------------
RestTypesInv == RestInv /\ RestTypeOK

LEMMA HcuTypes ==
  ASSUME RestTypesInv, NEW c \in Cmd, HcuApply(c)
  PROVE  hcu' \in [Scope -> [Field -> [seq : Nat, late : BOOLEAN]]]
<1>1. sentFrom[c] \in [Field -> Nat]
  BY DEF RestTypesInv, RestTypeOK, TypeOK
<1> DEFINE applied(f) == f \in Updates(c) \cup CarriesOf[request[c]]
           late == phase[c] = "done"
           now == [f \in Field |-> IF applied(f) THEN [seq |-> sentFrom[c][f], late |-> late]
                                                ELSE hcu[Scp(c)][f]]
<1>2. late \in BOOLEAN
  OBVIOUS
<1>3. Scp(c) \in Scope => now \in [Field -> [seq : Nat, late : BOOLEAN]]
  <2> HIDE DEF late, applied
  <2> QED
    BY <1>1, <1>2, Zenon DEF RestTypesInv, RestTypeOK
<1>4. hcu' = [hcu EXCEPT ![Scp(c)] = now]
  BY DEF HcuApply
<1> HIDE DEF now
<1> QED
  BY <1>3, <1>4 DEF RestTypesInv, RestTypeOK

LEMMA RestTypesStep ==
  ASSUME RestTypesInv, [Next]_vars
  PROVE  RestTypesInv'
<1>1. RestInv'
  BY RestInvNext DEF RestTypesInv
<1>2. CASE UNCHANGED vars
  BY <1>1, <1>2 DEF vars, restVars, trackVars, RestTypesInv, RestTypeOK,
                    RestInv, FullInv, IInv
<1>3. CASE Next
  <2>1. PICK c \in Cmd : \/ Call(c) \/ Client(c) \/ WaitTimeout(c)
                         \/ Cancel(c) \/ HcuApply(c) \/ HcuRefuse(c)
    BY <1>3 DEF Next
  <2>2. TypeOK' /\ stage' \in [Cmd -> Stage]
    BY <1>1 DEF RestInv, StagesOK, FullInv, IInv
  <2>3. retried' \subseteq Cmd /\ reply' \in [Cmd -> Reply]
    <3>1. CASE Call(c) \/ Cancel(c) \/ HcuApply(c) \/ HcuRefuse(c)
      BY <3>1 DEF Call, Cancel, Finish, HcuApply, HcuRefuse, RestTypesInv, RestTypeOK, Reply
    <3>2. CASE Client(c) \/ WaitTimeout(c)
      BY <3>2 DEF Client, Post, PostRetry, Send, SkipQueuedRetry, RecordSuccess, Return, Raise,
                  BackOff, AwaitNewer, QueueRetry, WaitTimeout, GoOn, Finish, restVars,
                  RestTypesInv, RestTypeOK, Reply
    <3> QED
      BY <2>1, <3>1, <3>2
  <2>4. hcu' \in [Scope -> [Field -> [seq : Nat, late : BOOLEAN]]]
    <3>1. CASE HcuApply(c)
      BY <3>1, HcuTypes
    <3>2. CASE ~HcuApply(c)
      <4>1. hcu' = hcu
        BY <2>1, <3>2 DEF Call, Cancel, HcuRefuse, Client, Post, PostRetry, Send,
              SkipQueuedRetry, RecordSuccess, Return, Raise, BackOff, AwaitNewer,
              QueueRetry, WaitTimeout, GoOn, Finish, restVars
      <4> QED
        BY <4>1 DEF RestTypesInv, RestTypeOK
    <3> QED
      BY <3>1, <3>2
  <2> QED
    BY <1>1, <2>2, <2>3, <2>4 DEF RestTypesInv, RestTypeOK
<1> QED
  BY <1>2, <1>3

\* For any number of calls: the stages, the answers and what the HCU applied stay
\* well typed (_async_app_rest_call).
THEOREM RestTypes == Spec => []RestTypeOK
<1>1. Init => RestTypesInv
  <2> SUFFICES ASSUME Init PROVE RestTypesInv
    OBVIOUS
  <2>1. RestInv
    BY RestInvInit
  <2>2. retried \subseteq Cmd /\ reply \in [Cmd -> Reply]
    BY DEF Init, Reply
  <2>3. hcu \in [Scope -> [Field -> [seq : Nat, late : BOOLEAN]]]
    BY DEF Init
  <2> QED
    BY <2>1, <2>2, <2>3 DEF RestTypesInv, RestTypeOK, RestInv, StagesOK, FullInv, IInv
<1>2. RestTypesInv => RestTypeOK
  BY DEF RestTypesInv
<1> QED
  BY <1>1, <1>2, RestTypesStep, PTL DEF Spec

-----------------------------------------------------------------------------
(* Newer values are kept *)

Holding == {"queued", "posting", "answered"}

\* The lock: who needs it is in its queue, once; who posts is at the head; and a
\* call that was not refused yet stands behind the calls made before it.
LockOK ==
  /\ lock \in Seq(Cmd)
  /\ \A i, j \in 1 .. Len(lock) : lock[i] = lock[j] => i = j
  /\ \A c \in Cmd : InLock(c) <=> stage[c] \in Holding
  /\ \A c \in Cmd : stage[c] \in {"posting", "answered"} => lock[1] = c
  /\ \A i, j \in 1 .. Len(lock) :
       j < i /\ lock[i] \notin retried => cmdSeq[lock[j]] < cmdSeq[lock[i]]

\* Until the first POST of a call is over, no newer call has posted anything.
FirstOK ==
  \A c, d \in Cmd :
    stage[c] \in Holding /\ c \notin retried /\ cmdSeq[d] > cmdSeq[c]
      => d \notin retried /\ stage[d] \in {"queued", "failed"}

StartedOK ==
  \A c \in Cmd : /\ phase[c] = "new" => stage[c] = "idle" /\ c \notin retried
                 /\ stage[c] = "asleep" => c \in retried

\* A POST that was given up on is of a call that is over.
ReplyOK == \A c \in Cmd : reply[c] = "sent" /\ stage[c] # "posting" => phase[c] = "done"

\* No body has a value older than its call.
SentNew == \A c \in Cmd, f \in Field : sentFrom[c][f] >= cmdSeq[c]

\* As long as an older command runs on the target, what an acknowledged command
\* decided is recorded, or something newer is.
AcknowledgedRecorded ==
  \A d \in Acknowledged, c \in Active, f \in Field :
    Scp(c) = Scp(d) /\ cmdSeq[c] < cmdSeq[d] /\ f \in Updates(d)
      => overrides[Scp(c)][f].seq >= cmdSeq[d]

\* The fields a POST of c sets at the HCU.
Sets(c) == Updates(c) \cup CarriesOf[request[c]]

\* What is being posted is not older than what was acknowledged ...
PostedOK ==
  \A c \in Cmd : \A d \in Acknowledged : \A f \in Updates(d) :
    stage[c] = "posting" /\ Scp(c) = Scp(d) /\ f \in Sets(c) => sentFrom[c][f] >= cmdSeq[d]

\* ... and nothing was applied over a POST that is about to be acknowledged.
AppliedOK ==
  \A d \in Cmd : \A f \in Updates(d) :
    stage[d] = "posting" /\ reply[d] = "ok"
      => \/ hcu[Scp(d)][f].seq >= cmdSeq[d]
         \/ hcu[Scp(d)][f].late

OrderOK == StartedOK /\ ReplyOK /\ SentNew
ValuesOK == PostedOK /\ AppliedOK /\ NewerValueKept

KeptInv ==
  RestTypesInv /\ LockOK /\ FirstOK /\ OrderOK /\ AcknowledgedRecorded /\ ValuesOK

-----------------------------------------------------------------------------
(* The queue of the lock. *)

LEMMA FunctionIsSeq ==
  ASSUME NEW n \in Nat, NEW S, NEW s \in [1 .. n -> S]
  PROVE  s \in Seq(S) /\ Len(s) = n
<1>1. s \in Seq(S)
  BY SeqDef
<1>2. Len(s) \in Nat /\ DOMAIN s = 1 .. Len(s)
  BY <1>1, LenProperties
<1>3. DOMAIN s = 1 .. n
  OBVIOUS
<1>4. Len(s) = n
  <2>1. \A i \in Nat : i \in 1 .. Len(s) <=> i \in 1 .. n
    BY <1>2, <1>3
  <2>2. Len(s) <= n
    <3>1. CASE Len(s) = 0
      BY <1>2, <3>1
    <3>2. CASE Len(s) # 0
      <4>1. Len(s) \in 1 .. Len(s)
        BY <1>2, <3>2
      <4> QED  BY <1>2, <2>1, <4>1
    <3> QED  BY <3>1, <3>2
  <2>3. n <= Len(s)
    <3>1. CASE n = 0
      BY <1>2, <3>1
    <3>2. CASE n # 0
      <4>1. n \in 1 .. n
        BY <3>2
      <4> QED  BY <1>2, <2>1, <4>1
    <3> QED  BY <3>1, <3>2
  <2> QED  BY <1>2, <2>2, <2>3
<1> QED
  BY <1>1, <1>4

\* The place of the i-th call that stays when the k-th one leaves.
PlaceBefore(k, i) == IF i < k THEN i ELSE i + 1

\* A call that leaves the queue leaves the others in their order.
LEMMA Leaving ==
  ASSUME LockOK, NEW k \in 1 .. Len(lock)
  PROVE  /\ LockWithout(lock[k]) \in Seq(Cmd)
         /\ Len(LockWithout(lock[k])) = Len(lock) - 1
         /\ \A i \in 1 .. Len(lock) - 1 : LockWithout(lock[k])[i] = lock[PlaceBefore(k, i)]
<1> DEFINE n == Len(lock) - 1
           q == [i \in 1 .. n |-> IF \E j \in 1 .. i : lock[j] = lock[k]
                                    THEN lock[i + 1] ELSE lock[i]]
<1>1. Len(lock) \in Nat /\ \A i \in 1 .. Len(lock) : lock[i] \in Cmd
  BY LenProperties, ElementOfSeq DEF LockOK
<1>2. n \in Nat /\ LockWithout(lock[k]) = q
  BY <1>1 DEF LockWithout, InLock
<1>3. ASSUME NEW i \in 1 .. n
      PROVE  q[i] = lock[PlaceBefore(k, i)] /\ q[i] \in Cmd
  <2>1. (\E j \in 1 .. i : lock[j] = lock[k]) <=> k <= i
    BY <1>1 DEF LockOK
  <2>2. q[i] = IF k <= i THEN lock[i + 1] ELSE lock[i]
    BY <2>1
  <2>3. i \in 1 .. Len(lock) /\ i + 1 \in 1 .. Len(lock)
    BY <1>1
  <2> QED
    BY <1>1, <2>2, <2>3 DEF PlaceBefore
<1>4. q \in [1 .. n -> Cmd]
  BY <1>3
<1> HIDE DEF q, n
<1>5. q \in Seq(Cmd) /\ Len(q) = n
  BY <1>2, <1>4, FunctionIsSeq
<1> QED
  BY <1>2, <1>3, <1>5 DEF n

LEMMA Places ==
  ASSUME LockOK, NEW k \in 1 .. Len(lock)
  PROVE  /\ \A i \in 1 .. Len(lock) - 1 :
              PlaceBefore(k, i) \in 1 .. Len(lock) /\ PlaceBefore(k, i) # k
         /\ \A i, j \in 1 .. Len(lock) - 1 : j < i => PlaceBefore(k, j) < PlaceBefore(k, i)
         /\ \A m \in 1 .. Len(lock) : m # k =>
              \E i \in 1 .. Len(lock) - 1 : m = PlaceBefore(k, i)
         /\ k # 1 => Len(lock) - 1 >= 1 /\ PlaceBefore(k, 1) = 1
<1>1. Len(lock) \in Nat
  BY LenProperties DEF LockOK
<1>2. ASSUME NEW m \in 1 .. Len(lock), m # k
      PROVE  \E i \in 1 .. Len(lock) - 1 : m = PlaceBefore(k, i)
  <2>1. CASE m < k
    <3>1. m \in 1 .. Len(lock) - 1 /\ PlaceBefore(k, m) = m
      BY <1>1, <2>1 DEF PlaceBefore
    <3> QED  BY <3>1
  <2>2. CASE m > k
    <3>1. m - 1 \in 1 .. Len(lock) - 1 /\ PlaceBefore(k, m - 1) = m
      BY <1>1, <2>2 DEF PlaceBefore
    <3> QED  BY <3>1
  <2> QED  BY <1>1, <1>2, <2>1, <2>2
<1> QED
  BY <1>1, <1>2 DEF PlaceBefore

\* A step after which c no longer needs the lock it had.
LEMMA LeavesQueue ==
  ASSUME KeptInv, NEW c \in Cmd, stage[c] \in Holding, lock' = LockWithout(c),
         NEW st \in Stage \ Holding, stage' = [stage EXCEPT ![c] = st],
         cmdSeq' = cmdSeq, retried \subseteq retried'
  PROVE  LockOK'
<1>1. LockOK /\ stage \in [Cmd -> Stage] /\ Len(lock) \in Nat
  BY LenProperties DEF KeptInv, LockOK, RestTypesInv, RestTypeOK
<1>2. PICK k \in 1 .. Len(lock) : lock[k] = c
  BY <1>1 DEF LockOK, InLock
<1> DEFINE n == Len(lock) - 1
<1>3. /\ lock' \in Seq(Cmd) /\ Len(lock') = n
      /\ \A i \in 1 .. n : lock'[i] = lock[PlaceBefore(k, i)]
  BY <1>1, <1>2, Leaving
<1>4. /\ \A i \in 1 .. n : PlaceBefore(k, i) \in 1 .. Len(lock) /\ PlaceBefore(k, i) # k
      /\ \A i, j \in 1 .. n : j < i => PlaceBefore(k, j) < PlaceBefore(k, i)
      /\ \A m \in 1 .. Len(lock) : m # k => \E i \in 1 .. n : m = PlaceBefore(k, i)
      /\ k # 1 => n >= 1 /\ PlaceBefore(k, 1) = 1
  BY <1>1, Places
<1>5. n \in Int /\ \A i \in 1 .. n : lock[PlaceBefore(k, i)] # c
  <2>1. \A i, j \in 1 .. Len(lock) : lock[i] = lock[j] => i = j
    BY <1>1 DEF LockOK
  <2>2. n \in Int
    BY <1>1
  <2> HIDE DEF n
  <2> QED
    BY <1>2, <1>4, <2>1, <2>2
<1> HIDE DEF n
<1>6. \A i, j \in 1 .. n : lock'[i] = lock'[j] => i = j
  <2> SUFFICES ASSUME NEW i \in 1 .. n, NEW j \in 1 .. n, j < i PROVE lock'[i] # lock'[j]
    BY <1>5
  <2>1. PlaceBefore(k, j) # PlaceBefore(k, i)
    BY <1>4, <1>5
  <2> QED
    BY <1>1, <1>3, <1>4, <2>1 DEF LockOK
<1>7. ASSUME NEW d \in Cmd PROVE InLock(d)' <=> stage'[d] \in Holding
  <2>1. CASE d = c
    BY <1>1, <1>3, <1>5, <2>1 DEF InLock
  <2>2. CASE d # c
    <3>1. stage'[d] = stage[d]
      BY <1>1, <2>2
    <3>2. InLock(d)' => InLock(d)
      BY <1>3, <1>4 DEF InLock
    <3>3. ASSUME InLock(d) PROVE InLock(d)'
      <4>1. PICK m \in 1 .. Len(lock) : lock[m] = d
        BY <3>3 DEF InLock
      <4>2. PICK i \in 1 .. n : m = PlaceBefore(k, i)
        BY <1>2, <1>4, <2>2, <4>1
      <4> QED
        BY <1>3, <4>1, <4>2 DEF InLock
    <3> QED
      BY <1>1, <3>1, <3>2, <3>3 DEF LockOK
  <2> QED
    BY <2>1, <2>2
<1>8. ASSUME NEW d \in Cmd, stage'[d] \in {"posting", "answered"} PROVE lock'[1] = d
  <2>1. d # c /\ stage'[d] = stage[d]
    BY <1>1, <1>8 DEF Holding
  <2>2. lock[1] = d /\ k # 1
    BY <1>1, <1>2, <1>8, <2>1 DEF LockOK
  <2>3. 1 \in 1 .. n /\ PlaceBefore(k, 1) = 1
    BY <1>4, <1>5, <2>2
  <2> QED
    BY <1>3, <2>2, <2>3
<1>9. ASSUME NEW i \in 1 .. n, NEW j \in 1 .. n, j < i, lock'[i] \notin retried'
      PROVE  cmdSeq'[lock'[j]] < cmdSeq'[lock'[i]]
  <2>1. /\ lock'[i] = lock[PlaceBefore(k, i)] /\ lock'[j] = lock[PlaceBefore(k, j)]
        /\ PlaceBefore(k, j) < PlaceBefore(k, i) /\ lock'[i] \notin retried
    BY <1>3, <1>4, <1>9
  <2> QED
    BY <1>1, <1>4, <2>1 DEF LockOK
<1> QED
  BY <1>3, <1>6, <1>7, <1>8, <1>9 DEF LockOK

\* A step after which c queues for the lock, behind everybody.
LEMMA JoinsQueue ==
  ASSUME KeptInv, NEW c \in Cmd, stage[c] \notin Holding, lock' = Append(lock, c),
         stage' = [stage EXCEPT ![c] = "queued"], retried' = retried,
         \A d \in Cmd \ {c} : cmdSeq'[d] = cmdSeq[d],
         c \in retried \/ \A d \in Cmd \ {c} : cmdSeq[d] < cmdSeq'[c]
  PROVE  LockOK'
<1> DEFINE n == Len(lock)
<1>1. LockOK /\ stage \in [Cmd -> Stage] /\ n \in Nat
  BY LenProperties DEF KeptInv, LockOK, RestTypesInv, RestTypeOK
<1>2. /\ lock' \in Seq(Cmd) /\ Len(lock') = n + 1 /\ lock'[n + 1] = c
      /\ \A i \in 1 .. n : lock'[i] = lock[i] /\ lock[i] \in Cmd /\ lock[i] # c
  <2>1. /\ lock' \in Seq(Cmd) /\ Len(lock') = n + 1 /\ lock'[n + 1] = c
        /\ \A i \in 1 .. n : lock'[i] = lock[i]
    BY <1>1, AppendProperties DEF LockOK
  <2>2. \A i \in 1 .. n : lock[i] \in Cmd /\ lock[i] # c
    BY <1>1, ElementOfSeq DEF LockOK, InLock
  <2> QED
    BY <2>1, <2>2
<1> HIDE DEF n
<1>3. \A i \in 1 .. n + 1 : i \in 1 .. n \/ i = n + 1
  BY <1>1
<1>4. \A i, j \in 1 .. n + 1 : lock'[i] = lock'[j] => i = j
  BY <1>1, <1>2, <1>3 DEF LockOK, n
<1>5. ASSUME NEW d \in Cmd PROVE InLock(d)' <=> stage'[d] \in Holding
  <2>1. CASE d = c
    <3>1. n + 1 \in 1 .. n + 1
      BY <1>1
    <3> QED
      BY <1>1, <1>2, <2>1, <3>1 DEF InLock, Holding
  <2>2. CASE d # c
    <3>1. stage'[d] = stage[d]
      BY <1>1, <2>2
    <3>2. InLock(d)' <=> InLock(d)
      <4>1. \A i \in 1 .. n : i \in 1 .. n + 1
        BY <1>1
      <4> QED
        BY <1>2, <1>3, <2>2, <4>1 DEF InLock, n
    <3> QED
      BY <1>1, <3>1, <3>2 DEF LockOK
  <2> QED
    BY <2>1, <2>2
<1>6. ASSUME NEW d \in Cmd, stage'[d] \in {"posting", "answered"} PROVE lock'[1] = d
  <2>1. d # c /\ stage'[d] = stage[d]
    BY <1>1, <1>6
  <2>2. lock[1] = d /\ InLock(d)
    BY <1>1, <1>6, <2>1 DEF LockOK, Holding
  <2>3. 1 \in 1 .. n
    BY <1>1, <2>2 DEF InLock, n
  <2> QED
    BY <1>2, <2>2, <2>3
<1>7. ASSUME NEW i \in 1 .. n + 1, NEW j \in 1 .. n + 1, j < i, lock'[i] \notin retried'
      PROVE  cmdSeq'[lock'[j]] < cmdSeq'[lock'[i]]
  <2>1. j \in 1 .. n
    BY <1>1, <1>7
  <2>2. CASE i = n + 1
    BY <1>2, <1>7, <2>1, <2>2
  <2>3. CASE i \in 1 .. n
    BY <1>1, <1>2, <1>7, <2>1, <2>3 DEF LockOK, n
  <2> QED
    BY <1>3, <2>2, <2>3
<1> QED
  BY <1>2, <1>4, <1>5, <1>6, <1>7 DEF LockOK

\* A step that leaves the queue alone, on which c at most gets on at the head.
LEMMA StaysInQueue ==
  ASSUME KeptInv, lock' = lock, cmdSeq' = cmdSeq, retried \subseteq retried',
         \A d \in Cmd : stage'[d] \in Holding <=> stage[d] \in Holding,
         \A d \in Cmd : stage'[d] \in {"posting", "answered"} => lock[1] = d
  PROVE  LockOK'
<1>1. LockOK
  BY DEF KeptInv
<1>2. \A d \in Cmd : InLock(d)' <=> InLock(d)
  BY DEF InLock
<1> QED
  BY <1>1, <1>2 DEF LockOK

\* Only one call has the lock.
LEMMA OneHolds ==
  ASSUME KeptInv, NEW c \in Cmd, NEW d \in Cmd,
         stage[c] \in {"posting", "answered"}, stage[d] \in {"posting", "answered"}
  PROVE  c = d
BY DEF KeptInv, LockOK

\* Who has the lock is the first in its queue, and a call before which nobody
\* was refused is the oldest there.
LEMMA HasLockIsFirst ==
  ASSUME KeptInv, NEW c \in Cmd, HasLock(c)
  PROVE  /\ lock[1] = c
         /\ \A d \in Cmd : stage[d] \in Holding /\ d \notin retried => cmdSeq[c] <= cmdSeq[d]
<1>1. LockOK /\ cmdSeq \in [Cmd -> Nat] /\ Len(lock) \in Nat /\ lock # <<>>
  BY LenProperties DEF KeptInv, LockOK, RestTypesInv, RestTypeOK, TypeOK, HasLock
<1>2. lock[1] = c /\ Len(lock) # 0
  BY <1>1, EmptySeq DEF HasLock, LockOK
<1>3. ASSUME NEW d \in Cmd, stage[d] \in Holding, d \notin retried
      PROVE  cmdSeq[c] <= cmdSeq[d]
  <2>1. PICK i \in 1 .. Len(lock) : lock[i] = d
    BY <1>1, <1>3 DEF LockOK, InLock
  <2>2. CASE i = 1
    BY <1>1, <1>2, <2>1, <2>2
  <2>3. CASE i # 1
    <3>1. 1 \in 1 .. Len(lock) /\ 1 < i
      BY <1>1, <1>2, <2>3
    <3>2. cmdSeq[lock[1]] < cmdSeq[lock[i]]
      BY <1>1, <1>3, <2>1, <3>1 DEF LockOK
    <3> QED
      BY <1>1, <1>2, <2>1, <3>2
  <2> QED
    BY <2>2, <2>3
<1> QED
  BY <1>2, <1>3

-----------------------------------------------------------------------------
(* The steps. *)

\* The types the steps rest on.
LEMMA KeptTypes ==
  ASSUME KeptInv
  PROVE  /\ FullInv /\ IInv /\ TypeOK /\ SeqsOK /\ CountsOK /\ StagesOK
         /\ stage \in [Cmd -> Stage] /\ reply \in [Cmd -> Reply] /\ retried \subseteq Cmd
         /\ hcu \in [Scope -> [Field -> [seq : Nat, late : BOOLEAN]]]
         /\ cmdSeq \in [Cmd -> Nat] /\ sentFrom \in [Cmd -> [Field -> Nat]]
         /\ phase \in [Cmd -> Phase]
         /\ Acknowledged \subseteq Cmd
         /\ \A c \in Cmd : Scp(c) \in Scope /\ Updates(c) \subseteq Field /\ Sets(c) \subseteq Field
<1>1. FullInv /\ IInv /\ TypeOK /\ SeqsOK /\ CountsOK /\ StagesOK /\ RestTypeOK
  BY DEF KeptInv, RestTypesInv, RestInv, FullInv, IInv
<1>2. \A c \in Cmd : Scp(c) \in Scope /\ request[c] \in Request
  BY <1>1, KeyType
<1>3. \A c \in Cmd : Updates(c) \subseteq Field /\ Sets(c) \subseteq Field
  BY <1>2, TablesAssumption DEF Updates, Sets
<1> QED
  BY <1>1, <1>2, <1>3 DEF RestTypeOK, TypeOK, Acknowledged

\* The names of a call mean the same while its request stays.
LEMMA SameRequest ==
  ASSUME request' = request
  PROVE  \A c \in Cmd : Scp(c)' = Scp(c) /\ Updates(c)' = Updates(c) /\ Sets(c)' = Sets(c)
BY DEF Scp, Updates, Sets

\* A step on which nothing is applied, nobody posts and nobody is acknowledged.
LEMMA ValuesKept ==
  ASSUME KeptInv, request' = request, hcu' = hcu, Acknowledged' \subseteq Acknowledged,
         \A d \in Cmd : stage[d] # "idle" => cmdSeq'[d] = cmdSeq[d],
         \A d \in Cmd : stage'[d] = "posting" =>
           /\ stage[d] = "posting" /\ sentFrom'[d] = sentFrom[d]
           /\ reply'[d] = "ok" => reply[d] = "ok"
  PROVE  ValuesOK'
<1>1. \A c \in Cmd : Scp(c)' = Scp(c) /\ Updates(c)' = Updates(c) /\ Sets(c)' = Sets(c)
  BY SameRequest
<1>2. Acknowledged \subseteq Cmd /\ \A d \in Acknowledged : cmdSeq'[d] = cmdSeq[d]
  BY KeptTypes DEF Acknowledged
<1>3. ValuesOK
  BY DEF KeptInv
<1>4. PostedOK'
  BY <1>1, <1>2, <1>3 DEF ValuesOK, PostedOK
<1>5. AppliedOK'
  BY <1>1, <1>2, <1>3 DEF ValuesOK, AppliedOK
<1>6. NewerValueKept'
  BY <1>1, <1>2, <1>3 DEF ValuesOK, NewerValueKept
<1> QED
  BY <1>4, <1>5, <1>6 DEF ValuesOK

\* A step that records nothing and after which nobody new runs or is acknowledged.
LEMMA RecordedKept ==
  ASSUME KeptInv, request' = request, cmdSeq' = cmdSeq, overrides' = overrides,
         Acknowledged' \subseteq Acknowledged, Active' \subseteq Active
  PROVE  AcknowledgedRecorded'
<1>1. AcknowledgedRecorded /\ Acknowledged \subseteq Cmd /\ Active \subseteq Cmd
  BY KeptTypes DEF KeptInv, Active
<1> QED
  BY <1>1, SameRequest DEF AcknowledgedRecorded

\* A step after which no call that is not over has an older POST under way.
LEMMA OrderKept ==
  ASSUME KeptInv, cmdSeq' = cmdSeq, sentFrom' = sentFrom,
         \A d \in Cmd :
           /\ phase[d] = "done" => phase'[d] = "done"
           /\ phase'[d] = "new" => phase[d] = "new" /\ stage'[d] = stage[d]
           /\ d \in retried' => d \in retried \/ phase[d] # "new"
           /\ d \in retried => d \in retried'
           /\ stage'[d] = "asleep" => stage[d] = "asleep" \/ d \in retried'
           /\ reply'[d] = "sent" => reply[d] = "sent"
           /\ reply'[d] = "sent" /\ stage[d] = "posting" =>
                stage'[d] = "posting" \/ phase'[d] = "done"
  PROVE  OrderOK'
<1>1. OrderOK
  BY DEF KeptInv
<1>2. StartedOK'
  BY <1>1 DEF OrderOK, StartedOK
<1>3. ReplyOK'
  BY <1>1 DEF OrderOK, ReplyOK
<1>4. SentNew'
  BY <1>1 DEF OrderOK, SentNew
<1> QED
  BY <1>2, <1>3, <1>4 DEF OrderOK

\* A step on which one call moves: nobody new counts as not refused, and who may
\* have been posted was refused or behind nobody.
LEMMA FirstKept ==
  ASSUME KeptInv, cmdSeq' = cmdSeq, NEW e \in Cmd,
         \A d \in Cmd \ {e} : stage'[d] = stage[d] /\ (d \in retried' <=> d \in retried),
         e \in retried => e \in retried',
         stage'[e] \in Holding => stage[e] \in Holding \/ e \in retried',
         \/ (e \in retried' <=> e \in retried) /\ stage'[e] \in {"queued", "failed"}
         \/ stage[e] \notin {"queued", "failed"}
         \/ e \in retried
         \/ \A c \in Cmd : stage[c] \in Holding /\ c \notin retried => cmdSeq[e] <= cmdSeq[c]
  PROVE  FirstOK'
<1>1. FirstOK /\ cmdSeq \in [Cmd -> Nat]
  BY KeptTypes DEF KeptInv
<1> SUFFICES ASSUME NEW c \in Cmd, NEW d \in Cmd,
                    stage'[c] \in Holding, c \notin retried', cmdSeq[d] > cmdSeq[c]
             PROVE  d \notin retried' /\ stage'[d] \in {"queued", "failed"}
  BY DEF FirstOK
<1>2. stage[c] \in Holding /\ c \notin retried
  BY DEF Holding
<1>3. d \notin retried /\ stage[d] \in {"queued", "failed"}
  BY <1>1, <1>2 DEF FirstOK
<1>4. CASE d # e
  BY <1>3, <1>4
<1>5. CASE d = e
  BY <1>1, <1>2, <1>3, <1>5
<1> QED
  BY <1>4, <1>5

LEMMA FinishValues ==
  ASSUME KeptInv, NEW c \in Active, NEW ok \in BOOLEAN, Finish(c, ok),
         ok => stage[c] = "answered"
  PROVE  LockOK' /\ FirstOK' /\ OrderOK' /\ AcknowledgedRecorded' /\ ValuesOK'
<1>1. c \in Cmd /\ Leave(c, ok) /\ phase[c] # "new" /\ phase[c] # "done"
  BY DEF Finish, Active
<1>2. /\ stage' = [stage EXCEPT ![c] = IF ok THEN "succeeded" ELSE "failed"]
      /\ lock' = LockWithout(c)
      /\ retried' = retried /\ reply' = reply /\ hcu' = hcu
      /\ request' = request /\ cmdSeq' = cmdSeq /\ sentFrom' = sentFrom
  BY <1>1 DEF Finish, Leave
<1>3. /\ Active' = Active \ {c} /\ \A d \in Cmd : phase'[d] = "new" <=> phase[d] = "new"
  BY <1>1, KeptTypes, LeaveActive
<1>4. Acknowledged' \subseteq Acknowledged
  BY <1>1, <1>2, KeptTypes DEF Acknowledged
<1>5. stage'[c] \in {"succeeded", "failed"} /\ \A d \in Cmd \ {c} : stage'[d] = stage[d]
  BY <1>1, <1>2, KeptTypes
<1>6. \A d \in Cmd : phase[d] = "done" \/ d = c => phase'[d] = "done"
  <2> SUFFICES ASSUME NEW d \in Cmd, phase[d] = "done" \/ d = c PROVE phase'[d] = "done"
    OBVIOUS
  <2>1. d \notin Active' /\ phase'[d] # "new"
    BY <1>1, <1>3 DEF Active
  <2>2. phase' \in [Cmd -> Phase]
    BY <1>1, KeptTypes, LeaveType DEF TypeOK
  <2> QED
    BY <2>1, <2>2 DEF Active, Phase
<1>7. LockOK'
  <2>1. CASE stage[c] \in Holding
    <3>1. (IF ok THEN "succeeded" ELSE "failed") \in Stage \ Holding
      BY DEF Stage, Holding
    <3> QED
      BY <1>1, <1>2, <2>1, <3>1, LeavesQueue
  <2>2. CASE stage[c] \notin Holding
    <3>1. lock' = lock
      BY <1>1, <1>2, <2>2 DEF LockWithout, KeptInv, LockOK
    <3>2. \A d \in Cmd : stage'[d] \in Holding <=> stage[d] \in Holding
      BY <1>5, <2>2 DEF Holding
    <3>3. \A d \in Cmd : stage'[d] \in {"posting", "answered"} => lock[1] = d
      BY <1>5 DEF KeptInv, LockOK
    <3> QED
      BY <1>2, <3>1, <3>2, <3>3, StaysInQueue
  <2> QED
    BY <2>1, <2>2
<1>8. FirstOK'
  BY <1>1, <1>2, <1>5, FirstKept DEF Holding
<1>9. OrderOK'
  BY <1>2, <1>3, <1>5, <1>6, <1>1, OrderKept
<1>10. AcknowledgedRecorded'
  <2>1. TypeOK /\ CountsOK /\ FullInv /\ FullInv'
    BY <1>1, KeptTypes, LeaveKeeps
  <2>2. TypeOK'
    BY <2>1 DEF FullInv, IInv
  <2> SUFFICES ASSUME NEW d \in Acknowledged', NEW e \in Active', NEW f \in Field,
                      Scp(e) = Scp(d), cmdSeq[e] < cmdSeq[d], f \in Updates(d)
               PROVE  overrides'[Scp(e)][f].seq >= cmdSeq[d]
    BY <1>2 DEF AcknowledgedRecorded, Scp, Updates
  <2>3. d \in Cmd /\ d \in Acknowledged /\ e \in Active /\ e # c /\ e \in Cmd /\ Scp(e) \in Scope
    BY <1>3, <1>4, KeptTypes DEF Active
  <2>4. /\ overrides[Scp(e)][f].seq \in Nat /\ overrides'[Scp(e)][f].seq \in Nat
        /\ cmdSeq[d] \in Nat
    BY <2>1, <2>2, <2>3 DEF TypeOK
  <2>5. overrides'[Scp(e)][f].seq >= overrides[Scp(e)][f].seq
    BY <1>1, <2>1, <2>3, LeavingGrows
  <2>6. overrides[Scp(e)][f].seq >= cmdSeq[d]
    BY <2>3 DEF KeptInv, AcknowledgedRecorded
  <2> QED
    BY <2>4, <2>5, <2>6
<1>11. ValuesOK'
  BY <1>2, <1>4, <1>5, ValuesKept
<1> QED
  BY <1>7, <1>8, <1>9, <1>10, <1>11

LEMMA CallValues ==
  ASSUME KeptInv, NEW c \in Cmd, Call(c)
  PROVE  LockOK' /\ FirstOK' /\ OrderOK' /\ AcknowledgedRecorded' /\ ValuesOK'
<1>1. /\ phase[c] = "new" /\ stage[c] = "idle" /\ c \notin retried /\ reply[c] # "sent"
  BY DEF Call, Enter, KeptInv, OrderOK, StartedOK, ReplyOK
<1>2. /\ stage' = [stage EXCEPT ![c] = "queued"] /\ lock' = Append(lock, c)
      /\ retried' = retried /\ reply' = reply /\ hcu' = hcu
      /\ request' = request /\ overrides' = overrides
      /\ cmdSeq' = [cmdSeq EXCEPT ![c] = commandSeq + 1]
      /\ sentFrom' = [sentFrom EXCEPT ![c] = [f \in Field |-> commandSeq + 1]]
  BY DEF Call, Enter
<1>3. /\ cmdSeq'[c] = commandSeq + 1 /\ commandSeq \in Nat
      /\ \A d \in Cmd : cmdSeq[d] \in Nat /\ cmdSeq[d] < cmdSeq'[c]
      /\ \A d \in Cmd \ {c} : cmdSeq'[d] = cmdSeq[d] /\ sentFrom'[d] = sentFrom[d]
      /\ \A d \in Cmd \ {c} : stage'[d] = stage[d]
      /\ stage'[c] = "queued" /\ \A f \in Field : sentFrom'[c][f] = commandSeq + 1
  BY <1>2, KeptTypes DEF SeqsOK, TypeOK
<1>4. /\ Active' = Active \cup {c} /\ phase'[c] = "running"
      /\ \A d \in Cmd \ {c} : phase'[d] = "new" <=> phase[d] = "new"
  BY KeptTypes, EnterActive DEF Call
<1>5. \A d \in Cmd \ {c} : phase[d] = "done" => phase'[d] = "done"
  BY KeptTypes DEF Call, Enter, Woken
<1>6. LockOK'
  BY <1>1, <1>2, <1>3, JoinsQueue DEF Holding
<1>7. FirstOK'
  <2> SUFFICES ASSUME NEW a \in Cmd, NEW d \in Cmd,
                      stage'[a] \in Holding, a \notin retried, cmdSeq'[d] > cmdSeq'[a]
               PROVE  d \notin retried /\ stage'[d] \in {"queued", "failed"}
    BY <1>2 DEF FirstOK
  <2>1. a # c
    BY <1>3
  <2>2. CASE d = c
    BY <1>1, <1>3, <2>2
  <2>3. CASE d # c
    BY <1>3, <2>1, <2>3 DEF KeptInv, FirstOK
  <2> QED
    BY <2>2, <2>3
<1>8. OrderOK'
  <2>1. OrderOK
    BY DEF KeptInv
  <2>2. StartedOK'
    BY <1>2, <1>3, <1>4, <2>1 DEF OrderOK, StartedOK
  <2>3. ReplyOK'
    BY <1>1, <1>2, <1>3, <1>5, <2>1 DEF OrderOK, ReplyOK
  <2>4. SentNew'
    BY <1>3, <2>1 DEF OrderOK, SentNew
  <2> QED
    BY <2>2, <2>3, <2>4 DEF OrderOK
<1>9. Acknowledged' = Acknowledged /\ c \notin Acknowledged /\ Acknowledged \subseteq Cmd
  BY <1>1, <1>3, KeptTypes DEF Acknowledged
<1>10. AcknowledgedRecorded'
  <2> SUFFICES ASSUME NEW d \in Acknowledged, NEW e \in Active', NEW f \in Field,
                      Scp(e) = Scp(d), cmdSeq'[e] < cmdSeq'[d], f \in Updates(d)
               PROVE  overrides[Scp(e)][f].seq >= cmdSeq'[d]
    BY <1>2, <1>9 DEF AcknowledgedRecorded, Scp, Updates
  <2>1. d \in Cmd \ {c} /\ cmdSeq'[d] = cmdSeq[d] /\ cmdSeq[d] < cmdSeq'[c]
    BY <1>3, <1>9
  <2>2. e # c
    BY <1>3, <2>1
  <2>3. e \in Active /\ cmdSeq'[e] = cmdSeq[e]
    BY <1>3, <1>4, <2>2 DEF Active
  <2> QED
    BY <2>1, <2>3 DEF KeptInv, AcknowledgedRecorded
<1>11. ValuesOK'
  BY <1>1, <1>2, <1>3, <1>9, ValuesKept
<1> QED
  BY <1>6, <1>7, <1>8, <1>10, <1>11

\* The POST of a body that is new enough.
LEMMA SendValues ==
  ASSUME KeptInv, NEW c \in Cmd, Send(c), stage[c] = "queued", HasLock(c),
         UNCHANGED <<request, phase, cmdSeq, overrides>>,
         \A d \in Cmd \ {c} : sentFrom'[d] = sentFrom[d],
         \A f \in Field : sentFrom'[c][f] >= cmdSeq[c],
         \A d \in Acknowledged : \A f \in Updates(d) :
           Scp(c) = Scp(d) /\ f \in Sets(c) => sentFrom'[c][f] >= cmdSeq[d]
  PROVE  LockOK' /\ FirstOK' /\ OrderOK' /\ AcknowledgedRecorded' /\ ValuesOK'
<1>1. /\ stage' = [stage EXCEPT ![c] = "posting"] /\ reply' = [reply EXCEPT ![c] = "sent"]
      /\ retried' = retried /\ lock' = lock /\ hcu' = hcu
  BY DEF Send
<1>2. /\ stage'[c] = "posting" /\ \A d \in Cmd \ {c} : stage'[d] = stage[d]
      /\ reply'[c] = "sent" /\ \A d \in Cmd \ {c} : reply'[d] = reply[d]
  BY <1>1, KeptTypes
<1>3. /\ lock[1] = c
      /\ \A d \in Cmd : stage[d] \in Holding /\ d \notin retried => cmdSeq[c] <= cmdSeq[d]
  BY HasLockIsFirst
<1>4. LockOK'
  <2>1. \A d \in Cmd : stage'[d] \in Holding <=> stage[d] \in Holding
    BY <1>2 DEF Holding
  <2>2. \A d \in Cmd : stage'[d] \in {"posting", "answered"} => lock[1] = d
    BY <1>2, <1>3 DEF KeptInv, LockOK
  <2> QED
    BY <1>1, <2>1, <2>2, StaysInQueue
<1>5. FirstOK'
  BY <1>1, <1>2, <1>3, FirstKept DEF Holding
<1>6. OrderOK'
  <2>1. OrderOK /\ phase[c] = "running"
    BY KeptTypes DEF KeptInv, StagesOK
  <2>2. StartedOK'
    BY <1>1, <1>2, <2>1 DEF OrderOK, StartedOK
  <2>3. ReplyOK'
    BY <1>2, <2>1 DEF OrderOK, ReplyOK
  <2>4. SentNew'
    BY <2>1 DEF OrderOK, SentNew
  <2> QED
    BY <2>2, <2>3, <2>4 DEF OrderOK
<1>7. Acknowledged' = Acknowledged
  BY <1>2 DEF Acknowledged
<1>8. AcknowledgedRecorded'
  BY <1>7, RecordedKept DEF Active
<1>9. ValuesOK'
  <2>1. \A d \in Cmd : Scp(d)' = Scp(d) /\ Updates(d)' = Updates(d) /\ Sets(d)' = Sets(d)
    BY SameRequest
  <2>2. ValuesOK /\ Acknowledged \subseteq Cmd
    BY KeptTypes DEF KeptInv
  <2>3. PostedOK'
    <3> SUFFICES ASSUME NEW e \in Cmd, NEW d \in Acknowledged, NEW f \in Updates(d),
                        stage'[e] = "posting", Scp(e) = Scp(d), f \in Sets(e)
                 PROVE  sentFrom'[e][f] >= cmdSeq[d]
      BY <1>7, <2>1, <2>2 DEF PostedOK
    <3> QED
      BY <1>2, <2>2 DEF ValuesOK, PostedOK
  <2>4. AppliedOK'
    BY <1>1, <1>2, <2>1, <2>2 DEF ValuesOK, AppliedOK
  <2>5. NewerValueKept'
    BY <1>1, <1>7, <2>1, <2>2 DEF ValuesOK, NewerValueKept
  <2> QED
    BY <2>3, <2>4, <2>5 DEF ValuesOK
<1> QED
  BY <1>4, <1>5, <1>6, <1>8, <1>9

\* When a call posts first, nothing newer is acknowledged.
LEMMA PostValues ==
  ASSUME KeptInv, NEW c \in Cmd, Post(c)
  PROVE  LockOK' /\ FirstOK' /\ OrderOK' /\ AcknowledgedRecorded' /\ ValuesOK'
<1>1. /\ HasLock(c) /\ stage[c] = "queued" /\ c \notin retried /\ Send(c)
      /\ UNCHANGED <<request, phase, cmdSeq, overrides, sentFrom>>
  BY DEF Post, trackVars
<1>2. ASSUME NEW d \in Acknowledged, NEW f \in Updates(d) PROVE sentFrom[c][f] >= cmdSeq[d]
  <2>1. d \in Cmd /\ f \in Field /\ cmdSeq[c] \in Nat /\ cmdSeq[d] \in Nat
        /\ sentFrom[c][f] \in Nat /\ sentFrom[c][f] >= cmdSeq[c]
    BY KeptTypes DEF KeptInv, OrderOK, SentNew
  <2>2. ~(cmdSeq[d] > cmdSeq[c])
    BY <1>1, <2>1 DEF KeptInv, FirstOK, Holding, Acknowledged
  <2> QED
    BY <2>1, <2>2
<1>3. \A f \in Field : sentFrom[c][f] >= cmdSeq[c]
  BY DEF KeptInv, OrderOK, SentNew
<1> QED
  BY <1>1, <1>2, <1>3, SendValues

\* When it posts again, it was not replaced, so that what newer commands decided is
\* among the fields its body takes over.
LEMMA PostRetryValues ==
  ASSUME KeptInv, NEW c \in Cmd, PostRetry(c)
  PROVE  LockOK' /\ FirstOK' /\ OrderOK' /\ AcknowledgedRecorded' /\ ValuesOK'
<1>1. /\ HasLock(c) /\ stage[c] = "queued" /\ Send(c) /\ ~Superseded(c)
      /\ UNCHANGED <<request, phase, cmdSeq, overrides>>
      /\ sentFrom' = [sentFrom EXCEPT ![c] = Refreshed(c)]
  BY DEF PostRetry
<1>2. c \in Active /\ FullInv /\ TypeOK /\ Scp(c) \in Scope
  BY <1>1, KeptTypes DEF StagesOK, Active
<1>3. /\ sentFrom'[c] = Refreshed(c) /\ \A d \in Cmd \ {c} : sentFrom'[d] = sentFrom[d]
  BY <1>1, KeptTypes
<1>4. ASSUME NEW f \in Field
      PROVE  /\ cmdSeq[c] \in Nat /\ overrides[Scp(c)][f].seq \in Nat
             /\ sentFrom'[c][f] = IF f \in CarriesOf[request[c]] /\ overrides[Scp(c)][f].seq > cmdSeq[c]
                                    THEN overrides[Scp(c)][f].seq ELSE cmdSeq[c]
  <2>1. /\ cmdSeq[c] \in Nat /\ overrides[Scp(c)][f].seq \in Nat
        /\ overrides[Scp(c)][f].from = overrides[Scp(c)][f].seq
    BY <1>2 DEF TypeOK, FullInv, RecordedByItsAuthor
  <2>2. Refreshed(c)[f] = IF f \in CarriesOf[request[c]] /\ overrides[Scp(c)][f].seq > cmdSeq[c]
                            THEN overrides[Scp(c)][f].from ELSE cmdSeq[c]
    BY DEF Refreshed
  <2> QED
    BY <1>3, <2>1, <2>2
<1>5. ASSUME NEW d \in Acknowledged, NEW f \in Updates(d), Scp(c) = Scp(d), f \in Sets(c)
      PROVE  sentFrom'[c][f] >= cmdSeq[d]
  <2>1. d \in Cmd /\ f \in Field /\ cmdSeq[d] \in Nat
    BY KeptTypes
  <2>2. CASE cmdSeq[d] <= cmdSeq[c]
    BY <1>4, <2>1, <2>2
  <2>3. CASE cmdSeq[c] < cmdSeq[d]
    <3>1. overrides[Scp(c)][f].seq >= cmdSeq[d]
      BY <1>2, <1>5, <2>1, <2>3 DEF KeptInv, AcknowledgedRecorded
    <3>2. f \in CarriesOf[request[c]]
      <4>1. SUFFICES ASSUME f \notin CarriesOf[request[c]] PROVE FALSE
        OBVIOUS
      <4>2. /\ request[c] \in Request /\ request[d] \in Request
            /\ ScopeOf[request[d]] = ScopeOf[request[c]]
        BY <1>2, <1>5, <2>1, KeyType DEF Scp
      <4>3. f \in (UpdatesOf[request[d]] \cap UpdatesOf[request[c]]) \ CarriesOf[request[c]]
        BY <1>5, <4>1 DEF Sets, Updates
      <4>4. <<request[d], request[c]>> \in Replacing
        BY <4>2, <4>3, DecidedAssumption
      <4>5. phase[d] # "new"
        BY DEF Acknowledged, KeptInv, OrderOK, StartedOK
      <4>6. CalledLater(d, c)
        BY <2>3, <4>4, <4>5 DEF CalledLater
      <4> QED
        BY <1>1, <1>2, <2>1, <4>6, NotReplaced
    <3> QED
      BY <1>4, <2>1, <2>3, <3>1, <3>2
  <2> QED
    BY <1>4, <2>1, <2>2, <2>3
<1>6. \A f \in Field : sentFrom'[c][f] >= cmdSeq[c]
  BY <1>4
<1> QED
  BY <1>1, <1>3, <1>5, <1>6, SendValues

\* The answer to a POST.
LEMMA RecordValues ==
  ASSUME KeptInv, NEW c \in Cmd, RecordSuccess(c)
  PROVE  LockOK' /\ FirstOK' /\ OrderOK' /\ AcknowledgedRecorded' /\ ValuesOK'
<1>1. /\ stage[c] = "posting" /\ reply[c] = "ok" /\ Record(c)
      /\ stage' = [stage EXCEPT ![c] = "answered"]
      /\ retried' = retried /\ lock' = lock /\ reply' = reply /\ hcu' = hcu
      /\ request' = request /\ cmdSeq' = cmdSeq /\ sentFrom' = sentFrom
  BY DEF RecordSuccess, Record
<1>2. /\ stage'[c] = "answered" /\ \A d \in Cmd \ {c} : stage'[d] = stage[d]
  BY <1>1, KeptTypes
<1>3. c \in Active /\ phase[c] = "running" /\ FullInv /\ FullInv' /\ Quiet
  BY <1>1, KeptTypes, RecordStep, RecordKeeps DEF StagesOK, Active
<1>4. Acknowledged' = Acknowledged \cup {c}
  BY <1>2 DEF Acknowledged
<1>5. LockOK'
  <2>1. \A d \in Cmd : stage'[d] \in Holding <=> stage[d] \in Holding
    BY <1>1, <1>2 DEF Holding
  <2>2. \A d \in Cmd : stage'[d] \in {"posting", "answered"} => lock[1] = d
    BY <1>1, <1>2 DEF KeptInv, LockOK
  <2> QED
    BY <1>1, <2>1, <2>2, StaysInQueue
<1>6. FirstOK'
  BY <1>1, <1>2, FirstKept DEF Holding
<1>7. OrderOK'
  <2>1. \A d \in Cmd : phase[d] = "done" => phase'[d] = "done"
    BY <1>1, KeptTypes DEF Record, PopInflight, Woken
  <2>2. \A d \in Cmd : phase'[d] = "new" => phase[d] = "new" /\ d # c
    BY <1>3 DEF Quiet
  <2> QED
    BY <1>1, <1>2, <2>1, <2>2, OrderKept
<1>8. AcknowledgedRecorded'
  <2> SUFFICES ASSUME NEW d \in Acknowledged \cup {c}, NEW e \in Active, NEW f \in Field,
                      Scp(e) = Scp(d), cmdSeq[e] < cmdSeq[d], f \in Updates(d)
               PROVE  overrides'[Scp(e)][f].seq >= cmdSeq[d]
    BY <1>3, <1>4 DEF AcknowledgedRecorded, Quiet, Scp, Updates
  <2>1. d \in Cmd /\ e \in Cmd /\ Scp(e) \in Scope
    BY KeptTypes DEF Active
  <2>2. TypeOK /\ CountsOK /\ TypeOK'
    BY <1>3 DEF FullInv, IInv
  <2>3. /\ overrides[Scp(e)][f].seq \in Nat /\ overrides'[Scp(e)][f].seq \in Nat
        /\ cmdSeq[d] \in Nat /\ cmdSeq[e] \in Nat
    BY <2>1, <2>2 DEF TypeOK
  <2>4. CASE e # c
    <3>1. /\ overrides'[Scp(e)][f].seq >= overrides[Scp(e)][f].seq
          /\ Scp(e) = Scp(c) /\ f \in Updates(c)
               => overrides'[Scp(e)][f].seq >= cmdSeq[c]
      BY <1>1, <1>3, <2>2, <2>4, RecordGrows
    <3>2. d \in Acknowledged => overrides[Scp(e)][f].seq >= cmdSeq[d]
      BY DEF KeptInv, AcknowledgedRecorded
    <3> QED
      BY <2>3, <3>1, <3>2
  <2>5. CASE e = c
    <3>1. d \in Acknowledged
      BY <2>3, <2>5
    <3>2. overrides[Scp(e)][f].seq >= cmdSeq[d]
      BY <3>1 DEF KeptInv, AcknowledgedRecorded
    <3>3. \/ overrides'[Scp(e)][f] = overrides[Scp(e)][f]
          \/ /\ overrides[Scp(e)][f].seq < cmdSeq[c]
             /\ overrides'[Scp(e)][f] = [seq |-> cmdSeq[c], from |-> sentFrom[c][f]]
      <4>1. sentFrom[c] \in [Field -> Nat]
        BY <2>2 DEF TypeOK
      <4> QED
        BY <1>1, <2>1, <2>2, <4>1, RecordedEntry DEF Record
    <3> QED
      BY <2>3, <2>5, <3>2, <3>3
  <2> QED
    BY <2>4, <2>5
<1>9. ValuesOK'
  <2>1. \A d \in Cmd : Scp(d)' = Scp(d) /\ Updates(d)' = Updates(d) /\ Sets(d)' = Sets(d)
    BY <1>1, SameRequest
  <2>2. ValuesOK /\ Acknowledged \subseteq Cmd
    BY KeptTypes DEF KeptInv
  <2>3. \A d \in Cmd : stage'[d] # "posting"
    BY <1>1, <1>2, OneHolds
  <2>4. PostedOK'
    BY <2>3 DEF PostedOK
  <2>5. AppliedOK'
    BY <2>3 DEF AppliedOK
  <2>6. NewerValueKept'
    <3> SUFFICES ASSUME NEW d \in Acknowledged \cup {c}, NEW f \in Updates(d)
                 PROVE  hcu[Scp(d)][f].seq >= cmdSeq[d] \/ hcu[Scp(d)][f].late
      BY <1>1, <1>4, <2>1, <2>2 DEF NewerValueKept
    <3> QED
      BY <1>1, <2>2 DEF ValuesOK, AppliedOK, NewerValueKept
  <2> QED
    BY <2>4, <2>5, <2>6 DEF ValuesOK
<1> QED
  BY <1>5, <1>6, <1>7, <1>8, <1>9

\* The steps between a refusal and the next POST.
LEMMA RetryValues ==
  ASSUME KeptInv, NEW c \in Cmd,
         BackOff(c) \/ AwaitNewer(c) \/ ((QueueRetry(c) \/ WaitTimeout(c)) /\ ~Superseded(c))
  PROVE  LockOK' /\ FirstOK' /\ OrderOK' /\ AcknowledgedRecorded' /\ ValuesOK'
<1>1. CASE BackOff(c)
  <2>1. /\ stage[c] = "posting" /\ reply[c] = "busy" /\ UNCHANGED trackVars
        /\ stage' = [stage EXCEPT ![c] = "asleep"] /\ retried' = retried \cup {c}
        /\ lock' = LockWithout(c) /\ reply' = reply /\ hcu' = hcu
    BY <1>1 DEF BackOff
  <2>2. stage'[c] = "asleep" /\ \A d \in Cmd \ {c} : stage'[d] = stage[d]
    BY <2>1, KeptTypes
  <2>3. UNCHANGED <<request, phase, cmdSeq, sentFrom, overrides>> /\ phase[c] = "running"
    BY <2>1, KeptTypes DEF trackVars, StagesOK
  <2>4. LockOK'
    BY <2>1, <2>3, LeavesQueue DEF Holding, Stage
  <2>5. FirstOK'
    BY <2>1, <2>2, <2>3, FirstKept DEF Holding
  <2>6. OrderOK'
    BY <2>1, <2>2, <2>3, OrderKept
  <2>7. Acknowledged' \subseteq Acknowledged
    BY <2>2 DEF Acknowledged
  <2>8. AcknowledgedRecorded' /\ ValuesOK'
    BY <2>1, <2>2, <2>3, <2>7, RecordedKept, ValuesKept DEF Active
  <2> QED
    BY <2>4, <2>5, <2>6, <2>8
<1>2. CASE AwaitNewer(c)
  <2>1. /\ Wait(c) /\ UNCHANGED <<stage, retried, lock, reply, hcu>> /\ c \in Active
        /\ stage[c] = "asleep"
    BY <1>2 DEF AwaitNewer, restVars, Active
  <2>2. UNCHANGED <<request, cmdSeq, sentFrom, overrides>> /\ Quiet
    BY <1>2, <2>1, KeptTypes, AwaitKeeps DEF Wait, AwaitNewer
  <2>3. \A d \in Cmd : phase[d] = "done" => phase'[d] = "done"
    BY <2>1, KeptTypes DEF Wait, Active
  <2>4. LockOK'
    BY <2>1, <2>2, StaysInQueue DEF KeptInv, LockOK
  <2>5. FirstOK'
    BY <2>1, <2>2 DEF KeptInv, FirstOK
  <2>6. OrderOK'
    BY <2>1, <2>2, <2>3, OrderKept DEF Quiet
  <2>7. Acknowledged' = Acknowledged /\ Active' = Active
    BY <2>1, <2>2 DEF Acknowledged, Quiet
  <2>8. AcknowledgedRecorded' /\ ValuesOK'
    BY <2>1, <2>2, <2>7, RecordedKept, ValuesKept
  <2> QED
    BY <2>4, <2>5, <2>6, <2>8
<1>3. CASE (QueueRetry(c) \/ WaitTimeout(c)) /\ ~Superseded(c)
  <2>1. c \in Active /\ GoOn(c) /\ stage[c] = "asleep" /\ c \in retried
    BY <1>3 DEF QueueRetry, WaitTimeout, Active, KeptInv, OrderOK, StartedOK
  <2>2. /\ Resume(c) /\ stage' = [stage EXCEPT ![c] = "queued"] /\ lock' = Append(lock, c)
        /\ UNCHANGED <<request, cmdSeq, gen, sentFrom, counters, inflight, overrides>>
        /\ retried' = retried /\ reply' = reply /\ hcu' = hcu
    BY <1>3, <2>1 DEF GoOn
  <2>3. Quiet /\ stage'[c] = "queued" /\ \A d \in Cmd \ {c} : stage'[d] = stage[d]
    BY <2>1, <2>2, KeptTypes, ResumeKeeps
  <2>4. \A d \in Cmd : phase[d] = "done" => phase'[d] = "done"
    BY <2>1, <2>2, KeptTypes DEF Resume, Active
  <2>5. LockOK'
    BY <2>1, <2>2, JoinsQueue DEF Holding
  <2>6. FirstOK'
    BY <2>1, <2>2, <2>3, FirstKept
  <2>7. OrderOK'
    <3>1. phase[c] # "new"
      BY <2>1 DEF Active
    <3> QED
      BY <2>1, <2>2, <2>3, <2>4, <3>1, OrderKept DEF Quiet
  <2>8. Acknowledged' \subseteq Acknowledged /\ Active' = Active
    BY <2>3 DEF Acknowledged, Quiet
  <2>9. AcknowledgedRecorded' /\ ValuesOK'
    BY <2>2, <2>3, <2>8, RecordedKept, ValuesKept
  <2> QED
    BY <2>5, <2>6, <2>7, <2>9
<1> QED
  BY <1>1, <1>2, <1>3

\* The HCU carries out a POST: its caller still waits for it, or is over.
LEMMA HcuValues ==
  ASSUME KeptInv, NEW c \in Cmd, HcuApply(c) \/ HcuRefuse(c)
  PROVE  LockOK' /\ FirstOK' /\ OrderOK' /\ AcknowledgedRecorded' /\ ValuesOK'
<1>1. /\ reply[c] = "sent" /\ UNCHANGED trackVars /\ UNCHANGED <<stage, retried, lock>>
      /\ \A d \in Cmd \ {c} : reply'[d] = reply[d]
      /\ reply'[c] # "sent" /\ (HcuRefuse(c) => reply'[c] # "ok")
  <2>1. CASE HcuApply(c)
    <3>1. reply[c] = "sent" /\ reply' = [reply EXCEPT ![c] = "ok"]
          /\ UNCHANGED trackVars /\ UNCHANGED <<stage, retried, lock>>
      BY <2>1 DEF HcuApply
    <3>2. ~HcuRefuse(c)
      <4> SUFFICES ASSUME HcuRefuse(c) PROVE FALSE
        OBVIOUS
      <4>1. PICK answer \in {"busy", "error"} : reply' = [reply EXCEPT ![c] = answer]
        BY DEF HcuRefuse
      <4> QED
        BY <3>1, <4>1, KeptTypes
    <3> QED
      BY <3>1, <3>2, KeptTypes
  <2>2. CASE HcuRefuse(c)
    <3>1. PICK answer \in {"busy", "error"} : reply' = [reply EXCEPT ![c] = answer]
      BY <2>2 DEF HcuRefuse
    <3> QED
      BY <2>2, <3>1, KeptTypes DEF HcuRefuse
  <2> QED
    BY <2>1, <2>2
<1>2. UNCHANGED <<request, phase, cmdSeq, sentFrom, overrides, stage, retried, lock>>
  BY <1>1 DEF trackVars
<1>3. LockOK'
  BY <1>2, StaysInQueue DEF KeptInv, LockOK
<1>4. FirstOK'
  BY <1>2 DEF KeptInv, FirstOK
<1>5. OrderOK'
  BY <1>1, <1>2, OrderKept
<1>6. Acknowledged' = Acknowledged /\ Active' = Active
  BY <1>2 DEF Acknowledged, Active
<1>7. AcknowledgedRecorded'
  BY <1>2, <1>6, RecordedKept
<1>8. ASSUME HcuApply(c) PROVE ValuesOK'
  <2>1. \A d \in Cmd : Scp(d)' = Scp(d) /\ Updates(d)' = Updates(d) /\ Sets(d)' = Sets(d)
    BY <1>2, SameRequest
  <2>2. ValuesOK /\ Acknowledged \subseteq Cmd
    BY KeptTypes DEF KeptInv
  <2>3. ASSUME NEW s \in Scope, NEW f \in Field
        PROVE  hcu'[s][f] = IF s = Scp(c) /\ f \in Sets(c)
                              THEN [seq |-> sentFrom[c][f], late |-> phase[c] = "done"]
                              ELSE hcu[s][f]
    BY <1>8, KeptTypes DEF HcuApply, Sets
  <2>4. stage[c] # "posting" => (phase[c] = "done") = TRUE
    BY <1>1 DEF KeptInv, OrderOK, ReplyOK
  <2>5. PostedOK'
    BY <1>2, <1>6, <2>1, <2>2 DEF ValuesOK, PostedOK
  <2>6. ASSUME NEW d \in Cmd, NEW f \in Updates(d), stage[d] = "posting", reply'[d] = "ok"
        PROVE  hcu'[Scp(d)][f].seq >= cmdSeq[d] \/ hcu'[Scp(d)][f].late
    <3>1. f \in Field /\ Scp(d) \in Scope
      BY KeptTypes
    <3>2. CASE Scp(d) = Scp(c) /\ f \in Sets(c)
      <4>1. hcu'[Scp(d)][f] = [seq |-> sentFrom[c][f], late |-> phase[c] = "done"]
        BY <2>3, <3>1, <3>2
      <4>2. CASE stage[c] = "posting"
        <5>1. c = d
          BY <2>6, <4>2, OneHolds
        <5>2. sentFrom[c][f] >= cmdSeq[d]
          BY <3>1, <5>1 DEF KeptInv, OrderOK, SentNew
        <5> QED
          BY <4>1, <5>2
      <4>3. CASE stage[c] # "posting"
        <5>1. (phase[c] = "done") = TRUE
          BY <2>4, <4>3
        <5>2. hcu'[Scp(d)][f] = [seq |-> sentFrom[c][f], late |-> TRUE]
          BY <4>1, <5>1, Zenon
        <5> QED
          BY <5>2
      <4> QED
        BY <4>2, <4>3
    <3>3. CASE ~(Scp(d) = Scp(c) /\ f \in Sets(c))
      <4>1. hcu'[Scp(d)][f] = hcu[Scp(d)][f]
        BY <2>3, <3>1, <3>3
      <4>2. d # c
        BY <3>3 DEF Sets
      <4>3. reply[d] = "ok"
        BY <1>1, <2>6, <4>2
      <4> QED
        BY <2>2, <2>6, <4>1, <4>3 DEF ValuesOK, AppliedOK
    <3> QED
      BY <3>2, <3>3
  <2>7. AppliedOK'
    BY <1>2, <2>1, <2>6 DEF AppliedOK
  <2>8. ASSUME NEW d \in Acknowledged, NEW f \in Updates(d)
        PROVE  hcu'[Scp(d)][f].seq >= cmdSeq[d] \/ hcu'[Scp(d)][f].late
    <3>1. d \in Cmd /\ f \in Field /\ Scp(d) \in Scope
      BY KeptTypes
    <3>2. CASE Scp(d) = Scp(c) /\ f \in Sets(c)
      <4>1. hcu'[Scp(d)][f] = [seq |-> sentFrom[c][f], late |-> phase[c] = "done"]
        BY <2>3, <3>1, <3>2
      <4>2. CASE stage[c] = "posting"
        <5>1. sentFrom[c][f] >= cmdSeq[d]
          BY <2>2, <3>2, <4>2 DEF ValuesOK, PostedOK
        <5> QED
          BY <4>1, <5>1
      <4>3. CASE stage[c] # "posting"
        <5>1. (phase[c] = "done") = TRUE
          BY <2>4, <4>3
        <5>2. hcu'[Scp(d)][f] = [seq |-> sentFrom[c][f], late |-> TRUE]
          BY <4>1, <5>1, Zenon
        <5> QED
          BY <5>2
      <4> QED
        BY <4>2, <4>3
    <3>3. CASE ~(Scp(d) = Scp(c) /\ f \in Sets(c))
      <4>1. hcu'[Scp(d)][f] = hcu[Scp(d)][f]
        BY <2>3, <3>1, <3>3
      <4> QED
        BY <2>2, <4>1 DEF ValuesOK, NewerValueKept
    <3> QED
      BY <3>2, <3>3
  <2>9. NewerValueKept'
    BY <1>2, <1>6, <2>1, <2>2, <2>8 DEF NewerValueKept
  <2> QED
    BY <2>5, <2>7, <2>9 DEF ValuesOK
<1>9. ASSUME HcuRefuse(c) PROVE ValuesOK'
  <2>1. hcu' = hcu
    BY <1>9 DEF HcuRefuse
  <2> QED
    BY <1>1, <1>2, <1>6, <1>9, <2>1, ValuesKept
<1> QED
  BY <1>3, <1>4, <1>5, <1>7, <1>8, <1>9

LEMMA KeptStep ==
  ASSUME KeptInv, [Next]_vars
  PROVE  KeptInv'
<1>1. RestTypesInv'
  BY RestTypesStep DEF KeptInv
<1>2. LockOK' /\ FirstOK' /\ OrderOK' /\ AcknowledgedRecorded' /\ ValuesOK'
  <2>1. CASE UNCHANGED vars
    <3>1. UNCHANGED <<request, phase, cmdSeq, sentFrom, overrides, stage, retried, lock,
                      reply, hcu>>
      BY <2>1 DEF vars, restVars, trackVars
    <3>2. Acknowledged' = Acknowledged /\ Active' = Active
      BY <3>1 DEF Acknowledged, Active
    <3>3. LockOK'
      BY <3>1, StaysInQueue DEF KeptInv, LockOK
    <3>4. FirstOK'
      BY <3>1 DEF KeptInv, FirstOK
    <3>5. OrderOK'
      BY <3>1, OrderKept
    <3>6. AcknowledgedRecorded' /\ ValuesOK'
      BY <3>1, <3>2, RecordedKept, ValuesKept
    <3> QED
      BY <3>3, <3>4, <3>5, <3>6
  <2>2. CASE Next
    <3>1. PICK c \in Cmd : \/ Call(c) \/ Client(c) \/ WaitTimeout(c)
                           \/ Cancel(c) \/ HcuApply(c) \/ HcuRefuse(c)
      BY <2>2 DEF Next
    <3>2. \A ok \in BOOLEAN : c \in Active /\ Finish(c, ok) /\ (ok => stage[c] = "answered")
            => LockOK' /\ FirstOK' /\ OrderOK' /\ AcknowledgedRecorded' /\ ValuesOK'
      BY FinishValues
    <3>3. stage[c] \in {"queued", "posting", "answered", "asleep"} => c \in Active
      BY KeptTypes DEF StagesOK, Active
    <3>4. CASE SkipQueuedRetry(c) \/ Raise(c) \/ Cancel(c)
      BY <3>2, <3>3, <3>4 DEF SkipQueuedRetry, Raise, Cancel
    <3>5. CASE Return(c)
      BY <3>2, <3>3, <3>5 DEF Return
    <3>6. CASE (QueueRetry(c) \/ WaitTimeout(c)) /\ Superseded(c)
      BY <3>2, <3>3, <3>6 DEF QueueRetry, WaitTimeout, GoOn
    <3> QED
      BY <3>1, <3>4, <3>5, <3>6, CallValues, PostValues, PostRetryValues, RecordValues,
         RetryValues, HcuValues DEF Client
  <2> QED
    BY <2>1, <2>2
<1> QED
  BY <1>1, <1>2 DEF KeptInv

LEMMA KeptStart == Init => KeptInv
<1> SUFFICES ASSUME Init PROVE KeptInv
  OBVIOUS
<1>1. RestTypesInv
  <2>1. RestInv
    BY RestInvInit
  <2>2. retried \subseteq Cmd /\ reply \in [Cmd -> Reply]
    BY DEF Init, Reply
  <2>3. hcu \in [Scope -> [Field -> [seq : Nat, late : BOOLEAN]]]
    BY DEF Init
  <2> QED
    BY <2>1, <2>2, <2>3 DEF RestTypesInv, RestTypeOK, RestInv, StagesOK, FullInv, IInv
<1>2. /\ stage = [c \in Cmd |-> "idle"] /\ retried = {} /\ lock = <<>>
      /\ reply = [c \in Cmd |-> "none"]
      /\ phase = [c \in Cmd |-> "new"] /\ cmdSeq = [c \in Cmd |-> 0]
      /\ sentFrom = [c \in Cmd |-> [f \in Field |-> 0]]
  BY DEF Init, TrackInit
<1>3. LockOK
  <2>1. lock \in Seq(Cmd) /\ Len(lock) = 0
    BY <1>2, EmptySeq
  <2> QED
    BY <1>2, <2>1 DEF LockOK, InLock, Holding
<1>4. FirstOK /\ OrderOK
  BY <1>2 DEF FirstOK, OrderOK, StartedOK, ReplyOK, SentNew, Holding
<1>5. Acknowledged = {}
  BY <1>2 DEF Acknowledged
<1>6. AcknowledgedRecorded /\ ValuesOK
  BY <1>2, <1>5 DEF AcknowledgedRecorded, ValuesOK, PostedOK, AppliedOK, NewerValueKept
<1> QED
  BY <1>1, <1>3, <1>4, <1>6 DEF KeptInv

\* For any number of overlapping App User commands: "Refresh shared payload fields
\* before retrying so newer values are kept" (_refresh_retry_body) holds at the HCU;
\* once a command was acknowledged, no older command, sent again after it, puts an
\* older value of a field it decided back, unless the HCU carries out a POST whose
\* caller had given up on it.
THEOREM NewerValuesKept == Spec => []NewerValueKept
<1>1. KeptInv => NewerValueKept
  BY DEF KeptInv, ValuesOK
<1> QED
  BY <1>1, KeptStart, KeptStep, PTL DEF Spec

-----------------------------------------------------------------------------
(* The commands keep the promise of Delivery: how often each body was posted *)
(* is told by the stage of its call and by whether the call was refused.     *)

PostOut(c) == stage[c] \in {"posting", "answered"}

\* A step that concerns one call leaves what the others posted alone.
LEMMA PostsMove ==
  ASSUME NEW c \in Cmd,
         \A d \in Cmd \ {c} : /\ d \in Active' <=> d \in Active
                              /\ d \in retried' <=> d \in retried
                              /\ PostOut(d)' <=> PostOut(d)
  PROVE  TimesPosted' = [TimesPosted EXCEPT ![c] = TimesPosted'[c]]
<1>1. ASSUME NEW d \in Cmd \ {c} PROVE TimesPosted'[d] = TimesPosted[d]
  BY DEF TimesPosted, PostOut
<1>2. DOMAIN TimesPosted = Cmd /\ DOMAIN TimesPosted' = Cmd
  BY DEF TimesPosted
<1>3. /\ TimesPosted = [d \in Cmd |-> TimesPosted[d]]
      /\ TimesPosted' = [d \in Cmd |-> TimesPosted'[d]]
  BY DEF TimesPosted
<1> QED
  BY <1>1, <1>2, <1>3, Zenon

\* What a step can do to a call and to what it posted.
LEMMA RestSteps ==
  ASSUME KeptInv, [Next]_vars
  PROVE  \/ \E c \in Cmd : Call(c)
         \/ \E c \in Active, ok \in BOOLEAN : Finish(c, ok)
         \/ \E c \in Cmd : Post(c) \/ PostRetry(c) \/ BackOff(c)
         \/ /\ Quiet /\ retried' = retried
            /\ \A c \in Cmd : PostOut(c)' <=> PostOut(c)
<1>1. ASSUME UNCHANGED <<trackVars, stage, retried>>
      PROVE  Quiet /\ retried' = retried /\ \A c \in Cmd : PostOut(c)' <=> PostOut(c)
  BY <1>1, KeptTypes, UnchangedKeeps DEF PostOut
<1>2. CASE UNCHANGED vars
  BY <1>1, <1>2 DEF vars, restVars
<1>3. CASE Next
  <2>1. PICK c \in Cmd : \/ Call(c) \/ Client(c) \/ WaitTimeout(c)
                         \/ Cancel(c) \/ HcuApply(c) \/ HcuRefuse(c)
    BY <1>3 DEF Next
  <2>2. stage[c] \in {"queued", "posting", "answered", "asleep"} => c \in Active
    BY KeptTypes DEF StagesOK, Active
  <2>3. CASE SkipQueuedRetry(c) \/ Return(c) \/ Raise(c) \/ Cancel(c)
    BY <2>2, <2>3 DEF SkipQueuedRetry, Return, Raise, Cancel
  <2>4. CASE HcuApply(c) \/ HcuRefuse(c)
    BY <1>1, <2>4 DEF HcuApply, HcuRefuse
  <2>5. CASE RecordSuccess(c)
    <3>1. Quiet
      BY <2>5, KeptTypes, RecordStep DEF RecordSuccess, FullInv
    <3>2. stage[c] = "posting" /\ stage' = [stage EXCEPT ![c] = "answered"]
            /\ retried' = retried
      BY <2>5 DEF RecordSuccess
    <3>3. \A d \in Cmd : PostOut(d)' <=> PostOut(d)
      BY <3>2, KeptTypes DEF PostOut
    <3> QED
      BY <3>1, <3>2, <3>3
  <2>6. CASE AwaitNewer(c)
    <3>1. Quiet /\ stage' = stage /\ retried' = retried
      BY <2>6, KeptTypes, AwaitKeeps DEF AwaitNewer, restVars
    <3> QED
      BY <3>1 DEF PostOut
  <2>7. CASE QueueRetry(c) \/ WaitTimeout(c)
    <3>1. c \in Active /\ GoOn(c) /\ stage[c] = "asleep"
      BY <2>2, <2>7 DEF QueueRetry, WaitTimeout
    <3>2. CASE Superseded(c)
      BY <3>1, <3>2 DEF GoOn
    <3>3. CASE ~Superseded(c)
      <4>1. /\ Resume(c) /\ sentFrom' = sentFrom /\ retried' = retried
            /\ UNCHANGED <<request, cmdSeq, gen, counters, inflight, overrides>>
            /\ stage' = [stage EXCEPT ![c] = "queued"]
        BY <3>1, <3>3 DEF GoOn
      <4>2. Quiet
        BY <3>1, <4>1, KeptTypes, ResumeKeeps
      <4>3. \A d \in Cmd : PostOut(d)' <=> PostOut(d)
        BY <3>1, <4>1, KeptTypes DEF PostOut
      <4> QED
        BY <4>1, <4>2, <4>3
    <3> QED
      BY <3>2, <3>3
  <2> QED
    BY <2>1, <2>3, <2>4, <2>5, <2>6, <2>7 DEF Client
<1> QED
  BY <1>2, <1>3

DeliveryVars == <<request, Active, Stale, TimesPosted>>

LEMMA DeliveryStep ==
  ASSUME KeptInv, [Next]_vars
  PROVE  [Promised!DeliveryNext]_DeliveryVars
<1>1. FullInv /\ IInv /\ TypeOK /\ stage \in [Cmd -> Stage]
  BY KeptTypes DEF FullInv, IInv
<1>2. ASSUME NEW c \in Cmd, Call(c) PROVE Promised!Accept(c)
  <2>1. Promise!Start(c) /\ Active' = Active \cup {c}
    BY <1>1, <1>2, EnterStarts, EnterActive DEF Call
  <2>2. c \notin retried /\ retried' = retried /\ stage' = [stage EXCEPT ![c] = "queued"]
    BY <1>2 DEF Call, Enter, KeptInv, OrderOK, StartedOK
  <2>3. ~PostOut(c)' /\ \A d \in Cmd \ {c} : PostOut(d)' <=> PostOut(d)
    BY <1>1, <2>2 DEF PostOut
  <2>4. TimesPosted' = [TimesPosted EXCEPT ![c] = TimesPosted'[c]]
    BY <2>1, <2>2, <2>3, PostsMove
  <2>5. TimesPosted'[c] = 0
    BY <2>1, <2>2, <2>3 DEF TimesPosted, PostOut
  <2> QED
    BY <2>1, <2>4, <2>5 DEF Promised!Accept, Promised!Start, Promise!Start
<1>3. ASSUME NEW c \in Active, NEW ok \in BOOLEAN, Finish(c, ok) PROVE Promised!Close(c)
  <2>1. Promise!Finish(c) /\ Active' = Active \ {c} /\ c \in Cmd
    BY <1>1, <1>3, LeaveFinishes, LeaveActive DEF Finish, Active
  <2>2. retried' = retried /\ \A d \in Cmd \ {c} : PostOut(d)' <=> PostOut(d)
    BY <1>1, <1>3 DEF Finish, PostOut
  <2>3. TimesPosted' = [TimesPosted EXCEPT ![c] = TimesPosted'[c]]
    BY <2>1, <2>2, PostsMove
  <2>4. TimesPosted'[c] = 0
    BY <2>1 DEF TimesPosted
  <2> QED
    BY <2>1, <2>3, <2>4 DEF Promised!Close, Promised!Finish, Promise!Finish
<1>4. ASSUME NEW c \in Cmd, Post(c) \/ PostRetry(c)
      PROVE  Promised!SendFirst(c) \/ Promised!SendAgain(c)
  <2>1. /\ stage[c] = "queued" /\ c \in Active
        /\ stage' = [stage EXCEPT ![c] = "posting"] /\ retried' = retried
        /\ PostRetry(c) => c \in retried /\ ~Superseded(c)
        /\ Post(c) => c \notin retried
    BY <1>4, KeptTypes DEF Post, PostRetry, Send, StagesOK, Active
  <2>2. Quiet
    BY <1>1, <1>4 DEF Post, PostRetry, Quiet, trackVars, Active
  <2>3. UNCHANGED <<request, Active, Stale>>
    BY <2>2, QuietStutters DEF PromiseVars
  <2>4. /\ ~PostOut(c) /\ PostOut(c)'
        /\ \A d \in Cmd \ {c} : PostOut(d)' <=> PostOut(d)
    BY <1>1, <2>1 DEF PostOut
  <2>5. TimesPosted' = [TimesPosted EXCEPT ![c] = TimesPosted'[c]]
    BY <2>1, <2>3, <2>4, PostsMove
  <2>6. c \in Active'
    BY <2>1, <2>3
  <2>7. CASE Post(c)
    <3>1. TimesPosted[c] = 0 /\ TimesPosted'[c] = 1
      BY <2>1, <2>4, <2>6, <2>7 DEF TimesPosted, PostOut
    <3> QED
      BY <2>1, <2>3, <2>5, <3>1 DEF Promised!SendFirst, Stale
  <2>8. CASE PostRetry(c)
    <3>1. TimesPosted[c] = 1 /\ TimesPosted'[c] = 2
      BY <2>1, <2>4, <2>6, <2>8 DEF TimesPosted, PostOut
    <3>2. c \in Active \ Stale
      BY <2>1, <2>8 DEF Stale
    <3>3. TimesPosted' = [TimesPosted EXCEPT ![c] = TimesPosted[c] + 1]
      BY <2>5, <3>1
    <3> QED
      BY <2>3, <3>1, <3>2, <3>3 DEF Promised!SendAgain, Stale
  <2> QED
    BY <1>4, <2>7, <2>8
<1>5. ASSUME NEW c \in Cmd, BackOff(c) PROVE UNCHANGED DeliveryVars
  <2>1. /\ stage[c] = "posting" /\ c \in Active /\ c \notin retried
        /\ stage' = [stage EXCEPT ![c] = "asleep"] /\ retried' = retried \cup {c}
    BY <1>5, KeptTypes DEF BackOff, StagesOK, Active
  <2>2. Quiet
    BY <1>1, <1>5 DEF BackOff, Quiet, trackVars, Active
  <2>3. UNCHANGED <<request, Active, Stale>>
    BY <2>2, QuietStutters DEF PromiseVars
  <2>4. /\ PostOut(c) /\ ~PostOut(c)'
        /\ \A d \in Cmd \ {c} : PostOut(d)' <=> PostOut(d)
    BY <1>1, <2>1 DEF PostOut
  <2>5. TimesPosted' = [TimesPosted EXCEPT ![c] = TimesPosted'[c]]
    BY <2>1, <2>3, <2>4, PostsMove
  <2>6. TimesPosted[c] = 1 /\ TimesPosted'[c] = 1
    <3>1. c \in Active' /\ c \in retried'
      BY <2>1, <2>3
    <3> QED
      BY <2>1, <2>4, <3>1 DEF TimesPosted, PostOut
  <2>7. TimesPosted' = TimesPosted
    BY <2>5, <2>6 DEF TimesPosted
  <2> QED
    BY <2>3, <2>7 DEF DeliveryVars
<1>6. ASSUME Quiet, retried' = retried, \A c \in Cmd : PostOut(c)' <=> PostOut(c)
      PROVE  UNCHANGED DeliveryVars
  <2>1. UNCHANGED <<request, Active, Stale>>
    BY <1>6, QuietStutters DEF PromiseVars
  <2>2. TimesPosted' = TimesPosted
    BY <1>6, <2>1 DEF TimesPosted, PostOut
  <2> QED
    BY <2>1, <2>2 DEF DeliveryVars
<1> QED
  BY <1>2, <1>3, <1>4, <1>5, <1>6, RestSteps DEF Promised!DeliveryNext, Active

\* For any number of overlapping App User commands: each is posted at most twice, and
\* a second time only while no command that replaces it has started, however the
\* refusals, waits, locks and cancellations interleave (_async_app_rest_call).
THEOREM RestKeepsPromise == Spec => ImplementsDelivery
<1>1. Init => Promised!DeliveryInit
  <2> SUFFICES ASSUME Init PROVE Promised!DeliveryInit
    OBVIOUS
  <2>1. Active = {} /\ request \in [Cmd -> Request]
    BY DEF Init, TrackInit, Active
  <2>2. TimesPosted = [c \in Cmd |-> 0]
    BY <2>1 DEF TimesPosted
  <2> QED
    BY <2>1, <2>2 DEF Promised!DeliveryInit, Promised!Init
<1>2. KeptInv /\ [Next]_vars => [Promised!DeliveryNext]_DeliveryVars
  BY DeliveryStep
<1> QED
  BY <1>1, <1>2, KeptStart, KeptStep, PTL
    DEF Spec, ImplementsDelivery, Promised!DeliverySpec, DeliveryVars, Stale

-----------------------------------------------------------------------------
\* For any number of overlapping App User commands: whatever the calls wait for, the
\* lock or newer commands, one of them can go on by itself; a retry does not hold
\* _command_lock while it waits, so the two never close a circle
\* (_async_app_rest_call, _await_newer_field_updates).
THEOREM RestNeverBlocked == Spec => []NeverAllBlocked
<1>1. KeptInv => NeverAllBlocked
  <2> SUFFICES ASSUME KeptInv, Active # {} PROVE \E c \in Active : CanGoOn(c)
    BY DEF NeverAllBlocked
  <2>1. FullInv /\ StagesOK /\ LockOK
    BY KeptTypes DEF KeptInv
  <2>2. PICK c \in Active : phase[c] \in {"running", "woken"}
    BY <2>1, NewestRuns
  <2>3. CASE stage[c] # "queued"
    <3>1. CanGoOn(c)
      BY <2>1, <2>2, <2>3 DEF StagesOK, CanGoOn
    <3> QED
      BY <3>1
  <2>4. CASE stage[c] = "queued"
    <3>1. InLock(c) /\ lock \in Seq(Cmd)
      BY <2>1, <2>4 DEF LockOK, Holding, Active
    <3>2. Len(lock) \in Nat /\ Len(lock) >= 1
      BY <3>1, LenProperties DEF InLock
    <3>3. /\ lock # <<>> /\ lock[1] \in Cmd /\ InLock(lock[1]) /\ Head(lock) = lock[1]
      BY <3>1, <3>2, EmptySeq DEF InLock
    <3> DEFINE h == lock[1]
    <3>4. stage[h] \in Holding /\ HasLock(h)
      BY <2>1, <3>3 DEF LockOK, HasLock
    <3>5. h \in Active
      BY <2>1, <3>3, <3>4 DEF StagesOK, Holding, Active
    <3>6. CanGoOn(h)
      BY <3>4 DEF CanGoOn, Holding
    <3> QED
      BY <3>5, <3>6
  <2> QED
    BY <2>3, <2>4
<1> QED
  BY <1>1, KeptStart, KeptStep, PTL DEF Spec
=============================================================================
