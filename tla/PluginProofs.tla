----------------------------- MODULE PluginProofs -----------------------------
(***************************************************************************)
(* Theorems about PluginRequests for every set of calls, every table and   *)
(* every number of attempts.                                               *)
(***************************************************************************)
EXTENDS PluginRequests, TargetTrackingProofs

Backoff == {"backoff", "busyBackoff"}

\* A call that awaits an answer does not wait for newer commands, one that backs
\* off has not ended, and one that was not made has no answer.
StagesOK ==
  /\ stage \in [Cmd -> Stage]
  /\ \A c \in Active : stage[c] = "awaiting" \/ stage[c] \in Backoff
  /\ \A c \in Cmd : stage[c] = "awaiting" => phase[c] = "running"
  /\ \A c \in Cmd : stage[c] \in Backoff => c \in Active
  /\ \A c \in Cmd : phase[c] = "new" => stage[c] = "idle" /\ c \notin hookRun

\* As long as an older command runs on the target, what an acknowledged command
\* decided is recorded, or something newer is.
AcknowledgedRecorded ==
  \A d \in Acknowledged, c \in Active, f \in Field :
    Scp(c) = Scp(d) /\ cmdSeq[c] < cmdSeq[d] /\ f \in Updates(d)
      => overrides[Scp(c)][f].seq >= cmdSeq[d]

PluginInv == FullInv /\ StagesOK /\ AcknowledgedRecorded

\* A step on which the bookkeeping stays quiet moves a call from stage to stage.
LEMMA MoveKeeps ==
  ASSUME PluginInv, NEW c \in Active, NEW st \in {"awaiting", "backoff", "busyBackoff"},
         FullInv', Quiet, overrides' = overrides, hookRun' = hookRun,
         stage[c] \in {"awaiting", "backoff", "busyBackoff"},
         stage' = [stage EXCEPT ![c] = st],
         st = "awaiting" => phase'[c] = "running",
         \A d \in Cmd \ {c} : phase[d] = "running" => phase'[d] = "running"
  PROVE  PluginInv'
<1>1. StagesOK'
  BY DEF PluginInv, StagesOK, Quiet, Active, Backoff, Stage
<1>2. Acknowledged' = Acknowledged
  BY DEF PluginInv, StagesOK, Acknowledged
<1>3. AcknowledgedRecorded'
  BY <1>2 DEF PluginInv, AcknowledgedRecorded, Quiet, Scp, Updates, Acknowledged
<1> QED
  BY <1>1, <1>3 DEF PluginInv

\* A step that leaves the stages alone and lets no call that awaits wait.
LEMMA StayKeeps ==
  ASSUME PluginInv, FullInv', Quiet, overrides' = overrides, hookRun' = hookRun,
         stage' = stage,
         \A d \in Cmd : stage[d] = "awaiting" /\ phase[d] = "running" => phase'[d] = "running"
  PROVE  PluginInv'
<1>1. StagesOK'
  BY DEF PluginInv, StagesOK, Quiet
<1>2. AcknowledgedRecorded'
  BY DEF PluginInv, AcknowledgedRecorded, Acknowledged, Quiet, Scp, Updates
<1> QED
  BY <1>1, <1>2 DEF PluginInv

LEMMA CallKeeps ==
  ASSUME PluginInv, NEW c \in Cmd, Call(c)
  PROVE  PluginInv'
<1> USE DEF PluginInv
<1>1. FullInv' /\ Active' = Active \cup {c} /\ phase'[c] = "running"
      /\ \A d \in Cmd \ {c} : phase'[d] = "new" <=> phase[d] = "new"
  BY EnterKeeps, EnterActive DEF Call, FullInv, IInv
<1>2. \A d \in Cmd \ {c} : phase[d] = "running" => phase'[d] = "running"
  BY DEF Call, Enter, Woken, FullInv, IInv, TypeOK
<1>3. stage' = [stage EXCEPT ![c] = "awaiting"] /\ hookRun' = hookRun
        /\ stage[c] = "idle" /\ c \notin hookRun
  BY DEF Call, Send, Enter, StagesOK
<1>4. StagesOK'
  BY <1>1, <1>2, <1>3 DEF StagesOK, Stage, Backoff
<1>5. Acknowledged' = Acknowledged /\ c \notin Acknowledged
  BY <1>3 DEF Acknowledged, StagesOK
<1>6. /\ overrides' = overrides /\ request' = request /\ cmdSeq'[c] = commandSeq + 1
      /\ \A d \in Cmd \ {c} : cmdSeq'[d] = cmdSeq[d]
  BY DEF Call, Enter, FullInv, IInv, TypeOK
<1>7. AcknowledgedRecorded'
  <2> SUFFICES ASSUME NEW d \in Acknowledged, NEW e \in Active', NEW f \in Field,
                      Scp(e) = Scp(d), cmdSeq'[e] < cmdSeq'[d], f \in Updates(d)
               PROVE  overrides[Scp(e)][f].seq >= cmdSeq'[d]
    BY <1>5, <1>6 DEF AcknowledgedRecorded, Scp, Updates
  <2>1. d \in Cmd /\ d # c /\ cmdSeq'[d] = cmdSeq[d] /\ cmdSeq[d] <= commandSeq
          /\ cmdSeq[d] \in Nat /\ commandSeq \in Nat
    BY <1>5, <1>6 DEF Acknowledged, FullInv, IInv, SeqsOK, TypeOK
  <2>2. e # c
    BY <1>6, <2>1
  <2>3. e \in Active /\ e \in Cmd /\ cmdSeq'[e] = cmdSeq[e]
    BY <1>1, <1>6, <2>2 DEF Active
  <2> QED
    BY <2>1, <2>3 DEF AcknowledgedRecorded
<1> QED
  BY <1>1, <1>4, <1>7

\* The answer that runs the hook.
LEMMA HookKeeps ==
  ASSUME PluginInv, NEW c \in Cmd, Record(c), hookRun' = hookRun \cup {c}, stage' = stage
  PROVE  PluginInv'
<1> USE DEF PluginInv
<1>1. FullInv' /\ Quiet /\ c \in Active
  BY RecordStep, RecordKeeps DEF Record, Active, FullInv
<1>2. \A d \in Cmd : phase[d] = "running" => phase'[d] = "running"
  BY DEF Record, PopInflight, Woken
<1>3. StagesOK'
  BY <1>1, <1>2 DEF StagesOK, Quiet, Record
<1>4. Acknowledged' = Acknowledged \cup {c}
  BY DEF Acknowledged
<1>5. AcknowledgedRecorded'
  <2> SUFFICES ASSUME NEW d \in Acknowledged \cup {c}, NEW e \in Active, NEW f \in Field,
                      Scp(e) = Scp(d), cmdSeq[e] < cmdSeq[d], f \in Updates(d)
               PROVE  overrides'[Scp(e)][f].seq >= cmdSeq[d]
    BY <1>1, <1>4 DEF AcknowledgedRecorded, Quiet, Scp, Updates
  <2>1. d \in Cmd /\ e \in Cmd /\ Scp(e) \in Scope
    BY KeyType DEF Acknowledged, Active, FullInv, IInv
  <2>2. TypeOK /\ CountsOK /\ TypeOK'
    BY <1>1 DEF FullInv, IInv
  <2>3. /\ overrides[Scp(e)][f].seq \in Nat /\ overrides'[Scp(e)][f].seq \in Nat
        /\ cmdSeq[d] \in Nat /\ cmdSeq[e] \in Nat
    BY <2>1, <2>2 DEF TypeOK
  <2>4. CASE e # c
    <3>1. /\ overrides'[Scp(e)][f].seq >= overrides[Scp(e)][f].seq
          /\ Scp(e) = Scp(c) /\ f \in Updates(c)
               => overrides'[Scp(e)][f].seq >= cmdSeq[c]
      BY <1>1, <2>2, <2>4, RecordGrows
    <3>2. d \in Acknowledged => overrides[Scp(e)][f].seq >= cmdSeq[d]
      BY DEF AcknowledgedRecorded
    <3> QED
      BY <2>3, <3>1, <3>2
  <2>5. CASE e = c
    <3>1. d \in Acknowledged
      BY <2>3, <2>5
    <3>2. overrides[Scp(e)][f].seq >= cmdSeq[d]
      BY <3>1 DEF AcknowledgedRecorded
    <3>3. \/ overrides'[Scp(e)][f] = overrides[Scp(e)][f]
          \/ /\ overrides[Scp(e)][f].seq < cmdSeq[c]
             /\ overrides'[Scp(e)][f] = [seq |-> cmdSeq[c], from |-> sentFrom[c][f]]
      <4>1. sentFrom[c] \in [Field -> Nat]
        BY <2>2 DEF TypeOK
      <4> QED
        BY <2>1, <2>2, <4>1, RecordedEntry DEF Record
    <3> QED
      BY <2>3, <2>5, <3>2, <3>3
  <2> QED
    BY <2>4, <2>5
<1> QED
  BY <1>1, <1>3, <1>5

\* A call that ends.
LEMMA FinishKeeps ==
  ASSUME PluginInv, NEW c \in Active, NEW ok \in BOOLEAN, Finish(c, ok), hookRun' = hookRun
  PROVE  PluginInv'
<1> USE DEF PluginInv
<1>1. FullInv' /\ c \in Cmd /\ Leave(c, ok)
  BY LeaveKeeps DEF Finish, Active
<1>2. /\ Active' = Active \ {c} /\ \A d \in Cmd : phase'[d] = "new" <=> phase[d] = "new"
      /\ phase[c] # "new"
  BY <1>1, LeaveActive DEF FullInv, IInv, Active
<1>3. \A d \in Cmd \ {c} : phase[d] = "running" => phase'[d] = "running"
  BY <1>1 DEF Leave, PopInflight, Woken, FullInv, IInv, TypeOK
<1>4. stage' = [stage EXCEPT ![c] = IF ok THEN "succeeded" ELSE "failed"]
  BY DEF Finish
<1>5. StagesOK'
  BY <1>1, <1>2, <1>3, <1>4 DEF StagesOK, Stage, Backoff
<1>6. Acknowledged' \subseteq Acknowledged \cup {d \in {c} : ok}
  BY <1>1, <1>4 DEF Acknowledged, StagesOK
<1>7. AcknowledgedRecorded'
  <2>1. cmdSeq' = cmdSeq /\ request' = request /\ TypeOK /\ CountsOK /\ TypeOK'
    BY <1>1 DEF Leave, FullInv, IInv
  <2> SUFFICES ASSUME NEW d \in Acknowledged', NEW e \in Active', NEW f \in Field,
                      Scp(e) = Scp(d), cmdSeq[e] < cmdSeq[d], f \in Updates(d)
               PROVE  overrides'[Scp(e)][f].seq >= cmdSeq[d]
    BY <2>1 DEF AcknowledgedRecorded, Scp, Updates
  <2>2. d \in Cmd /\ e \in Active /\ e # c /\ e \in Cmd /\ Scp(e) \in Scope
    BY <1>2, <2>1, KeyType DEF Acknowledged, Active
  <2>3. /\ overrides[Scp(e)][f].seq \in Nat /\ overrides'[Scp(e)][f].seq \in Nat
        /\ cmdSeq[d] \in Nat
    BY <2>1, <2>2 DEF TypeOK
  <2>4. /\ overrides'[Scp(e)][f].seq >= overrides[Scp(e)][f].seq
        /\ ok /\ Scp(e) = Scp(c) /\ f \in Updates(c)
             => overrides'[Scp(e)][f].seq >= cmdSeq[c]
    BY <1>1, <2>1, <2>2, LeavingGrows
  <2>5. d \in Acknowledged => overrides[Scp(e)][f].seq >= cmdSeq[d]
    BY <2>2 DEF AcknowledgedRecorded
  <2> QED
    BY <1>6, <2>3, <2>4, <2>5
<1> QED
  BY <1>1, <1>5, <1>7

\* The listener.
LEMMA ListenerKeeps ==
  ASSUME PluginInv, NEW c \in Cmd, Answer(c) \/ IgnoredAnswer(c) \/ ListenerStops
  PROVE  PluginInv'
<1>1. CASE Record(c) /\ hookRun' = hookRun \cup {c} /\ stage' = stage
  BY <1>1, HookKeeps
<1>2. CASE UNCHANGED <<trackVars, hookRun, stage>>
  <2>1. FullInv' /\ Quiet /\ phase' = phase /\ overrides' = overrides
    BY <1>2, UnchangedKeeps DEF PluginInv, trackVars
  <2> QED
    BY <1>2, <2>1, StayKeeps
<1> QED
  BY <1>1, <1>2 DEF Answer, IgnoredAnswer, ListenerStops

\* A retry goes on.
LEMMA GoOnKeeps ==
  ASSUME PluginInv, NEW c \in Active, stage[c] \in Backoff, GoOn(c)
  PROVE  PluginInv'
<1>1. CASE Superseded(c)
  BY <1>1, FinishKeeps DEF GoOn
<1>2. CASE ~Superseded(c)
  <2>1. /\ Resume(c) /\ overrides' = overrides /\ hookRun' = hookRun
        /\ UNCHANGED <<request, cmdSeq, gen, counters, inflight, overrides>>
        /\ sentFrom' = [sentFrom EXCEPT ![c] = Refreshed(c)]
        /\ stage' = [stage EXCEPT ![c] = "awaiting"]
    BY <1>2 DEF GoOn, Resend, Send
  <2>2. FullInv' /\ Quiet
    BY <2>1, ResumeKeeps DEF PluginInv
  <2>3. /\ phase'[c] = "running"
        /\ \A d \in Cmd \ {c} : phase[d] = "running" => phase'[d] = "running"
    BY <2>1 DEF Resume, PluginInv, FullInv, IInv, TypeOK, Active
  <2> QED
    BY <2>1, <2>2, <2>3, MoveKeeps DEF Backoff
<1> QED
  BY <1>1, <1>2

LEMMA CallerKeeps ==
  ASSUME PluginInv, NEW c \in Cmd, Caller(c) \/ WaitTimeout(c)
  PROVE  PluginInv'
<1>1. stage[c] = "awaiting" => c \in Active
  BY DEF PluginInv, StagesOK, Active
<1>2. CASE Return(c) \/ Refused(c)
  BY <1>1, <1>2, FinishKeeps DEF Return, Refused
<1>3. CASE AttemptFails(c) \/ BusyBackOff(c)
  <2>1. c \in Active /\ stage[c] = "awaiting" /\ hookRun' = hookRun
    BY <1>1, <1>3 DEF AttemptFails, BusyBackOff
  <2>2. CASE Finish(c, FALSE)
    BY <2>1, <2>2, FinishKeeps
  <2>3. CASE /\ UNCHANGED trackVars
             /\ \E st \in Backoff : stage' = [stage EXCEPT ![c] = st]
    <3>1. FullInv' /\ Quiet /\ phase' = phase /\ overrides' = overrides
      BY <2>3, UnchangedKeeps DEF PluginInv, trackVars
    <3> QED
      BY <2>1, <2>3, <3>1, MoveKeeps DEF Backoff
  <2> QED
    BY <1>3, <2>2, <2>3 DEF AttemptFails, BusyBackOff, Backoff
<1>4. CASE AwaitNewer(c)
  <2>1. /\ FullInv' /\ Quiet /\ stage' = stage /\ hookRun' = hookRun
        /\ overrides' = overrides
    BY <1>4, AwaitKeeps DEF AwaitNewer, requestVars, PluginInv, Wait
  <2>2. \A d \in Cmd : stage[d] = "awaiting" /\ phase[d] = "running" => phase'[d] = "running"
    BY <1>4 DEF AwaitNewer, Wait, PluginInv, FullInv, IInv, TypeOK
  <2> QED
    BY <2>1, <2>2, StayKeeps
<1>5. CASE Retry(c) \/ WaitTimeout(c)
  BY <1>5, GoOnKeeps DEF Retry, WaitTimeout, Backoff, Active
<1> QED
  BY <1>2, <1>3, <1>4, <1>5 DEF Caller

LEMMA PluginInvInit == Init => PluginInv
<1> SUFFICES ASSUME Init PROVE PluginInv
  OBVIOUS
<1>1. FullInv /\ Active = {} /\ Acknowledged = {}
  BY InitFullInv DEF Init, TrackInit, Active, Acknowledged
<1>2. StagesOK
  <2>1. /\ stage = [c \in Cmd |-> "idle"] /\ hookRun = {}
    BY DEF Init
  <2> QED
    BY <1>1, <2>1 DEF StagesOK, Stage, Backoff
<1> QED
  BY <1>1, <1>2 DEF PluginInv, AcknowledgedRecorded

LEMMA PluginInvNext == PluginInv /\ [Next]_vars => PluginInv'
<1> SUFFICES ASSUME PluginInv, [Next]_vars PROVE PluginInv'
  OBVIOUS
<1>1. CASE UNCHANGED vars
  <2>1. FullInv' /\ Quiet /\ UNCHANGED <<phase, overrides, stage, hookRun>>
    BY <1>1, UnchangedKeeps DEF PluginInv, vars, requestVars, trackVars
  <2> QED
    BY <2>1, StayKeeps
<1>2. CASE ListenerStops
  <2>1. UNCHANGED <<trackVars, stage, hookRun>>
    BY <1>2 DEF ListenerStops
  <2>2. FullInv' /\ Quiet /\ UNCHANGED <<phase, overrides, stage, hookRun>>
    BY <2>1, UnchangedKeeps DEF PluginInv, trackVars
  <2> QED
    BY <2>2, StayKeeps
<1>3. CASE Next /\ ~ListenerStops
  <2>1. PICK c \in Cmd : \/ Call(c) \/ Answer(c) \/ IgnoredAnswer(c) \/ Caller(c)
                         \/ WaitTimeout(c) \/ Cancel(c)
    BY <1>3 DEF Next
  <2>2. CASE Cancel(c)
    BY <2>2, FinishKeeps DEF Cancel
  <2> QED
    BY <2>1, <2>2, CallKeeps, ListenerKeeps, CallerKeeps
<1> QED
  BY <1>1, <1>2, <1>3

\* Of all steps, only that of a retry that is not superseded sends a message again.
LEMMA OnlyRetries ==
  ASSUME PluginInv, [Next]_vars, NEW c \in Cmd, Resent(c)
  PROVE  ~Superseded(c) /\ Resend(c)
<1>1. /\ stage' # stage /\ stage \in [Cmd -> Stage] /\ c \in Active
      /\ stage[c] \in Backoff /\ stage'[c] = "awaiting"
  BY DEF PluginInv, StagesOK, Resent, Backoff
<1>2. PICK d \in Cmd : \/ Call(d) \/ Answer(d) \/ IgnoredAnswer(d) \/ Caller(d)
                       \/ WaitTimeout(d) \/ Cancel(d)
  BY <1>1 DEF Next, vars, requestVars, ListenerStops
<1>3. ~(Answer(d) \/ IgnoredAnswer(d) \/ AwaitNewer(d))
  BY <1>1 DEF Answer, IgnoredAnswer, AwaitNewer, requestVars
<1>4. ~Call(d)
  BY <1>1 DEF Call, Send, Enter, Active, Backoff
<1>5. ASSUME NEW ok \in BOOLEAN PROVE ~Finish(d, ok)
  BY <1>1 DEF Finish, Backoff
<1>6. ~(Return(d) \/ Refused(d) \/ Cancel(d))
  BY <1>5 DEF Return, Refused, Cancel
<1>7. ~(AttemptFails(d) \/ BusyBackOff(d))
  BY <1>1, <1>5 DEF AttemptFails, BusyBackOff, Backoff
<1>8. GoOn(d)
  BY <1>2, <1>3, <1>4, <1>6, <1>7 DEF Caller, Retry, WaitTimeout
<1>9. ~Superseded(d) /\ Resend(d)
  BY <1>5, <1>8 DEF GoOn
<1>10. d = c
  BY <1>1, <1>9 DEF Resend, Send, Backoff
<1> QED
  BY <1>9, <1>10

\* For any number of overlapping Plugin User commands and of attempts: no message is
\* sent again once a command that replaces it was called ("Aborting retries for
\* superseded request", _send_hmip_request).
THEOREM ResendsAreNotStale == Spec => NoStaleResend
<1>1. PluginInv /\ [Next]_vars =>
        [\A c \in Cmd : Resent(c) => \A d \in Cmd : ~CalledLater(d, c)]_vars
  <2> SUFFICES ASSUME PluginInv, [Next]_vars, NEW c \in Cmd, Resent(c)
               PROVE  \A d \in Cmd : ~CalledLater(d, c)
    OBVIOUS
  <2>1. c \in Active /\ ~Superseded(c)
    BY OnlyRetries DEF PluginInv, StagesOK, Resent, Backoff
  <2> QED
    BY <2>1, NotReplaced DEF PluginInv
<1> QED
  BY <1>1, PluginInvInit, PluginInvNext, PTL DEF Spec, NoStaleResend

\* For any number of overlapping Plugin User commands: a message that is sent again
\* never carries a value older than one the HCU acknowledged (_refresh_retry_body),
\* although the acknowledged command and its values may be long over.
THEOREM ResendsAreCurrent == Spec => ResendKeepsAcknowledged
<1>1. PluginInv /\ [Next]_vars =>
        [\A c \in Cmd : Resent(c) =>
           \A d \in Acknowledged : \A f \in Updates(d) \cap CarriesOf[request[c]] :
             Scp(d) = Scp(c) => sentFrom'[c][f] >= cmdSeq[d]]_vars
  <2> SUFFICES ASSUME PluginInv, [Next]_vars, NEW c \in Cmd, Resent(c),
                      NEW d \in Acknowledged, NEW f \in Updates(d) \cap CarriesOf[request[c]],
                      Scp(d) = Scp(c)
               PROVE  sentFrom'[c][f] >= cmdSeq[d]
    OBVIOUS
  <2>1. c \in Active /\ Resend(c)
    BY OnlyRetries DEF PluginInv, StagesOK, Resent, Backoff
  <2>2. d \in Cmd /\ Scp(c) \in Scope /\ f \in Field /\ f \in CarriesOf[request[c]]
    BY TablesAssumption, KeyType
      DEF Acknowledged, PluginInv, FullInv, IInv, Updates, TypeOK, StagesOK
  <2>3. /\ cmdSeq[c] \in Nat /\ cmdSeq[d] \in Nat
        /\ overrides[Scp(c)][f].seq \in Nat
        /\ overrides[Scp(c)][f].from = overrides[Scp(c)][f].seq
    BY <2>2 DEF PluginInv, FullInv, IInv, TypeOK, RecordedByItsAuthor
  <2>4. sentFrom'[c][f] = IF overrides[Scp(c)][f].seq > cmdSeq[c]
                            THEN overrides[Scp(c)][f].seq ELSE cmdSeq[c]
    BY <2>1, <2>2, <2>3 DEF Resend, Refreshed, PluginInv, FullInv, IInv, TypeOK
  <2>5. cmdSeq[c] < cmdSeq[d] => overrides[Scp(c)][f].seq >= cmdSeq[d]
    BY <2>1, <2>2 DEF PluginInv, AcknowledgedRecorded
  <2> QED
    BY <2>3, <2>4, <2>5
<1> QED
  BY <1>1, PluginInvInit, PluginInvNext, PTL DEF Spec, ResendKeepsAcknowledged

-----------------------------------------------------------------------------
(* The attempts, the answers and the hooks. *)

\* Each attempt adds a message under the id, and a back-off leaves one to make.
Attempts ==
  \A c \in Cmd : /\ owed[c] <= attempt[c] + 1
                 /\ stage[c] = "backoff" => attempt[c] + 1 < MaxAttempts

RequestInv == PluginInv /\ PluginTypeOK /\ Attempts

\* The variables of the requests after a call ended.
LEMMA FinishRequests ==
  ASSUME RequestInv, NEW c \in Active, NEW ok \in BOOLEAN, Finish(c, ok)
  PROVE  /\ stage' \in [Cmd -> Stage] /\ hooked' \subseteq Active'
         /\ \A d \in Cmd : stage'[d] = "backoff" => stage[d] = "backoff"
<1>1. Active' = Active \ {c}
  BY LeaveActive DEF Finish, RequestInv, PluginInv, FullInv, IInv, Active
<1>2. hooked' \subseteq Active'
  BY <1>1 DEF Finish, RequestInv, PluginTypeOK
<1> QED
  BY <1>2 DEF Finish, RequestInv, PluginTypeOK, Stage

LEMMA CallRequests ==
  ASSUME RequestInv, NEW c \in Cmd, Call(c), PluginInv'
  PROVE  RequestInv'
<1>1. Active' = Active \cup {c}
  BY EnterActive DEF Call, RequestInv, PluginInv, FullInv, IInv
<1>2. PluginTypeOK'
  <2>1. /\ stage' \in [Cmd -> Stage] /\ pending' \subseteq Cmd /\ hooked' \subseteq Active'
        /\ future' \in [Cmd -> {"open"} \cup Settled]
    BY <1>1 DEF Call, Send, RequestInv, PluginTypeOK, Stage
  <2>2. owed' \in [Cmd -> 0 .. MaxAttempts]
    BY AttemptsAssumption DEF Call, Send, RequestInv, PluginTypeOK
  <2> QED
    BY <2>1, <2>2 DEF Call, RequestInv, PluginTypeOK, PluginInv, FullInv, IInv
<1>3. Attempts'
  BY DEF Call, Send, RequestInv, PluginTypeOK, Attempts
<1> QED
  BY <1>2, <1>3 DEF RequestInv

LEMMA ListenerRequests ==
  ASSUME RequestInv, NEW c \in Cmd, Answer(c) \/ IgnoredAnswer(c) \/ ListenerStops, PluginInv'
  PROVE  RequestInv'
<1>1. Active' = Active
  <2>1. CASE Record(c)
    BY <2>1, RecordStep DEF Quiet, Record, RequestInv, PluginInv, FullInv
  <2>2. CASE UNCHANGED trackVars
    BY <2>2 DEF trackVars, Active
  <2> QED
    BY <2>1, <2>2 DEF Answer, IgnoredAnswer, ListenerStops
<1>2. owed' \in [Cmd -> 0 .. MaxAttempts] /\ \A d \in Cmd : owed'[d] <= owed[d]
  BY AttemptsAssumption DEF Answer, IgnoredAnswer, ListenerStops, RequestInv, PluginTypeOK
<1>3. /\ future' \in [Cmd -> {"open"} \cup Settled]
      /\ hooked' \subseteq Active /\ hookRun' \subseteq Cmd /\ pending' \subseteq Cmd
      /\ UNCHANGED <<stage, attempt, busyRetried>>
  BY DEF Answer, IgnoredAnswer, ListenerStops, RequestInv, PluginTypeOK, Settled
<1>4. Attempts'
  BY <1>2, <1>3 DEF Attempts, RequestInv, PluginTypeOK
<1> QED
  BY <1>1, <1>2, <1>3, <1>4 DEF RequestInv, PluginTypeOK, PluginInv, FullInv, IInv

LEMMA GoOnRequests ==
  ASSUME RequestInv, NEW c \in Active, stage[c] \in Backoff, GoOn(c), PluginInv'
  PROVE  RequestInv'
<1>1. CASE Superseded(c)
  BY <1>1, FinishRequests
    DEF GoOn, RequestInv, PluginTypeOK, Attempts, PluginInv, FullInv, IInv
<1>2. CASE ~Superseded(c)
  <2>1. Resend(c) /\ c \in Cmd
    BY <1>2 DEF GoOn, Active
  <2>2. Active' = Active
    BY <2>1, ResumeKeeps DEF Resend, Quiet, RequestInv, PluginInv
  <2>3. /\ stage' \in [Cmd -> Stage] /\ pending' \subseteq Cmd /\ hooked' \subseteq Active'
        /\ future' \in [Cmd -> {"open"} \cup Settled]
        /\ \A d \in Cmd : stage'[d] = "backoff" => stage[d] = "backoff" /\ d # c
    BY <2>1, <2>2 DEF Resend, Send, RequestInv, PluginTypeOK, Stage
  <2>4. /\ attempt' \in [Cmd -> 0 .. MaxAttempts - 1]
        /\ owed' \in [Cmd -> 0 .. MaxAttempts]
        /\ \A d \in Cmd : /\ owed'[d] <= attempt'[d] + 1
                          /\ d # c => attempt'[d] = attempt[d]
    <3>1. CASE stage[c] = "backoff"
      <4>1. /\ attempt' = [attempt EXCEPT ![c] = @ + 1]
            /\ owed' = [owed EXCEPT ![c] = owed[c] + 1]
        BY <2>1, <3>1 DEF Resend, Send
      <4> QED
        BY <2>1, <3>1, <4>1, AttemptsAssumption DEF RequestInv, PluginTypeOK, Attempts
    <3>2. CASE stage[c] # "backoff"
      <4>1. attempt' = attempt /\ owed' = [owed EXCEPT ![c] = 1]
        BY <2>1, <3>2 DEF Resend, Send
      <4> QED
        BY <2>1, <4>1, AttemptsAssumption DEF RequestInv, PluginTypeOK, Attempts
    <3> QED
      BY <3>1, <3>2
  <2>5. Attempts'
    BY <2>3, <2>4 DEF RequestInv, Attempts
  <2> QED
    BY <2>1, <2>3, <2>4, <2>5
      DEF Resend, RequestInv, PluginTypeOK, PluginInv, FullInv, IInv
<1> QED
  BY <1>1, <1>2

LEMMA CallerRequests ==
  ASSUME RequestInv, NEW c \in Cmd, Caller(c) \/ WaitTimeout(c) \/ Cancel(c), PluginInv'
  PROVE  RequestInv'
<1>1. stage[c] = "awaiting" => c \in Active
  BY DEF RequestInv, PluginInv, StagesOK, Active
<1>2. CASE \E ok \in BOOLEAN : Finish(c, ok) /\ (Return(c) \/ Refused(c) \/ AttemptFails(c) \/ Cancel(c))
  <2>1. c \in Active
    BY <1>1, <1>2 DEF Return, Refused, AttemptFails, Cancel
  <2>2. /\ stage' \in [Cmd -> Stage] /\ hooked' \subseteq Active'
        /\ \A d \in Cmd : stage'[d] = "backoff" => stage[d] = "backoff"
    BY <1>2, <2>1, FinishRequests
  <2>3. /\ UNCHANGED <<attempt, busyRetried, hookRun, owed>> /\ pending' \subseteq Cmd
        /\ future' \in [Cmd -> {"open"} \cup Settled]
    BY <1>2 DEF Return, Refused, AttemptFails, Cancel, RequestInv, PluginTypeOK, Settled
  <2> QED
    BY <2>2, <2>3 DEF RequestInv, PluginTypeOK, Attempts, PluginInv, FullInv, IInv
<1>3. CASE (AttemptFails(c) /\ ~Finish(c, FALSE)) \/ BusyBackOff(c)
  <2>1. Active' = Active /\ UNCHANGED <<attempt, hooked, hookRun, owed>>
    BY <1>3 DEF AttemptFails, BusyBackOff, trackVars, Active
  <2>2. /\ stage' \in [Cmd -> Stage] /\ pending' \subseteq Cmd /\ busyRetried' \subseteq Cmd
        /\ future' \in [Cmd -> {"open"} \cup Settled]
        /\ \A d \in Cmd \ {c} : stage'[d] = stage[d]
    BY <1>3 DEF AttemptFails, BusyBackOff, RequestInv, PluginTypeOK, Stage, Settled
  <2>3. stage'[c] = "backoff" => attempt[c] + 1 < MaxAttempts
    <3>1. attempt[c] + 1 # MaxAttempts => attempt[c] + 1 < MaxAttempts
      BY AttemptsAssumption DEF RequestInv, PluginTypeOK
    <3> QED
      BY <1>3, <3>1 DEF AttemptFails, BusyBackOff, RequestInv, PluginTypeOK
  <2> QED
    BY <2>1, <2>2, <2>3 DEF RequestInv, PluginTypeOK, Attempts, PluginInv, FullInv, IInv
<1>4. CASE AwaitNewer(c)
  <2>1. Active' = Active /\ UNCHANGED requestVars
    BY <1>4, AwaitKeeps DEF AwaitNewer, Quiet, RequestInv, PluginInv
  <2> QED
    BY <2>1 DEF requestVars, RequestInv, PluginTypeOK, Attempts, PluginInv, FullInv, IInv
<1>5. CASE Retry(c) \/ WaitTimeout(c)
  BY <1>5, GoOnRequests DEF Retry, WaitTimeout, Backoff, Active
<1> QED
  BY <1>2, <1>3, <1>4, <1>5 DEF Caller, Return, Refused, Cancel

LEMMA RequestInvariant == Spec => []RequestInv
<1>1. Init => RequestInv
  <2> SUFFICES ASSUME Init PROVE RequestInv
    OBVIOUS
  <2>1. PluginInv
    BY PluginInvInit
  <2> QED
    BY <2>1, AttemptsAssumption
      DEF Init, RequestInv, PluginTypeOK, Attempts, Stage, PluginInv, FullInv, IInv
<1>2. RequestInv /\ [Next]_vars => RequestInv'
  <2> SUFFICES ASSUME RequestInv, [Next]_vars PROVE RequestInv'
    OBVIOUS
  <2>1. PluginInv'
    BY PluginInvNext DEF RequestInv
  <2>2. CASE UNCHANGED vars
    BY <2>1, <2>2 DEF vars, requestVars, trackVars, RequestInv, PluginTypeOK, Attempts,
                      PluginInv, FullInv, IInv, Active
  <2>3. CASE ListenerStops
    <3>1. Cmd # {}
      BY <2>3 DEF ListenerStops, RequestInv, PluginTypeOK
    <3> QED
      BY <2>1, <2>3, <3>1, ListenerRequests
  <2> QED
    BY <2>1, <2>2, <2>3, CallRequests, ListenerRequests, CallerRequests DEF Next
<1> QED
  BY <1>1, <1>2, PTL DEF Spec

\* For any number of calls and attempts: a hook is registered only for a call that
\* runs, none is left behind, and no message goes out after the last attempt
\* (_send_hmip_request and its finally).
THEOREM RequestTypes == Spec => []PluginTypeOK
<1>1. RequestInv => PluginTypeOK
  BY DEF RequestInv
<1> QED
  BY <1>1, RequestInvariant, PTL

-----------------------------------------------------------------------------
(* The commands keep the promise of Delivery: how often each message went    *)
(* out is told by its attempts and by whether its refusal was retried.       *)

\* A call that was not made sent nothing, and one that backs off after
\* DEVICE_BUSY has used up its retry.
SendsOK ==
  \A c \in Cmd : /\ phase[c] = "new" => attempt[c] = 0 /\ c \notin busyRetried
                 /\ stage[c] = "busyBackoff" => c \in busyRetried

SendInv == RequestInv /\ SendsOK

BusyOut(c) == c \in busyRetried /\ stage[c] # "busyBackoff"

\* A step on which the bookkeeping stays quiet and a call sends nothing.
Idle ==
  /\ Quiet /\ attempt' = attempt
  /\ \A c \in Cmd : BusyOut(c)' <=> BusyOut(c)
  /\ \A c \in Cmd : stage'[c] = "busyBackoff" => c \in busyRetried'
  /\ \A c \in Cmd : phase[c] = "new" => (c \in busyRetried' <=> c \in busyRetried)

\* A retry that goes on.
RetryGoesOn(c) == stage[c] \in Backoff /\ ~Superseded(c) /\ Resend(c)

\* A call that ends.
Ends(c) ==
  /\ \E ok \in BOOLEAN : Finish(c, ok)
  /\ UNCHANGED <<attempt, busyRetried>>

\* What a step can do to a call and to what it sent.
LEMMA PluginSteps ==
  ASSUME SendInv, [Next]_vars
  PROVE  \/ \E c \in Cmd : Call(c)
         \/ \E c \in Active : Ends(c) \/ RetryGoesOn(c)
         \/ Idle
<1> USE DEF SendInv
<1>1. FullInv /\ StagesOK /\ SendsOK /\ stage \in [Cmd -> Stage]
  BY DEF RequestInv, PluginInv, StagesOK
<1>2. ASSUME UNCHANGED <<trackVars, stage, attempt, busyRetried>> PROVE Idle
  <2>1. Quiet
    BY <1>1, <1>2, UnchangedKeeps
  <2> QED
    BY <1>1, <1>2, <2>1 DEF Idle, BusyOut, SendsOK
<1>3. CASE UNCHANGED vars
  BY <1>2, <1>3 DEF vars, requestVars
<1>4. CASE ListenerStops
  BY <1>2, <1>4 DEF ListenerStops
<1>5. CASE Next /\ ~ListenerStops
  <2>1. PICK c \in Cmd : \/ Call(c) \/ Answer(c) \/ IgnoredAnswer(c) \/ Caller(c)
                         \/ WaitTimeout(c) \/ Cancel(c)
    BY <1>5 DEF Next
  <2>2. stage[c] = "awaiting" \/ stage[c] \in Backoff => c \in Active
    BY <1>1 DEF StagesOK, Active
  <2>3. CASE Answer(c) \/ IgnoredAnswer(c)
    <3>1. CASE UNCHANGED trackVars
      BY <1>2, <2>3, <3>1 DEF Answer, IgnoredAnswer
    <3>2. CASE Record(c)
      <4>1. Quiet
        BY <1>1, <3>2, RecordStep DEF FullInv
      <4>2. UNCHANGED <<stage, attempt, busyRetried>>
        BY <2>3 DEF Answer, IgnoredAnswer
      <4> QED
        BY <1>1, <4>1, <4>2 DEF Idle, BusyOut, SendsOK
    <3> QED
      BY <2>3, <3>1, <3>2 DEF Answer, IgnoredAnswer
  <2>4. CASE Return(c) \/ Refused(c) \/ Cancel(c)
    BY <2>2, <2>4 DEF Return, Refused, Cancel, Ends
  <2>5. CASE AttemptFails(c)
    <3>1. stage[c] = "awaiting" /\ UNCHANGED <<attempt, busyRetried>>
      BY <2>5 DEF AttemptFails
    <3>2. CASE Finish(c, FALSE)
      BY <2>2, <3>1, <3>2 DEF Ends
    <3>3. CASE UNCHANGED trackVars /\ stage' = [stage EXCEPT ![c] = "backoff"]
      <4>1. Quiet
        BY <1>1, <3>3, UnchangedKeeps
      <4> QED
        BY <1>1, <3>1, <3>3, <4>1 DEF Idle, BusyOut, SendsOK
    <3> QED
      BY <2>5, <3>2, <3>3 DEF AttemptFails
  <2>6. CASE BusyBackOff(c)
    <3>1. /\ stage[c] = "awaiting" /\ c \notin busyRetried
          /\ busyRetried' = busyRetried \cup {c} /\ attempt' = attempt
          /\ stage' = [stage EXCEPT ![c] = "busyBackoff"]
      BY <2>6 DEF BusyBackOff
    <3>2. Quiet /\ phase[c] # "new"
      BY <1>1, <2>2, <2>6, <3>1, UnchangedKeeps DEF BusyBackOff, Active
    <3> QED
      BY <1>1, <3>1, <3>2 DEF Idle, BusyOut, SendsOK
  <2>7. CASE AwaitNewer(c)
    <3>1. Quiet /\ UNCHANGED <<stage, attempt, busyRetried>>
      BY <1>1, <2>7, AwaitKeeps DEF AwaitNewer, requestVars
    <3> QED
      BY <1>1, <3>1 DEF Idle, BusyOut, SendsOK
  <2>8. CASE Retry(c) \/ WaitTimeout(c)
    <3>1. c \in Active /\ GoOn(c) /\ stage[c] \in Backoff
      BY <2>2, <2>8 DEF Retry, WaitTimeout, Backoff
    <3> QED
      BY <3>1 DEF GoOn, Ends, RetryGoesOn
  <2> QED
    BY <2>1, <2>3, <2>4, <2>5, <2>6, <2>7, <2>8 DEF Caller
<1> QED
  BY <1>3, <1>4, <1>5

\* What a retry that goes on leaves of the bookkeeping.
LEMMA RetrySends ==
  ASSUME SendInv, NEW c \in Active, RetryGoesOn(c)
  PROVE  /\ Quiet /\ busyRetried' = busyRetried
         /\ stage' = [stage EXCEPT ![c] = "awaiting"] /\ stage \in [Cmd -> Stage]
         /\ IF stage[c] = "backoff" THEN attempt' = [attempt EXCEPT ![c] = @ + 1]
                                    ELSE attempt' = attempt
<1>1. /\ Resume(c) /\ busyRetried' = busyRetried
      /\ UNCHANGED <<request, cmdSeq, gen, counters, inflight, overrides>>
      /\ sentFrom' = [sentFrom EXCEPT ![c] = Refreshed(c)]
      /\ stage' = [stage EXCEPT ![c] = "awaiting"]
      /\ IF stage[c] = "backoff" THEN attempt' = [attempt EXCEPT ![c] = @ + 1]
                                 ELSE attempt' = attempt
  BY DEF RetryGoesOn, Resend, Send
<1>2. Quiet
  BY <1>1, ResumeKeeps DEF SendInv, RequestInv, PluginInv
<1> QED
  BY <1>1, <1>2 DEF SendInv, RequestInv, PluginInv, StagesOK

LEMMA SendInvNext ==
  ASSUME SendInv, [Next]_vars, RequestInv'
  PROVE  SendInv'
<1> USE DEF SendInv
<1>1. /\ FullInv /\ IInv /\ TypeOK /\ StagesOK /\ SendsOK /\ stage \in [Cmd -> Stage]
      /\ phase \in [Cmd -> Phase] /\ attempt \in [Cmd -> 0 .. MaxAttempts - 1]
  BY DEF RequestInv, PluginInv, PluginTypeOK, StagesOK, FullInv, IInv, TypeOK
<1>2. CASE \E c \in Cmd : Call(c)
  <2>1. PICK c \in Cmd : Call(c)
    BY <1>2
  <2>2. /\ phase'[c] = "running" /\ \A d \in Cmd \ {c} : phase'[d] = "new" <=> phase[d] = "new"
    BY <1>1, <2>1, EnterActive DEF Call
  <2>3. UNCHANGED <<attempt, busyRetried>> /\ stage' = [stage EXCEPT ![c] = "awaiting"]
    BY <2>1 DEF Call, Send
  <2> QED
    BY <1>1, <2>2, <2>3 DEF SendsOK
<1>3. CASE \E c \in Active : Ends(c)
  <2>1. PICK c \in Active : Ends(c)
    BY <1>3
  <2>2. PICK ok \in BOOLEAN : Finish(c, ok)
    BY <2>1 DEF Ends
  <2>3. /\ \A d \in Cmd : phase'[d] = "new" <=> phase[d] = "new"
        /\ UNCHANGED <<attempt, busyRetried>>
        /\ stage' = [stage EXCEPT ![c] = IF ok THEN "succeeded" ELSE "failed"]
    BY <1>1, <2>1, <2>2, LeaveActive DEF Finish, Ends
  <2> QED
    BY <1>1, <2>3 DEF SendsOK
<1>4. CASE \E c \in Active : RetryGoesOn(c)
  <2>1. PICK c \in Active : RetryGoesOn(c)
    BY <1>4
  <2>2. /\ Quiet /\ busyRetried' = busyRetried /\ stage' = [stage EXCEPT ![c] = "awaiting"]
        /\ attempt' = attempt \/ attempt' = [attempt EXCEPT ![c] = @ + 1]
    BY <2>1, RetrySends
  <2>3. phase[c] # "new"
    BY DEF Active
  <2> QED
    BY <1>1, <2>2, <2>3 DEF SendsOK, Quiet
<1>5. CASE Idle
  BY <1>1, <1>5 DEF Idle, Quiet, SendsOK
<1> QED
  BY <1>2, <1>3, <1>4, <1>5, PluginSteps

LEMMA SentTimes ==
  ASSUME RequestInv, NEW c \in Cmd
  PROVE  /\ c \notin Active => TimesSent[c] = 0
         /\ c \in Active /\ BusyOut(c) => TimesSent[c] = attempt[c] + 2
         /\ c \in Active /\ ~BusyOut(c) => TimesSent[c] = attempt[c] + 1
         /\ attempt[c] \in 0 .. MaxAttempts - 1
<1>1. attempt[c] \in 0 .. MaxAttempts - 1 /\ MaxAttempts \in Nat
  BY AttemptsAssumption DEF RequestInv, PluginTypeOK
<1>2. CASE c \notin Active
  BY <1>1, <1>2 DEF TimesSent
<1>3. CASE c \in Active /\ BusyOut(c)
  BY <1>1, <1>3 DEF TimesSent, BusyOut
<1>4. CASE c \in Active /\ ~BusyOut(c)
  BY <1>1, <1>4 DEF TimesSent, BusyOut
<1> QED
  BY <1>1, <1>2, <1>3, <1>4

LEMMA SentTimesNext ==
  ASSUME RequestInv', NEW c \in Cmd
  PROVE  /\ c \in Active' /\ BusyOut(c)' => TimesSent'[c] = attempt'[c] + 2
         /\ c \in Active' /\ ~BusyOut(c)' => TimesSent'[c] = attempt'[c] + 1
<1>1. attempt'[c] \in 0 .. MaxAttempts - 1 /\ MaxAttempts \in Nat
  BY AttemptsAssumption DEF RequestInv, PluginTypeOK
<1>2. CASE c \in Active' /\ BusyOut(c)'
  BY <1>1, <1>2 DEF TimesSent, BusyOut
<1>3. CASE c \in Active' /\ ~BusyOut(c)'
  BY <1>1, <1>3 DEF TimesSent, BusyOut
<1> QED
  BY <1>2, <1>3

\* A step that concerns one call leaves what the others sent alone.
LEMMA SendsMove ==
  ASSUME NEW c \in Cmd,
         \A d \in Cmd \ {c} : /\ d \in Active' <=> d \in Active
                              /\ attempt'[d] = attempt[d]
                              /\ BusyOut(d)' <=> BusyOut(d)
  PROVE  TimesSent' = [TimesSent EXCEPT ![c] = TimesSent'[c]]
<1>1. ASSUME NEW d \in Cmd \ {c} PROVE TimesSent'[d] = TimesSent[d]
  BY DEF TimesSent, BusyOut
<1>2. DOMAIN TimesSent = Cmd /\ DOMAIN TimesSent' = Cmd
  BY DEF TimesSent
<1>3. /\ TimesSent = [d \in Cmd |-> TimesSent[d]]
      /\ TimesSent' = [d \in Cmd |-> TimesSent'[d]]
  BY DEF TimesSent
<1> QED
  BY <1>1, <1>2, <1>3, Zenon

DeliveryVars == <<request, Active, Stale, TimesSent>>

LEMMA DeliveryStep ==
  ASSUME SendInv, [Next]_vars, RequestInv'
  PROVE  [Promised!DeliveryNext]_DeliveryVars
<1> USE DEF SendInv
<1>1. /\ FullInv /\ IInv /\ TypeOK /\ StagesOK /\ SendsOK /\ stage \in [Cmd -> Stage]
      /\ attempt \in [Cmd -> 0 .. MaxAttempts - 1] /\ MaxAttempts \in Nat \ {0}
  BY AttemptsAssumption
    DEF RequestInv, PluginInv, PluginTypeOK, StagesOK, FullInv, IInv
<1>2. ASSUME NEW c \in Cmd, Call(c) PROVE Promised!Accept(c)
  <2>1. Promise!Start(c) /\ Active' = Active \cup {c}
    BY <1>1, <1>2, EnterStarts, EnterActive DEF Call
  <2>2. /\ c \notin busyRetried /\ attempt[c] = 0 /\ UNCHANGED <<attempt, busyRetried>>
        /\ stage' = [stage EXCEPT ![c] = "awaiting"]
    BY <1>1, <1>2 DEF Call, Enter, Send, SendsOK
  <2>3. ~BusyOut(c)' /\ \A d \in Cmd \ {c} : BusyOut(d)' <=> BusyOut(d)
    BY <1>1, <2>2 DEF BusyOut
  <2>4. TimesSent' = [TimesSent EXCEPT ![c] = TimesSent'[c]]
    BY <2>1, <2>2, <2>3, SendsMove
  <2>5. TimesSent'[c] = 1
    <3>1. c \in Active' /\ attempt'[c] = 0
      BY <2>1, <2>2
    <3> QED
      BY <2>3, <3>1 DEF TimesSent, BusyOut
  <2> QED
    BY <2>1, <2>4, <2>5 DEF Promised!Accept, Promised!Start, Promise!Start
<1>3. ASSUME NEW c \in Active, Ends(c) PROVE Promised!Close(c)
  <2>1. PICK ok \in BOOLEAN : Finish(c, ok)
    BY <1>3 DEF Ends
  <2>2. Promise!Finish(c) /\ Active' = Active \ {c} /\ c \in Cmd
    BY <1>1, <2>1, LeaveFinishes, LeaveActive DEF Finish, Active
  <2>3. /\ UNCHANGED <<attempt, busyRetried>>
        /\ \A d \in Cmd \ {c} : BusyOut(d)' <=> BusyOut(d)
    BY <1>1, <1>3, <2>1 DEF Ends, Finish, BusyOut
  <2>4. TimesSent' = [TimesSent EXCEPT ![c] = TimesSent'[c]]
    BY <2>2, <2>3, SendsMove
  <2>5. TimesSent'[c] = 0
    BY <2>2 DEF TimesSent
  <2> QED
    BY <2>2, <2>4, <2>5 DEF Promised!Close, Promised!Finish, Promise!Finish
<1>4. ASSUME NEW c \in Active, RetryGoesOn(c) PROVE Promised!SendAgain(c)
  <2>1. c \in Cmd /\ c \in Active \ Stale
    BY <1>4 DEF RetryGoesOn, Active, Stale
  <2>2. /\ Quiet /\ busyRetried' = busyRetried /\ stage' = [stage EXCEPT ![c] = "awaiting"]
        /\ IF stage[c] = "backoff" THEN attempt' = [attempt EXCEPT ![c] = @ + 1]
                                   ELSE attempt' = attempt
    BY <1>4, RetrySends
  <2>3. UNCHANGED <<request, Active, Stale>>
    BY <2>2, QuietStutters DEF PromiseVars
  <2>4. \A d \in Cmd \ {c} : attempt'[d] = attempt[d] /\ (BusyOut(d)' <=> BusyOut(d))
    BY <1>1, <2>2 DEF BusyOut
  <2>5. TimesSent' = [TimesSent EXCEPT ![c] = TimesSent'[c]]
    BY <2>1, <2>3, <2>4, SendsMove
  <2>6. TimesSent[c] \in 1 .. MaxAttempts /\ TimesSent'[c] = TimesSent[c] + 1
    <3>1. CASE stage[c] = "backoff"
      <4>1. attempt[c] + 1 < MaxAttempts /\ attempt'[c] = attempt[c] + 1
        BY <1>1, <2>1, <2>2, <3>1 DEF RequestInv, Attempts
      <4>2. BusyOut(c)' <=> BusyOut(c)
        BY <1>1, <2>1, <2>2, <3>1 DEF BusyOut
      <4>3. /\ c \in Active /\ c \in Active'
            /\ BusyOut(c) => TimesSent[c] = attempt[c] + 2
            /\ ~BusyOut(c) => TimesSent[c] = attempt[c] + 1
            /\ BusyOut(c)' => TimesSent'[c] = attempt'[c] + 2
            /\ ~BusyOut(c)' => TimesSent'[c] = attempt'[c] + 1
            /\ attempt[c] \in 0 .. MaxAttempts - 1
        BY <2>1, <2>3, SentTimes, SentTimesNext
      <4> QED
        BY <1>1, <4>1, <4>2, <4>3
    <3>2. CASE stage[c] = "busyBackoff"
      <4>1. attempt'[c] = attempt[c] /\ c \in busyRetried /\ ~BusyOut(c) /\ BusyOut(c)'
        BY <1>1, <2>1, <2>2, <3>2 DEF SendsOK, BusyOut
      <4>2. /\ c \in Active /\ c \in Active'
            /\ ~BusyOut(c) => TimesSent[c] = attempt[c] + 1
            /\ BusyOut(c)' => TimesSent'[c] = attempt'[c] + 2
            /\ attempt[c] \in 0 .. MaxAttempts - 1
        BY <2>1, <2>3, SentTimes, SentTimesNext
      <4> QED
        BY <1>1, <4>1, <4>2
    <3> QED
      BY <1>4, <3>1, <3>2 DEF RetryGoesOn, Backoff
  <2>7. TimesSent' = [TimesSent EXCEPT ![c] = TimesSent[c] + 1]
    BY <2>5, <2>6
  <2>8. TimesSent[c] \in 1 .. (MaxAttempts + 1) - 1
    BY <1>1, <2>6
  <2> QED
    BY <2>1, <2>3, <2>7, <2>8 DEF Promised!SendAgain, Stale
<1>5. ASSUME Idle PROVE UNCHANGED DeliveryVars
  <2>1. UNCHANGED <<request, Active, Stale>>
    BY <1>5, QuietStutters DEF PromiseVars, Idle
  <2>2. TimesSent' = TimesSent
    BY <1>5, <2>1 DEF TimesSent, Idle, BusyOut
  <2> QED
    BY <2>1, <2>2 DEF DeliveryVars
<1> QED
  BY <1>2, <1>3, <1>4, <1>5, PluginSteps DEF Promised!DeliveryNext, Active

\* For any number of overlapping Plugin User commands and of attempts: a message goes
\* out at most once per attempt and once more after DEVICE_BUSY, and after the first
\* time only while no command that replaces it has started, whatever answers come,
\* come late or never come (_send_hmip_request).
THEOREM PluginKeepsPromise == Spec => ImplementsDelivery
<1>1. Init => Promised!DeliveryInit /\ SendsOK
  <2> SUFFICES ASSUME Init PROVE Promised!DeliveryInit /\ SendsOK
    OBVIOUS
  <2>1. Active = {} /\ request \in [Cmd -> Request]
    BY DEF Init, TrackInit, Active
  <2>2. TimesSent = [c \in Cmd |-> 0]
    BY <2>1 DEF TimesSent
  <2>3. /\ attempt = [c \in Cmd |-> 0] /\ busyRetried = {}
        /\ stage = [c \in Cmd |-> "idle"]
    BY DEF Init
  <2> QED
    BY <2>1, <2>2, <2>3 DEF Promised!DeliveryInit, Promised!Init, SendsOK
<1>2. SendInv /\ [Next]_vars /\ RequestInv' => SendInv' /\ [Promised!DeliveryNext]_DeliveryVars
  BY SendInvNext, DeliveryStep
<1>3. Init /\ RequestInv => SendInv
  BY <1>1 DEF SendInv
<1> QED
  BY <1>1, <1>2, <1>3, RequestInvariant, PTL
    DEF Spec, ImplementsDelivery, Promised!DeliverySpec, DeliveryVars, Stale

-----------------------------------------------------------------------------
\* For any number of overlapping Plugin User commands: whatever the calls wait for,
\* one of them can go on by itself; retries never wait for each other in a circle
\* (_await_newer_field_updates).
THEOREM PluginNeverBlocked == Spec => []NeverAllBlocked
<1>1. RequestInv => NeverAllBlocked
  <2> SUFFICES ASSUME RequestInv, Active # {} PROVE \E c \in Active : CanGoOn(c)
    BY DEF NeverAllBlocked
  <2>1. FullInv /\ StagesOK
    BY DEF RequestInv, PluginInv
  <2>2. PICK c \in Active : phase[c] \in {"running", "woken"}
    BY <2>1, NewestRuns
  <2>3. CanGoOn(c)
    BY <2>1, <2>2 DEF StagesOK, CanGoOn, Backoff
  <2> QED
    BY <2>3
<1> QED
  BY <1>1, RequestInvariant, PTL
=============================================================================
