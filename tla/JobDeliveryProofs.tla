-------------------------- MODULE JobDeliveryProofs --------------------------
(***************************************************************************)
(* Proofs about job delivery for every set of jobs of every kind, every    *)
(* number of sessions and restarts and every queue size.                   *)
(***************************************************************************)
EXTENDS JobDelivery, SequenceTheorems, TLAPS

-----------------------------------------------------------------------------
(* Facts about sequences, stated once for the prover. *)

LEMMA TailOfSeq ==
  ASSUME NEW S, NEW q \in Seq(S), q # <<>>
  PROVE  /\ Tail(q) \in Seq(S) /\ Head(q) \in S
         /\ \A i \in 1..Len(Tail(q)) : Tail(q)[i] = q[i + 1] /\ i + 1 \in 1..Len(q)
BY HeadTailProperties

LEMMA AppendToSeq ==
  ASSUME NEW S, NEW q \in Seq(S), NEW e \in S
  PROVE  Append(q, e) \in Seq(S)
BY AppendProperties

LEMMA ConcatOfSeq ==
  ASSUME NEW S, NEW q \in Seq(S), NEW r \in Seq(S)
  PROVE  q \o r \in Seq(S)
BY ConcatProperties

LEMMA OneOrTwo ==
  ASSUME NEW S, NEW a \in S, NEW b \in S
  PROVE  <<a>> \in Seq(S) /\ <<a, b>> \in Seq(S) /\ <<>> \in Seq(S)
OBVIOUS

-----------------------------------------------------------------------------
(* The operators that choose a job's next state. *)

JobRow == JobState \cup {"absent"}

LEMMA RecoveryState ==
  ASSUME NEW j, NEW current PROVE Recovery(j, current) \in JobState
BY DEF Recovery, JobState

LEMMA DisconnectedRows ==
  ASSUME NEW rows \in [Jobs -> JobRow] PROVE Disconnected(rows) \in [Jobs -> JobRow]
BY RecoveryState DEF Disconnected, JobRow

LEMMA ValidTarget ==
  ASSUME NEW current, NEW target, NEW w, NEW e, ValidTransition(current, target, w, e)
  PROVE  target \in JobState
BY DEF ValidTransition, Moves, JobState

LEMMA AckTargetState ==
  ASSUME state \in [Jobs -> JobRow], NEW j \in Jobs, NEW status
  PROVE  AckTarget(j, status) \in JobRow \cup {"invalid"}
BY RecoveryState DEF AckTarget, JobRow, JobState

LEMMA ResultTargetState ==
  ASSUME state \in [Jobs -> JobRow], NEW j \in Jobs, NEW status
  PROVE  ResultTarget(j, status) \in JobRow \cup {"invalid"}
<1> DEFINE outcome == IF j \in Observes \cap Unproven /\ status = "succeeded" THEN "failed" ELSE status
<1>1. ValidTransition(state[j], status, j \in Writes, FALSE) => status \in JobState
  BY ValidTarget
<1>2. ValidTransition(state[j], outcome, j \in Writes, TRUE) => outcome \in JobState
  BY ValidTarget
<1> QED BY <1>1, <1>2 DEF ResultTarget, JobRow, JobState

LEMMA ReconcileTargetState ==
  ASSUME NEW j \in Jobs, NEW status
  PROVE  ReconcileTarget(j, status) \in JobState \cup {"invalid"}
BY DEF ReconcileTarget, JobState

LEMMA CancelTargetState ==
  ASSUME state \in [Jobs -> JobRow], NEW j \in Jobs
  PROVE  CancelTarget(j) \in JobRow
BY DEF CancelTarget, JobRow, JobState

-----------------------------------------------------------------------------
(* Type correctness. *)

\* The worker is busy with a job, and has a job whenever it is busy.
WorkHasJob == work.at # "idle" => work.job \in Jobs

TInv == TypeOK /\ WorkHasJob

LEMMA TypeInit == Init => TInv
<1> SUFFICES ASSUME Init PROVE TInv
  OBVIOUS
<1>1. <<>> \in Seq(DownMessage) /\ <<>> \in Seq(UpMessage) /\ <<>> \in Seq(Jobs)
  OBVIOUS
<1>2. "absent" \in JobRow /\ "none" \in Cause /\ "none" \in HandlerState /\ "none" \in LedgerState
  BY DEF JobRow, Cause, HandlerState, LedgerState
<1>3. TypeOK
  BY <1>1, <1>2 DEF Init, TypeOK, JobRow, Idle, NotSending
<1> QED BY <1>3 DEF Init, TInv, WorkHasJob, Idle

\* What the Gateway and the Agent put on the wire is a message.
LEMMA SendDownType ==
  ASSUME TypeOK, NEW s, NEW m \in DownMessage, SendDown(s, m)
  PROVE  down' \in Seq(DownMessage)
BY AppendToSeq DEF SendDown, TypeOK

LEMMA SendUpType ==
  ASSUME TypeOK, NEW m \in Seq(UpMessage), SendUp(m)
  PROVE  up' \in [Session -> Seq(UpMessage)]
BY ConcatOfSeq DEF SendUp, TypeOK

LEMMA MessageTypes ==
  /\ \A type \in DownType, jobs \in SUBSET Jobs : Down(type, jobs) \in DownMessage
  /\ \A type \in UpType, j \in Jobs, status \in UpStatus : Up(type, j, status) \in UpMessage
BY DEF Down, Up, DownMessage, UpMessage

\* What a message handler of the Gateway may change, lock apart.
GatewayTyped ==
  /\ state \in [Jobs -> JobRow] /\ cause \in [Jobs -> Cause]
  /\ active \in Session \cup {NoSession} /\ conn \in Session \cup {NoSession}
  /\ fresh \in BOOLEAN /\ handler \in [Session -> HandlerState]
  /\ up \in [Session -> Seq(UpMessage)]

LEMMA EndHandlerType ==
  ASSUME TypeOK, NEW s \in Session, EndHandler(s), UNCHANGED cause
  PROVE  GatewayTyped'
<1>1. <<>> \in Seq(UpMessage)
  OBVIOUS
<1>2. state' \in [Jobs -> JobRow]
  BY DisconnectedRows DEF EndHandler, TypeOK, JobRow
<1>3. handler' \in [Session -> HandlerState] /\ up' \in [Session -> Seq(UpMessage)]
  BY <1>1 DEF EndHandler, TypeOK, HandlerState
<1> QED BY <1>2, <1>3 DEF EndHandler, GatewayTyped, TypeOK

LEMMA HeadOfUp ==
  ASSUME TypeOK, NEW s \in Session, NEW type, Reading(s, type)
  PROVE  up[s] # <<>> /\ Head(up[s]) \in UpMessage
         /\ Head(up[s]).job \in Jobs /\ Head(up[s]).status \in UpStatus
<1>1. up[s] \in Seq(UpMessage) /\ up[s] # <<>>
  BY DEF TypeOK, Reading
<1>2. Head(up[s]) \in UpMessage
  BY <1>1, TailOfSeq
<1> QED BY <1>1, <1>2 DEF UpMessage

LEMMA StoreType ==
  ASSUME TypeOK, NEW s \in Session, NEW j \in Jobs, NEW target \in JobRow \cup {"invalid"},
         NEW word \in Cause, up[s] # <<>>, Store(s, j, target, word)
  PROVE  GatewayTyped' /\ (target = "invalid" => lock' = lock)
<1>1. CASE target = "invalid"
  BY <1>1, EndHandlerType DEF Store
<1>2. CASE target # "invalid"
  <2>1. Tail(up[s]) \in Seq(UpMessage)
    BY TailOfSeq DEF TypeOK
  <2>2. PICK w \in Cause : Move(j, target, w)
    BY <1>2 DEF Store, TypeOK
  <2>3. UNCHANGED connVars /\ up' = [up EXCEPT ![s] = Tail(@)]
    BY <1>2 DEF Store
  <2>4. target \in JobRow
    BY <1>2
  <2> QED BY <1>2, <2>1, <2>2, <2>3, <2>4 DEF Move, TypeOK, GatewayTyped, JobRow, connVars
<1> QED BY <1>1, <1>2

LEMMA FinalizeType ==
  ASSUME TypeOK, NEW s \in Session, NEW j \in Jobs, NEW status, up[s] # <<>>,
         Finalize(s, j, status)
  PROVE  GatewayTyped' /\ lock' \in Jobs \cup {NoJob}
<1> DEFINE target == ResultTarget(j, status)
<1>1. target \in JobRow \cup {"invalid"} /\ "agent" \in Cause
  BY ResultTargetState DEF TypeOK, JobRow, Cause
<1>2. Store(s, j, target, "agent") /\ (target # "invalid" => Release(j) \/ UNCHANGED lock)
  BY DEF Finalize
<1> HIDE DEF target
<1> QED BY <1>1, <1>2, StoreType DEF Release, TypeOK

(* The Agent's operators. *)

LEMMA RecoveredEntry ==
  ASSUME TypeOK, NEW j \in Jobs
  PROVE  Recovered(j) \in LedgerState
BY DEF Recovered, TypeOK, LedgerState, LedgerTerminal

LEMMA EndingsAre ==
  ASSUME NEW j
  PROVE  Endings(j) \subseteq {"succeeded", "failed", "outcome_unknown"}
BY DEF Endings

LEMMA ReconcileStatusType ==
  ASSUME NEW entry \in LedgerState
  PROVE  ReconcileStatus(entry) \in UpStatus
BY DEF ReconcileStatus, LedgerState, LedgerTerminal, UpStatus

\* What the Agent's own state looks like once it has left its session.
AgentTyped ==
  /\ session \in Session \cup {NoSession} /\ welcomed \in BOOLEAN
  /\ down \in Seq(DownMessage) /\ queue \in Seq(Jobs)
  /\ work \in [at : {"idle", "rejecting", "acking", "executing"}, job : Jobs \cup {NoJob}]
  /\ WorkHasJob

LEMMA LeaveSessionType == LeaveSession => AgentTyped'
<1> SUFFICES ASSUME LeaveSession PROVE AgentTyped'
  OBVIOUS
<1>1. down' \in Seq(DownMessage) /\ queue' \in Seq(Jobs)
  BY DEF LeaveSession
<1>2. work' \in [at : {"idle", "rejecting", "acking", "executing"}, job : Jobs \cup {NoJob}]
  BY DEF LeaveSession, Idle
<1>3. WorkHasJob'
  BY DEF LeaveSession, Idle, WorkHasJob
<1> QED BY <1>1, <1>2, <1>3 DEF LeaveSession, AgentTyped

LEMMA TypeStep == TInv /\ [Next]_vars => TInv'
<1> SUFFICES ASSUME TInv, [Next]_vars PROVE TInv'
  OBVIOUS
<1> USE DEF TInv, WorkHasJob, envVars, jobVars, connVars, wireVars, agentVars, hostVars
<1>1. ASSUME NEW j \in Jobs, Create(j) PROVE TInv'
  BY <1>1 DEF Create, TypeOK, JobState
<1>2. ASSUME NEW j \in Jobs, Cancel(j) PROVE TInv'
  <2>1. down' \in Seq(DownMessage)
    BY <1>2, SendDownType, MessageTypes DEF Cancel, TypeOK, DownType
  <2>2. /\ state' \in [Jobs -> JobRow] /\ cause' \in [Jobs -> Cause]
        /\ intent' \in [Jobs -> BOOLEAN]
    BY <1>2, CancelTargetState DEF Cancel, Move, TypeOK, JobRow, Cause
  <2> QED BY <1>2, <2>1, <2>2 DEF Cancel, TypeOK, JobRow
<1>3. ASSUME NEW j \in Jobs, DeadlinePasses(j) PROVE TInv'
  BY <1>3 DEF DeadlinePasses, TypeOK
<1>4. ASSUME NEW j \in Jobs, Sweep(j) PROVE TInv'
  BY <1>4 DEF Sweep, Move, TypeOK, JobState, Cause
<1>5. ASSUME NEW j \in Jobs, DispatchRefused(j) PROVE TInv'
  BY <1>5 DEF DispatchRefused, Move, Release, TypeOK, JobState, Cause
<1>6. ASSUME NEW j \in Jobs, DispatchOffline(j) PROVE TInv'
  BY <1>6 DEF DispatchOffline, TypeOK, JobState
<1>7. ASSUME NEW j \in Jobs, DispatchClaimed(j) PROVE TInv'
  <2>1. down' \in Seq(DownMessage)
    BY <1>7, SendDownType, MessageTypes DEF DispatchClaimed, TypeOK, DownType
  <2> QED BY <1>7, <2>1 DEF DispatchClaimed, TypeOK, JobState
<1>8. ASSUME NEW j \in Jobs, AnswerKnown(j) PROVE TInv'
  <2>1. /\ Up("ack", j, "duplicate") \in UpMessage /\ Up("ack", j, "already_terminal") \in UpMessage
        /\ ledger[j] \in LedgerTerminal => Up("result", j, ledger[j]) \in UpMessage
    BY MessageTypes DEF UpType, UpStatus, LedgerTerminal
  <2>2. up' \in [Session -> Seq(UpMessage)]
    BY <1>8, <2>1, SendUpType, OneOrTwo DEF AnswerKnown
  <2>3. queue' \in Seq(Jobs)
    BY <1>8, TailOfSeq DEF AnswerKnown, Take, TypeOK
  <2>4. UNCHANGED <<jobVars, connVars, sending, down, session, welcomed, work, ledger, hostVars, envVars>>
    BY <1>8 DEF AnswerKnown
  <2> QED BY <2>2, <2>3, <2>4 DEF TypeOK
<1>9. ASSUME NEW j \in Jobs, Refuse(j) PROVE TInv'
  <2>1. Up("ack", j, "rejected") \in UpMessage /\ Up("result", j, "failed") \in UpMessage
    BY MessageTypes DEF UpType, UpStatus
  <2>2. up' \in [Session -> Seq(UpMessage)]
    BY <1>9, <2>1, SendUpType, OneOrTwo DEF Refuse
  <2>3. queue' \in Seq(Jobs)
    BY <1>9, TailOfSeq DEF Refuse, Take, TypeOK
  <2>4. ledger' \in [Jobs -> LedgerState]
    <3>1. PICK entry : /\ entry \in {"received", "failed", ledger[j]}
                       /\ ledger' = [ledger EXCEPT ![j] = entry]
      BY <1>9 DEF Refuse, Record
    <3> QED BY <3>1 DEF TypeOK, LedgerState, LedgerTerminal
  <2>5. UNCHANGED <<jobVars, connVars, sending, down, session, welcomed, hostVars, envVars>>
    BY <1>9 DEF Refuse
  <2>6. work' = [at |-> "rejecting", job |-> j] \/ UNCHANGED work
    BY <1>9 DEF Refuse
  <2> QED BY <2>2, <2>3, <2>4, <2>5, <2>6 DEF TypeOK
<1>10. ASSUME NEW j \in Jobs, Accept(j) PROVE TInv'
  <2>1. Up("ack", j, "accepted") \in UpMessage
    BY MessageTypes DEF UpType, UpStatus
  <2>2. up' \in [Session -> Seq(UpMessage)]
    BY <1>10, <2>1, SendUpType, OneOrTwo DEF Accept
  <2>3. queue' \in Seq(Jobs)
    BY <1>10, TailOfSeq DEF Accept, Take, TypeOK
  <2> QED BY <1>10, <2>2, <2>3 DEF Accept, Record, TypeOK, LedgerState
<1>11. ASSUME NEW j \in Jobs, HostEnds(j) PROVE TInv'
  BY <1>11 DEF HostEnds, TypeOK
<1>12. ASSUME NEW s \in Session, Connect(s) PROVE TInv'
  BY <1>12 DEF Connect, TypeOK, HandlerState
<1>13. ASSUME NEW s \in Session, Activate(s) PROVE TInv'
  <2> DEFINE rows == [j \in Jobs |-> IF state[j] = "cancel_requested"
                                     THEN Recovery(j, state[j]) ELSE state[j]]
             lost == {j \in Jobs : rows[j] \in {"reconnect_pending", "outcome_unknown"}}
  <2>1. rows \in [Jobs -> JobRow]
    BY RecoveryState DEF TypeOK, JobRow
  <2>2. Down("welcome", {}) \in DownMessage /\ Down("reconcile", lost) \in DownMessage
    BY MessageTypes DEF DownType
  <2>3. down' \in Seq(DownMessage)
    <3> HIDE DEF lost
    <3>1. <<Down("welcome", {})>> \in Seq(DownMessage) /\ <<Down("reconcile", lost)>> \in Seq(DownMessage)
          /\ <<>> \in Seq(DownMessage)
      BY <2>2, OneOrTwo
    <3>2. down \in Seq(DownMessage)
      BY DEF TypeOK
    <3>3. down \o <<Down("welcome", {})>> \in Seq(DownMessage)
      BY <3>1, <3>2, ConcatOfSeq
    <3>4. down' = down \/ down' = down \o <<Down("welcome", {})>> \o <<>>
          \/ down' = down \o <<Down("welcome", {})>> \o <<Down("reconcile", lost)>>
      BY <1>13 DEF Activate, lost
    <3> QED BY <3>1, <3>2, <3>3, <3>4, ConcatOfSeq
  <2>4. state' = rows /\ handler' \in [Session -> HandlerState] /\ active' \in Session
    BY <1>13 DEF Activate, TypeOK, HandlerState
  <2> HIDE DEF rows, lost
  <2> QED BY <1>13, <2>1, <2>3, <2>4 DEF Activate, TypeOK, JobRow
<1>14. ASSUME NEW s \in Session, Opened(s) PROVE TInv'
  BY <1>14 DEF Opened, TypeOK, HandlerState
<1>15. ASSUME NEW s \in Session, ActivationFails(s) PROVE TInv'
  BY <1>15, OneOrTwo DEF ActivationFails, TypeOK, HandlerState
<1>16. ASSUME NEW s \in Session, HandlerEnds(s) PROVE TInv'
  <2>1. EndHandler(s) /\ UNCHANGED <<intent, cause, lock, sending, down, agentVars, ledger, hostVars, envVars>>
    BY <1>16 DEF HandlerEnds
  <2> QED BY <2>1, EndHandlerType DEF GatewayTyped, TypeOK, JobRow
<1>17. ASSUME NEW s \in Session, HandleAck(s) PROVE TInv'
  <2> DEFINE m == Head(up[s])
  <2>1. up[s] # <<>> /\ m.job \in Jobs /\ m.status \in UpStatus
    BY <1>17, HeadOfUp DEF HandleAck
  <2>2. m.job \in Jobs /\ m.status \in UpStatus /\ "agent" \in Cause
    BY <2>1 DEF Cause
  <2>3. AckTarget(m.job, m.status) \in JobRow \cup {"invalid"}
    BY <2>2, AckTargetState DEF TypeOK, JobRow
  <2>4. /\ Store(s, m.job, AckTarget(m.job, m.status), "agent")
        /\ AckTarget(m.job, m.status) # "invalid" => UNCHANGED lock
        /\ UNCHANGED <<intent, sending, agentVars, ledger, hostVars, envVars>>
        /\ UNCHANGED down \/ SendDown(s, Down("reconcile", {m.job}))
    BY <1>17 DEF HandleAck
  <2>5. down' \in Seq(DownMessage)
    BY <2>2, <2>4, SendDownType, MessageTypes DEF DownType, TypeOK
  <2> HIDE DEF m
  <2>6. GatewayTyped' /\ lock' = lock
    BY <2>1, <2>2, <2>3, <2>4, StoreType
  <2> QED BY <2>4, <2>5, <2>6 DEF GatewayTyped, TypeOK, JobRow
<1>18. ASSUME NEW s \in Session, HandleResult(s) PROVE TInv'
  <2> DEFINE m == Head(up[s])
  <2>1. m.job \in Jobs /\ up[s] # <<>>
    BY <1>18, HeadOfUp DEF HandleResult
  <2>2. Finalize(s, m.job, m.status) /\ UNCHANGED <<intent, sending, down, agentVars, ledger, hostVars, envVars>>
    BY <1>18 DEF HandleResult
  <2> HIDE DEF m
  <2>3. GatewayTyped' /\ lock' \in Jobs \cup {NoJob}
    BY <2>1, <2>2, FinalizeType
  <2> QED BY <2>2, <2>3 DEF GatewayTyped, TypeOK, JobRow
<1>19. ASSUME NEW s \in Session, HandleReconcileResult(s) PROVE TInv'
  <2> DEFINE m == Head(up[s])
             target == ReconcileTarget(m.job, m.status)
  <2>1. m.job \in Jobs /\ up[s] # <<>> /\ "gateway" \in Cause
    BY <1>19, HeadOfUp DEF HandleReconcileResult, Cause
  <2>2. UNCHANGED <<intent, sending, agentVars, ledger, hostVars, envVars>>
    BY <1>19 DEF HandleReconcileResult
  <2>3. \/ /\ up' = [up EXCEPT ![s] = Tail(@)]
           /\ UNCHANGED <<state, cause, lock, connVars, down>>
        \/ /\ \E status : Finalize(s, m.job, status)
           /\ UNCHANGED down
        \/ /\ Store(s, m.job, target, "gateway")
           /\ target # "invalid" => UNCHANGED lock
           /\ UNCHANGED down \/ SendDown(s, Down("cancel", {m.job}))
    BY <1>19 DEF HandleReconcileResult
  <2> HIDE DEF m
  <2>4. CASE /\ up' = [up EXCEPT ![s] = Tail(@)]
             /\ UNCHANGED <<state, cause, lock, connVars, down>>
    <3>1. Tail(up[s]) \in Seq(UpMessage)
      BY <2>1, TailOfSeq DEF TypeOK
    <3> QED BY <2>2, <2>4, <3>1 DEF TypeOK
  <2>5. CASE (\E status : Finalize(s, m.job, status)) /\ UNCHANGED down
    <3>1. GatewayTyped' /\ lock' \in Jobs \cup {NoJob}
      BY <2>1, <2>5, FinalizeType
    <3> QED BY <2>2, <2>5, <3>1 DEF GatewayTyped, TypeOK, JobRow
  <2>6. CASE /\ Store(s, m.job, target, "gateway")
             /\ target # "invalid" => UNCHANGED lock
             /\ UNCHANGED down \/ SendDown(s, Down("cancel", {m.job}))
    <3>1. target \in JobRow \cup {"invalid"}
      BY <2>1, ReconcileTargetState DEF JobRow
    <3>2. down' \in Seq(DownMessage)
      BY <2>1, <2>6, SendDownType, MessageTypes DEF DownType, TypeOK
    <3> HIDE DEF target
    <3>3. GatewayTyped' /\ lock' = lock
      BY <2>1, <2>6, <3>1, StoreType
    <3> QED BY <2>2, <3>2, <3>3 DEF GatewayTyped, TypeOK, JobRow
  <2> QED BY <2>3, <2>4, <2>5, <2>6
<1>20. CASE SendReturns
  BY <1>20 DEF SendReturns, NotSending, NoSession, TypeOK
<1>21. CASE SendFails
  BY <1>21, DisconnectedRows DEF SendFails, NotSending, NoSession, TypeOK, JobRow
<1>22. CASE GoStale
  BY <1>22 DEF GoStale, TypeOK
<1>23. CASE Heartbeat
  BY <1>23 DEF Heartbeat, TypeOK
<1>24. CASE MarkStale
  BY <1>24, DisconnectedRows DEF MarkStale, TypeOK, JobRow
<1>25. CASE GatewayRestart
  <2>1. handler' \in [Session -> HandlerState] /\ up' \in [Session -> Seq(UpMessage)]
    BY <1>25, OneOrTwo DEF GatewayRestart, TypeOK, HandlerState
  <2>2. state' \in [Jobs -> JobRow]
    BY <1>25, DisconnectedRows DEF GatewayRestart, TypeOK, JobRow
  <2>3. UNCHANGED <<agentVars, ledger, hostVars, expired, down, intent, cause, lock>>
    BY <1>25 DEF GatewayRestart
  <2>4. /\ active' = NoSession /\ conn' = NoSession /\ fresh' = TRUE /\ sending' = NotSending
        /\ restarts' = restarts + 1
    BY <1>25 DEF GatewayRestart
  <2> QED BY <2>1, <2>2, <2>3, <2>4 DEF TypeOK, NotSending, JobRow
<1>26. CASE AgentRestart
  <2>1. ledger' \in [Jobs -> LedgerState]
    BY <1>26, RecoveredEntry DEF AgentRestart, TypeOK
  <2>2. AgentTyped' /\ UNCHANGED <<jobVars, connVars, sending, up, hostVars, expired>>
        /\ restarts' = restarts + 1
    BY <1>26, LeaveSessionType DEF AgentRestart
  <2> QED BY <2>1, <2>2 DEF AgentTyped, TypeOK
<1>27. CASE Drop
  <2>1. AgentTyped' /\ UNCHANGED <<jobVars, connVars, sending, up, ledger, hostVars, envVars>>
    BY <1>27, LeaveSessionType DEF Drop
  <2> QED BY <2>1 DEF AgentTyped, TypeOK
<1>28. CASE ReceiveWelcome
  BY <1>28, TailOfSeq DEF ReceiveWelcome, Receiving, TypeOK
<1>29. CASE ReceiveEarly
  <2>1. AgentTyped' /\ UNCHANGED <<jobVars, connVars, sending, up, ledger, hostVars, envVars>>
    BY <1>29, LeaveSessionType DEF ReceiveEarly
  <2> QED BY <2>1 DEF AgentTyped, TypeOK
<1>30. CASE ReceiveCommand
  <2>1. down' \in Seq(DownMessage) /\ Head(down) \in DownMessage
    BY <1>30, TailOfSeq DEF ReceiveCommand, Receiving, TypeOK
  <2>2. PICK j \in Head(down).jobs : \/ queue' = Append(queue, j) /\ UNCHANGED up
                                     \/ SendUp(<<Up("ack", j, "rejected")>>) /\ UNCHANGED queue
    BY <1>30 DEF ReceiveCommand
  <2>3. j \in Jobs
    BY <2>1 DEF DownMessage
  <2>4. Up("ack", j, "rejected") \in UpMessage
    BY <2>3, MessageTypes DEF UpType, UpStatus
  <2>5. up' \in [Session -> Seq(UpMessage)] /\ queue' \in Seq(Jobs)
    <3>1. <<Up("ack", j, "rejected")>> \in Seq(UpMessage)
      BY <2>4, OneOrTwo
    <3>2. CASE queue' = Append(queue, j) /\ UNCHANGED up
      BY <2>3, <3>2, AppendToSeq DEF TypeOK
    <3>3. CASE SendUp(<<Up("ack", j, "rejected")>>) /\ UNCHANGED queue
      BY <3>1, <3>3, SendUpType DEF TypeOK
    <3> QED BY <2>2, <3>2, <3>3
  <2> QED BY <1>30, <2>1, <2>5 DEF ReceiveCommand, TypeOK
<1>31. CASE ReceiveCancel
  <2>1. down' \in Seq(DownMessage) /\ Head(down) \in DownMessage
    BY <1>31, TailOfSeq DEF ReceiveCancel, Receiving, TypeOK
  <2>2. PICK j \in Head(down).jobs :
          \/ Record(j, "cancelled") /\ SendUp(<<Up("result", j, "cancelled")>>)
          \/ UNCHANGED <<ledger, up>>
    BY <1>31 DEF ReceiveCancel
  <2>3. j \in Jobs
    BY <2>1 DEF DownMessage
  <2>4. Up("result", j, "cancelled") \in UpMessage
    BY <2>3, MessageTypes DEF UpType, UpStatus
  <2>5. up' \in [Session -> Seq(UpMessage)] /\ ledger' \in [Jobs -> LedgerState]
    BY <2>2, <2>3, <2>4, SendUpType, OneOrTwo
    DEF Record, TypeOK, LedgerState, LedgerTerminal
  <2> QED BY <1>31, <2>1, <2>5 DEF ReceiveCancel, TypeOK
<1>32. CASE ReceiveReconcile
  <2>1. down # <<>> /\ Head(down) \in DownMessage /\ Head(down).type = "reconcile"
        /\ Tail(down) \in Seq(DownMessage)
    BY <1>32, TailOfSeq DEF ReceiveReconcile, Receiving, TypeOK
  <2>2. PICK j \in Head(down).jobs :
          /\ SendUp(<<Up("reconciled", j, ReconcileStatus(ledger[j]))>>)
          /\ \/ down' = Tail(down)
             \/ down' = <<Down("reconcile", Head(down).jobs \ {j})>> \o Tail(down)
    BY <1>32 DEF ReceiveReconcile
  <2>3. j \in Jobs /\ Head(down).jobs \ {j} \in SUBSET Jobs
    BY <2>1 DEF DownMessage
  <2>4. Up("reconciled", j, ReconcileStatus(ledger[j])) \in UpMessage
    BY <2>3, MessageTypes, ReconcileStatusType DEF UpType, TypeOK
  <2>5. Down("reconcile", Head(down).jobs \ {j}) \in DownMessage
    BY <2>3, MessageTypes DEF DownType
  <2>6. <<Down("reconcile", Head(down).jobs \ {j})>> \in Seq(DownMessage)
    BY <2>5, OneOrTwo
  <2>7. down' \in Seq(DownMessage)
    BY <2>1, <2>2, <2>6, ConcatOfSeq
  <2>8. up' \in [Session -> Seq(UpMessage)]
    BY <2>2, <2>4, SendUpType, OneOrTwo
  <2> QED BY <1>32, <2>7, <2>8 DEF ReceiveReconcile, TypeOK
<1>33. CASE RejectDone
  <2>1. ledger' \in [Jobs -> LedgerState]
    BY <1>33 DEF RejectDone, Resume, Record, TypeOK, LedgerState, LedgerTerminal
  <2>2. AgentTyped'
    <3>1. CASE LeaveSession
      BY <3>1, LeaveSessionType
    <3>2. CASE work' = Idle /\ UNCHANGED <<session, welcomed, down, queue>>
      BY <3>2 DEF AgentTyped, Idle, TypeOK
    <3> QED BY <1>33, <3>1, <3>2 DEF RejectDone
  <2>3. UNCHANGED <<jobVars, connVars, sending, up, hostVars, envVars>>
    BY <1>33 DEF RejectDone
  <2> QED BY <2>1, <2>2, <2>3 DEF AgentTyped, TypeOK
<1>34. CASE Start
  <2>1. work.job \in Jobs
    BY <1>34 DEF Start
  <2>2. ledger' \in [Jobs -> LedgerState]
    BY <1>34, <2>1 DEF Start, Resume, Record, TypeOK, LedgerState, LedgerTerminal
  <2>3. host' \in [Jobs -> {"idle", "running", "applied", "refused"}] /\ runs' \in [Jobs -> Nat]
    <3>1. \/ UNCHANGED hostVars
          \/ /\ host' = [host EXCEPT ![work.job] = "running"]
             /\ runs' = [runs EXCEPT ![work.job] = @ + 1]
      BY <1>34 DEF Start
    <3>2. runs[work.job] + 1 \in Nat
      BY <2>1 DEF TypeOK
    <3>3. CASE UNCHANGED hostVars
      BY <3>3 DEF TypeOK
    <3>4. CASE /\ host' = [host EXCEPT ![work.job] = "running"]
               /\ runs' = [runs EXCEPT ![work.job] = @ + 1]
      BY <3>2, <3>4 DEF TypeOK
    <3> QED BY <3>1, <3>3, <3>4
  <2>4. AgentTyped'
    <3>1. CASE LeaveSession
      BY <3>1, LeaveSessionType
    <3>2. CASE /\ work' = [at |-> "executing", job |-> work.job]
               /\ UNCHANGED <<session, welcomed, down, queue>>
      BY <2>1, <3>2 DEF AgentTyped, TypeOK
    <3> QED BY <1>34, <3>1, <3>2 DEF Start
  <2>5. UNCHANGED <<jobVars, connVars, sending, up, envVars>>
    BY <1>34 DEF Start
  <2> QED BY <2>2, <2>3, <2>4, <2>5 DEF AgentTyped, TypeOK
<1>35. CASE Finish
  <2>1. work.job \in Jobs
    BY <1>35 DEF Finish
  <2>2. PICK entry \in Endings(work.job) : Record(work.job, entry) /\ SendUp(<<Up("result", work.job, entry)>>)
    BY <1>35 DEF Finish
  <2>3. entry \in {"succeeded", "failed", "outcome_unknown"}
    BY <2>2, EndingsAre
  <2>4. Up("result", work.job, entry) \in UpMessage
    BY <2>1, <2>3, MessageTypes DEF UpType, UpStatus
  <2>5. up' \in [Session -> Seq(UpMessage)] /\ ledger' \in [Jobs -> LedgerState]
    BY <2>1, <2>2, <2>3, <2>4, SendUpType, OneOrTwo DEF Record, TypeOK, LedgerState, LedgerTerminal
  <2> QED BY <1>35, <2>5 DEF Finish, TypeOK, Idle
<1>36. CASE UNCHANGED vars
  BY <1>36 DEF vars, TypeOK
<1> QED
  BY <1>1, <1>2, <1>3, <1>4, <1>5, <1>6, <1>7, <1>8, <1>9, <1>10, <1>11, <1>12, <1>13,
     <1>14, <1>15, <1>16, <1>17, <1>18, <1>19, <1>20, <1>21, <1>22, <1>23, <1>24, <1>25,
     <1>26, <1>27, <1>28, <1>29, <1>30, <1>31, <1>32, <1>33, <1>34, <1>35, <1>36
  DEF Next

LEMMA TypeInvariant == Spec => []TInv
BY TypeInit, TypeStep, PTL DEF Spec

\* Every row, message, session and ledger entry is of its kind, and no move the
\* Gateway refuses ("invalid") is ever stored.
THEOREM TypeCorrect == Spec => []TypeOK
<1>1. TInv => TypeOK
  BY DEF TInv
<1> QED BY <1>1, TypeInvariant, PTL

-----------------------------------------------------------------------------
(* What has come to an end stays as it was reported. *)

KeepsTerminal == \A j \in Jobs : state[j] \in Terminal => state'[j] = state[j]

LEMMA DisconnectedKeeps ==
  ASSUME NEW rows, NEW j \in Jobs, rows[j] \in Terminal
  PROVE  Disconnected(rows)[j] = rows[j]
BY DEF Disconnected, Terminal, InFlight

LEMMA NoMoveFromTerminal ==
  ASSUME NEW current \in Terminal, NEW target, NEW w, NEW e
  PROVE  ~ValidTransition(current, target, w, e)
BY DEF ValidTransition, Moves, Terminal

LEMMA TargetsKeepTerminal ==
  ASSUME NEW j \in Jobs, state[j] \in Terminal, NEW status
  PROVE  /\ AckTarget(j, status) = state[j]
         /\ ResultTarget(j, status) \in {state[j], "invalid"}
         /\ ReconcileTarget(j, status) = "invalid"
<1>1. AckTarget(j, status) = state[j]
  BY DEF AckTarget
<1>2. ReconcileTarget(j, status) = "invalid"
  BY DEF ReconcileTarget, Terminal
<1>3. ResultTarget(j, status) \in {state[j], "invalid"}
  BY NoMoveFromTerminal DEF ResultTarget
<1> QED BY <1>1, <1>2, <1>3

LEMMA StoreKeeps ==
  ASSUME TypeOK, NEW s, NEW j \in Jobs, NEW target, NEW word, Store(s, j, target, word),
         state[j] \in Terminal => target \in {state[j], "invalid"}
  PROVE  KeepsTerminal
<1>1. CASE target = "invalid"
  <2>1. UNCHANGED state \/ state' = Disconnected(state)
    BY <1>1 DEF Store, EndHandler
  <2> QED BY <2>1, DisconnectedKeeps DEF KeepsTerminal
<1>2. CASE target # "invalid"
  <2>1. state' = [state EXCEPT ![j] = target]
    BY <1>2 DEF Store, Move
  <2> QED BY <1>2, <2>1 DEF KeepsTerminal, TypeOK
<1> QED BY <1>1, <1>2

LEMMA TerminalStep == TInv /\ [Next]_vars => KeepsTerminal
<1> SUFFICES ASSUME TInv, [Next]_vars PROVE KeepsTerminal
  OBVIOUS
<1>t. TypeOK
  BY DEF TInv
<1>1. CASE UNCHANGED state
  BY <1>1 DEF KeepsTerminal
<1>2. CASE state' = Disconnected(state)
  BY <1>2, DisconnectedKeeps DEF KeepsTerminal
<1>3. ASSUME NEW j \in Jobs, state[j] \notin Terminal, NEW target, state' = [state EXCEPT ![j] = target]
      PROVE  KeepsTerminal
  BY <1>t, <1>3 DEF KeepsTerminal, TypeOK
<1>4. ASSUME NEW j \in Jobs,
             Create(j) \/ DispatchRefused(j) \/ DispatchOffline(j) \/ DispatchClaimed(j)
      PROVE  KeepsTerminal
  <2>1. state[j] \notin Terminal /\ \E target : state' = [state EXCEPT ![j] = target]
    BY <1>4 DEF Create, DispatchRefused, DispatchOffline, DispatchClaimed, Move, Terminal
  <2> QED BY <1>3, <2>1
<1>5. ASSUME NEW j \in Jobs, Cancel(j) PROVE KeepsTerminal
  <2>1. state[j] \notin Terminal /\ state' = [state EXCEPT ![j] = CancelTarget(j)]
    BY <1>5 DEF Cancel, Move
  <2> QED BY <1>3, <2>1
<1>6. ASSUME NEW j \in Jobs, Sweep(j) PROVE KeepsTerminal
  <2>1. state[j] \notin Terminal /\ \E target : state' = [state EXCEPT ![j] = target]
    BY <1>6 DEF Sweep, Move
  <2> QED BY <1>3, <2>1
<1>7. ASSUME NEW s \in Session, Activate(s) PROVE KeepsTerminal
  <2>1. state' = [j \in Jobs |-> IF state[j] = "cancel_requested"
                                 THEN Recovery(j, state[j]) ELSE state[j]]
    BY <1>7 DEF Activate
  <2> QED BY <2>1 DEF KeepsTerminal, Terminal
<1>8. ASSUME NEW s \in Session, HandlerEnds(s) PROVE KeepsTerminal
  <2>1. UNCHANGED state \/ state' = Disconnected(state)
    BY <1>8 DEF HandlerEnds, EndHandler
  <2> QED BY <1>1, <1>2, <2>1
<1>9. ASSUME NEW s \in Session, HandleAck(s) PROVE KeepsTerminal
  <2>1. /\ Store(s, Head(up[s]).job, AckTarget(Head(up[s]).job, Head(up[s]).status), "agent")
        /\ Head(up[s]).job \in Jobs
    BY <1>t, <1>9, HeadOfUp DEF HandleAck
  <2> QED BY <1>t, <2>1, TargetsKeepTerminal, StoreKeeps
<1>10. ASSUME NEW s, NEW j \in Jobs, NEW status, Finalize(s, j, status) PROVE KeepsTerminal
  <2>1. Store(s, j, ResultTarget(j, status), "agent")
    BY <1>10 DEF Finalize
  <2> QED BY <1>t, <2>1, TargetsKeepTerminal, StoreKeeps
<1>11. ASSUME NEW s \in Session, HandleResult(s) PROVE KeepsTerminal
  <2>1. Finalize(s, Head(up[s]).job, Head(up[s]).status) /\ Head(up[s]).job \in Jobs
    BY <1>t, <1>11, HeadOfUp DEF HandleResult
  <2> QED BY <1>10, <2>1
<1>12. ASSUME NEW s \in Session, HandleReconcileResult(s) PROVE KeepsTerminal
  <2>1. Head(up[s]).job \in Jobs
    BY <1>t, <1>12, HeadOfUp DEF HandleReconcileResult
  <2>2. \/ UNCHANGED state
        \/ \E status : Finalize(s, Head(up[s]).job, status)
        \/ Store(s, Head(up[s]).job, ReconcileTarget(Head(up[s]).job, Head(up[s]).status), "gateway")
    BY <1>12 DEF HandleReconcileResult
  <2>3. CASE Store(s, Head(up[s]).job, ReconcileTarget(Head(up[s]).job, Head(up[s]).status), "gateway")
    BY <1>t, <2>1, <2>3, TargetsKeepTerminal, StoreKeeps
  <2> QED BY <1>1, <1>10, <2>1, <2>2, <2>3
<1>13. CASE SendFails \/ MarkStale \/ GatewayRestart
  BY <1>2, <1>13 DEF SendFails, MarkStale, GatewayRestart
<1>14. CASE \/ \E j \in Jobs : DeadlinePasses(j) \/ AnswerKnown(j) \/ Refuse(j) \/ Accept(j) \/ HostEnds(j)
            \/ \E s \in Session : Connect(s) \/ Opened(s) \/ ActivationFails(s)
            \/ SendReturns \/ GoStale \/ Heartbeat \/ UNCHANGED vars
  BY <1>1, <1>14 DEF DeadlinePasses, AnswerKnown, Refuse, Accept, HostEnds, Connect, Opened,
     ActivationFails, SendReturns, GoStale, Heartbeat, vars, jobVars
<1>15. CASE \/ AgentRestart \/ Drop \/ ReceiveWelcome \/ ReceiveEarly \/ ReceiveCommand
            \/ ReceiveCancel \/ ReceiveReconcile \/ RejectDone \/ Start \/ Finish
  BY <1>1, <1>15 DEF AgentRestart, Drop, ReceiveWelcome, ReceiveEarly, ReceiveCommand,
     ReceiveCancel, ReceiveReconcile, RejectDone, Start, Finish, jobVars
<1> QED
  BY <1>4, <1>5, <1>6, <1>7, <1>8, <1>9, <1>11, <1>12, <1>13, <1>14, <1>15 DEF Next

\* A job that succeeded, failed, was cancelled or was given up to a human is
\* never reported otherwise, whatever comes late (validate_transition).
THEOREM TerminalStates == Spec => TerminalIsFinal
<1>1. TInv /\ [Next]_vars => [\A j \in Jobs : state[j] \in Terminal => state'[j] = state[j]]_state
  BY TerminalStep DEF KeepsTerminal
<1> QED BY <1>1, TypeInvariant, PTL DEF Spec, TerminalIsFinal

-----------------------------------------------------------------------------
(* An unknown outcome only ever moves to an end. *)

KeepsUnknown ==
  \A j \in Jobs : state[j] = "outcome_unknown" => state'[j] \in {"outcome_unknown"} \cup Terminal

LEMMA MovesFromUnknown ==
  ASSUME NEW target, NEW w, NEW e, ValidTransition("outcome_unknown", target, w, e)
  PROVE  target \in Terminal
BY DEF ValidTransition, Moves, Terminal

LEMMA TargetsOfUnknown ==
  ASSUME NEW j \in Jobs, state[j] = "outcome_unknown", NEW status
  PROVE  /\ AckTarget(j, status) \in {"outcome_unknown", "failed", "invalid"}
         /\ ResultTarget(j, status) \in {"outcome_unknown", "invalid"} \cup Terminal
         /\ ReconcileTarget(j, status) \in {"outcome_unknown", "needs_attention"}
         /\ CancelTarget(j) = "outcome_unknown"
<1>1. AckTarget(j, status) \in {"outcome_unknown", "failed", "invalid"}
  BY DEF AckTarget, Terminal, Started
<1>2. ReconcileTarget(j, status) \in {"outcome_unknown", "needs_attention"}
  BY DEF ReconcileTarget
<1>3. CancelTarget(j) = "outcome_unknown"
  BY DEF CancelTarget
<1>4. ResultTarget(j, status) \in {"outcome_unknown", "invalid"} \cup Terminal
  BY MovesFromUnknown DEF ResultTarget, Terminal
<1> QED BY <1>1, <1>2, <1>3, <1>4

LEMMA StoreKeepsUnknown ==
  ASSUME TypeOK, NEW s, NEW j \in Jobs, NEW target, NEW word, Store(s, j, target, word),
         state[j] = "outcome_unknown" => target \in {"outcome_unknown", "invalid"} \cup Terminal
  PROVE  KeepsUnknown
<1>1. CASE target = "invalid"
  <2>1. UNCHANGED state \/ state' = Disconnected(state)
    BY <1>1 DEF Store, EndHandler
  <2> QED BY <2>1 DEF KeepsUnknown, Disconnected, InFlight
<1>2. CASE target # "invalid"
  <2>1. state' = [state EXCEPT ![j] = target]
    BY <1>2 DEF Store, Move
  <2> QED BY <1>2, <2>1 DEF KeepsUnknown, TypeOK
<1> QED BY <1>1, <1>2

LEMMA UnknownStep == TInv /\ [Next]_vars => KeepsUnknown
<1> SUFFICES ASSUME TInv, [Next]_vars PROVE KeepsUnknown
  OBVIOUS
<1>t. TypeOK
  BY DEF TInv
<1>1. CASE UNCHANGED state
  BY <1>1 DEF KeepsUnknown
<1>2. CASE state' = Disconnected(state)
  BY <1>2 DEF KeepsUnknown, Disconnected, InFlight
<1>3. ASSUME NEW j \in Jobs, NEW target, state' = [state EXCEPT ![j] = target],
             state[j] = "outcome_unknown" => target \in {"outcome_unknown"} \cup Terminal
      PROVE  KeepsUnknown
  BY <1>t, <1>3 DEF KeepsUnknown, TypeOK
<1>4. ASSUME NEW j \in Jobs,
             Create(j) \/ DispatchRefused(j) \/ DispatchOffline(j) \/ DispatchClaimed(j)
      PROVE  KeepsUnknown
  <2>1. state[j] # "outcome_unknown" /\ \E target : state' = [state EXCEPT ![j] = target]
    BY <1>4 DEF Create, DispatchRefused, DispatchOffline, DispatchClaimed, Move
  <2> QED BY <1>3, <2>1
<1>5. ASSUME NEW j \in Jobs, Cancel(j) PROVE KeepsUnknown
  <2>1. state' = [state EXCEPT ![j] = CancelTarget(j)]
    BY <1>5 DEF Cancel, Move
  <2> QED BY <1>3, <2>1, TargetsOfUnknown
<1>6. ASSUME NEW j \in Jobs, Sweep(j) PROVE KeepsUnknown
  <2>1. state' = [state EXCEPT ![j] = IF state[j] = "outcome_unknown" THEN "needs_attention" ELSE "failed"]
    BY <1>6 DEF Sweep, Move
  <2> QED BY <1>3, <2>1 DEF Terminal
<1>7. ASSUME NEW s \in Session, Activate(s) PROVE KeepsUnknown
  <2>1. state' = [j \in Jobs |-> IF state[j] = "cancel_requested"
                                 THEN Recovery(j, state[j]) ELSE state[j]]
    BY <1>7 DEF Activate
  <2> QED BY <2>1 DEF KeepsUnknown
<1>8. ASSUME NEW s \in Session, HandlerEnds(s) PROVE KeepsUnknown
  <2>1. UNCHANGED state \/ state' = Disconnected(state)
    BY <1>8 DEF HandlerEnds, EndHandler
  <2> QED BY <1>1, <1>2, <2>1
<1>9. ASSUME NEW s \in Session, HandleAck(s) PROVE KeepsUnknown
  <2>1. /\ Store(s, Head(up[s]).job, AckTarget(Head(up[s]).job, Head(up[s]).status), "agent")
        /\ Head(up[s]).job \in Jobs
    BY <1>t, <1>9, HeadOfUp DEF HandleAck
  <2> QED BY <1>t, <2>1, TargetsOfUnknown, StoreKeepsUnknown DEF Terminal
<1>10. ASSUME NEW s, NEW j \in Jobs, NEW status, Finalize(s, j, status) PROVE KeepsUnknown
  <2>1. Store(s, j, ResultTarget(j, status), "agent")
    BY <1>10 DEF Finalize
  <2> QED BY <1>t, <2>1, TargetsOfUnknown, StoreKeepsUnknown
<1>11. ASSUME NEW s \in Session, HandleResult(s) PROVE KeepsUnknown
  <2>1. Finalize(s, Head(up[s]).job, Head(up[s]).status) /\ Head(up[s]).job \in Jobs
    BY <1>t, <1>11, HeadOfUp DEF HandleResult
  <2> QED BY <1>10, <2>1
<1>12. ASSUME NEW s \in Session, HandleReconcileResult(s) PROVE KeepsUnknown
  <2>1. Head(up[s]).job \in Jobs
    BY <1>t, <1>12, HeadOfUp DEF HandleReconcileResult
  <2>2. \/ UNCHANGED state
        \/ \E status : Finalize(s, Head(up[s]).job, status)
        \/ Store(s, Head(up[s]).job, ReconcileTarget(Head(up[s]).job, Head(up[s]).status), "gateway")
    BY <1>12 DEF HandleReconcileResult
  <2>3. CASE Store(s, Head(up[s]).job, ReconcileTarget(Head(up[s]).job, Head(up[s]).status), "gateway")
    BY <1>t, <2>1, <2>3, TargetsOfUnknown, StoreKeepsUnknown DEF Terminal
  <2> QED BY <1>1, <1>10, <2>1, <2>2, <2>3
<1>13. CASE SendFails \/ MarkStale \/ GatewayRestart
  BY <1>2, <1>13 DEF SendFails, MarkStale, GatewayRestart
<1>14. CASE \/ \E j \in Jobs : DeadlinePasses(j) \/ AnswerKnown(j) \/ Refuse(j) \/ Accept(j) \/ HostEnds(j)
            \/ \E s \in Session : Connect(s) \/ Opened(s) \/ ActivationFails(s)
            \/ SendReturns \/ GoStale \/ Heartbeat \/ UNCHANGED vars
  BY <1>1, <1>14 DEF DeadlinePasses, AnswerKnown, Refuse, Accept, HostEnds, Connect, Opened,
     ActivationFails, SendReturns, GoStale, Heartbeat, vars, jobVars
<1>15. CASE \/ AgentRestart \/ Drop \/ ReceiveWelcome \/ ReceiveEarly \/ ReceiveCommand
            \/ ReceiveCancel \/ ReceiveReconcile \/ RejectDone \/ Start \/ Finish
  BY <1>1, <1>15 DEF AgentRestart, Drop, ReceiveWelcome, ReceiveEarly, ReceiveCommand,
     ReceiveCancel, ReceiveReconcile, RejectDone, Start, Finish, jobVars
<1> QED
  BY <1>4, <1>5, <1>6, <1>7, <1>8, <1>9, <1>11, <1>12, <1>13, <1>14, <1>15 DEF Next

\* A job whose outcome is unknown is never queued, sent or run again: no message
\* and no restart takes it anywhere but to an end (handle_reconcile_result).
THEOREM UnknownNotRetried == Spec => UnknownIsNeverRetried
<1>1. TInv /\ [Next]_vars =>
        [\A j \in Jobs : state[j] = "outcome_unknown" =>
           state'[j] \in {"outcome_unknown"} \cup Terminal]_state
  BY UnknownStep DEF KeepsUnknown
<1> QED BY <1>1, TypeInvariant, PTL DEF Spec, UnknownIsNeverRetried

-----------------------------------------------------------------------------
(* The ledger decides what the worker may do: a command that is about to     *)
(* start is not started yet, one in execution is.                            *)

WorkInv == /\ work.at = "acking"    => ledger[work.job] # "started"
           /\ work.at = "executing" => ledger[work.job] = "started"

\* The Agent hands a command over only as it records it as started.
RunsInv == \A j \in Jobs :
             runs[j] = 0 \/ (runs[j] = 1 /\ ledger[j] \in {"started"} \cup LedgerTerminal)

LInv == TInv /\ WorkInv /\ RunsInv

LEMMA RankValues ==
  /\ Rank("none") = 0 /\ Rank("received") = 1 /\ Rank("accepted") = 2 /\ Rank("started") = 3
  /\ \A entry \in LedgerTerminal : Rank(entry) = 4
BY DEF Rank, LedgerTerminal

\* How one entry may change.
Grows(entry, next) ==
  /\ Rank(entry) <= Rank(next)
  /\ entry \in LedgerTerminal => next = entry

LEMMA CanMoveGrows ==
  ASSUME NEW entry \in LedgerState, NEW target \in LedgerState, CanMove(entry, target)
  PROVE  Grows(entry, target) /\ entry \notin {"none"} \cup LedgerTerminal
BY RankValues DEF CanMove, Grows, LedgerState

LEMMA UpwardGrows ==
  /\ \A entry \in LedgerState : Grows(entry, entry)
  /\ \A next \in {"accepted", "failed", "cancelled"} :
       \A entry \in {"none", "received", "accepted"} : Grows(entry, next)
  /\ Grows("none", "received")
  /\ \A next \in LedgerTerminal : Grows("started", next)
BY RankValues DEF Grows, LedgerState, LedgerTerminal

\* The steps that leave the ledger alone leave the worker alone, or stop it.
LEMMA LedgerSteps ==
  ASSUME [Next]_vars
  PROVE  \/ \E j \in Jobs : Refuse(j) \/ Accept(j)
         \/ ReceiveCancel \/ RejectDone \/ Start \/ Finish \/ AgentRestart
         \/ UNCHANGED <<ledger, runs>> /\ (UNCHANGED work \/ work' = Idle)
<1>1. ASSUME NEW j \in Jobs,
             Create(j) \/ Cancel(j) \/ DeadlinePasses(j) \/ Sweep(j) \/ DispatchRefused(j)
             \/ DispatchOffline(j) \/ DispatchClaimed(j) \/ AnswerKnown(j) \/ HostEnds(j)
      PROVE  UNCHANGED <<ledger, runs, work>>
  BY <1>1 DEF Create, Cancel, DeadlinePasses, Sweep, DispatchRefused, DispatchOffline,
     DispatchClaimed, AnswerKnown, HostEnds, agentVars, hostVars
<1>2. ASSUME NEW s \in Session,
             Connect(s) \/ Activate(s) \/ Opened(s) \/ ActivationFails(s) \/ HandlerEnds(s)
             \/ HandleAck(s) \/ HandleResult(s) \/ HandleReconcileResult(s)
      PROVE  UNCHANGED <<ledger, runs, work>>
  BY <1>2 DEF Connect, Activate, Opened, ActivationFails, HandlerEnds, HandleAck, HandleResult,
     HandleReconcileResult, agentVars, hostVars
<1>3. CASE SendReturns \/ SendFails \/ GoStale \/ Heartbeat \/ MarkStale \/ GatewayRestart
           \/ ReceiveWelcome \/ ReceiveCommand \/ ReceiveReconcile \/ UNCHANGED vars
  <2>1. UNCHANGED <<ledger, runs, work>>
    BY <1>3 DEF SendReturns, SendFails, GoStale, Heartbeat, MarkStale, GatewayRestart,
       ReceiveWelcome, ReceiveCommand, ReceiveReconcile, vars, agentVars, hostVars
  <2> QED BY <2>1
<1>4. CASE Drop \/ ReceiveEarly
  BY <1>4 DEF Drop, ReceiveEarly, LeaveSession, hostVars
<1> QED BY <1>1, <1>2, <1>3, <1>4 DEF Next

LEMMA LedgerInit == Init => LInv
BY TypeInit DEF Init, LInv, WorkInv, RunsInv, Idle

LEMMA LedgerStep ==
  LInv /\ [Next]_vars => LInv' /\ \A j \in Jobs : Grows(ledger[j], ledger'[j])
<1> SUFFICES ASSUME LInv, [Next]_vars
             PROVE  LInv' /\ \A j \in Jobs : Grows(ledger[j], ledger'[j])
  OBVIOUS
<1> DEFINE Goal == WorkInv' /\ RunsInv' /\ \A j \in Jobs : Grows(ledger[j], ledger'[j])
<1>i. TInv' /\ TypeOK /\ WorkHasJob /\ WorkInv /\ RunsInv
  BY TypeStep DEF LInv, TInv
<1>g. SUFFICES Goal
  BY <1>i DEF LInv
<1>e. \A j \in Jobs : ledger[j] \in LedgerState
  BY <1>i DEF TypeOK
\* A step that moves one entry upwards and starts nothing.
<1>u. ASSUME NEW j \in Jobs, NEW entry, ledger' = [ledger EXCEPT ![j] = entry],
             UNCHANGED runs, Grows(ledger[j], entry),
             ledger[j] = "started" => entry \in {"started"} \cup LedgerTerminal
      PROVE  RunsInv' /\ \A k \in Jobs : Grows(ledger[k], ledger'[k])
  <2>1. \A k \in Jobs : ledger'[k] = IF k = j THEN entry ELSE ledger[k]
    BY <1>u, <1>i DEF TypeOK
  <2>2. \A k \in Jobs : Grows(ledger[k], ledger'[k])
    BY <2>1, <1>u, <1>e, UpwardGrows
  <2>3. ledger[j] \in LedgerTerminal => entry = ledger[j]
    BY <1>u DEF Grows
  <2> QED BY <2>1, <2>2, <2>3, <1>u, <1>i DEF RunsInv
<1>1. ASSUME NEW j \in Jobs, Refuse(j) PROVE Goal
  <2>1. /\ ledger[j] \in {"none", "received", "accepted"}
        /\ UNCHANGED runs
        /\ work.at = "idle" /\ (work' = [at |-> "rejecting", job |-> j] \/ UNCHANGED work)
    BY <1>1 DEF Refuse, Take, hostVars
  <2>2. PICK entry : /\ ledger' = [ledger EXCEPT ![j] = entry]
                     /\ entry \in {ledger[j], "failed"} \/ (ledger[j] = "none" /\ entry = "received")
    BY <1>1 DEF Refuse, Record
  <2>3. Grows(ledger[j], entry)
    BY <2>1, <2>2, <1>e, UpwardGrows
  <2>4. RunsInv' /\ \A k \in Jobs : Grows(ledger[k], ledger'[k])
    BY <2>1, <2>2, <2>3, <1>u
  <2> QED BY <2>1, <2>4 DEF WorkInv
<1>2. ASSUME NEW j \in Jobs, Accept(j) PROVE Goal
  <2>1. /\ ledger[j] \in {"none", "received", "accepted"} /\ UNCHANGED runs
        /\ ledger' = [ledger EXCEPT ![j] = "accepted"]
        /\ work' = [at |-> "acking", job |-> j]
    BY <1>2 DEF Accept, Record, hostVars
  <2>2. RunsInv' /\ \A k \in Jobs : Grows(ledger[k], ledger'[k])
    BY <2>1, <1>u, UpwardGrows
  <2>3. ledger'[j] = "accepted"
    BY <2>1, <1>i DEF TypeOK
  <2> QED BY <2>1, <2>2, <2>3 DEF WorkInv
<1>3. CASE ReceiveCancel
  <2>1. PICK j \in Head(down).jobs :
          \/ /\ ledger[j] \in {"received", "accepted"}
             /\ ledger' = [ledger EXCEPT ![j] = "cancelled"]
          \/ UNCHANGED ledger
    BY <1>3 DEF ReceiveCancel, Record
  <2>2. j \in Jobs /\ UNCHANGED <<runs, work>>
    <3>1. Head(down) \in DownMessage
      BY <1>3, <1>i, TailOfSeq DEF ReceiveCancel, Receiving, TypeOK
    <3> QED BY <1>3, <3>1 DEF ReceiveCancel, DownMessage, hostVars
  <2>3. CASE UNCHANGED ledger
    BY <2>2, <2>3, <1>i, <1>e, UpwardGrows DEF WorkInv, RunsInv
  <2>4. CASE ledger[j] \in {"received", "accepted"} /\ ledger' = [ledger EXCEPT ![j] = "cancelled"]
    <3>1. RunsInv' /\ \A k \in Jobs : Grows(ledger[k], ledger'[k])
      BY <2>2, <2>4, <1>u, UpwardGrows
    <3>2. \A k \in Jobs : ledger'[k] = IF k = j THEN "cancelled" ELSE ledger[k]
      BY <2>4, <1>i DEF TypeOK
    <3> QED BY <2>2, <2>4, <3>1, <3>2, <1>i DEF WorkInv, WorkHasJob
  <2> QED BY <2>1, <2>3, <2>4
<1>4. CASE RejectDone
  <2>1. /\ work.job \in Jobs /\ UNCHANGED runs
        /\ work' = Idle
        /\ \/ CanMove(ledger[work.job], "failed") /\ ledger' = [ledger EXCEPT ![work.job] = "failed"]
           \/ UNCHANGED ledger
    BY <1>4, <1>i DEF RejectDone, Resume, Record, LeaveSession, WorkHasJob, hostVars
  <2>2. CASE UNCHANGED ledger
    BY <2>1, <2>2, <1>i, <1>e, UpwardGrows DEF WorkInv, RunsInv, Idle
  <2>3. CASE CanMove(ledger[work.job], "failed") /\ ledger' = [ledger EXCEPT ![work.job] = "failed"]
    <3>1. Grows(ledger[work.job], "failed") /\ "failed" \in LedgerTerminal
      BY <2>1, <2>3, <1>e, CanMoveGrows DEF LedgerState, LedgerTerminal
    <3>2. RunsInv' /\ \A k \in Jobs : Grows(ledger[k], ledger'[k])
      BY <2>1, <2>3, <3>1, <1>u
    <3> QED BY <2>1, <3>2 DEF WorkInv, Idle
  <2> QED BY <2>1, <2>2, <2>3
<1>5. CASE Start
  <2> DEFINE j == work.job
  <2>1. j \in Jobs /\ work.at = "acking" /\ ledger[j] # "started"
    BY <1>5, <1>i DEF Start, WorkHasJob, WorkInv
  <2>2. CASE ~CanMove(ledger[j], "started")
    <3>1. UNCHANGED <<ledger, runs>> /\ work' = Idle
      BY <1>5, <2>2 DEF Start, Resume, LeaveSession, hostVars
    <3> QED BY <3>1, <1>i, <1>e, UpwardGrows DEF WorkInv, RunsInv, Idle
  <2>3. CASE CanMove(ledger[j], "started")
    <3>1. /\ ledger' = [ledger EXCEPT ![j] = "started"]
          /\ work' = [at |-> "executing", job |-> j]
          /\ UNCHANGED runs \/ runs' = [runs EXCEPT ![j] = @ + 1]
      BY <1>5, <2>3 DEF Start, Resume, Record, hostVars
    <3>2. Grows(ledger[j], "started") /\ ledger[j] \notin LedgerTerminal
      BY <2>1, <2>3, <1>e, CanMoveGrows DEF LedgerState
    <3>3. \A k \in Jobs : ledger'[k] = IF k = j THEN "started" ELSE ledger[k]
      BY <3>1, <1>i DEF TypeOK
    <3>4. runs[j] = 0
      BY <2>1, <3>2, <1>i DEF RunsInv
    <3>5. \A k \in Jobs : runs'[k] = runs[k] \/ (k = j /\ runs'[k] = 1)
      BY <2>1, <3>1, <3>4, <1>i DEF TypeOK
    <3>6. RunsInv'
      BY <3>2, <3>3, <3>4, <3>5, <1>i DEF RunsInv
    <3>7. \A k \in Jobs : Grows(ledger[k], ledger'[k])
      BY <3>2, <3>3, <1>e, UpwardGrows
    <3>8. WorkInv'
      BY <2>1, <3>1, <3>3 DEF WorkInv
    <3> QED BY <3>6, <3>7, <3>8
  <2> QED BY <2>2, <2>3
<1>6. CASE Finish
  <2> DEFINE j == work.job
  <2>1. j \in Jobs /\ ledger[j] = "started" /\ UNCHANGED runs /\ work' = Idle
    BY <1>6, <1>i DEF Finish, WorkHasJob, WorkInv, hostVars
  <2>2. PICK entry \in Endings(j) : ledger' = [ledger EXCEPT ![j] = entry]
    BY <1>6 DEF Finish, Record
  <2>3. entry \in LedgerTerminal
    BY <2>2, EndingsAre DEF LedgerTerminal
  <2>4. RunsInv' /\ \A k \in Jobs : Grows(ledger[k], ledger'[k])
    BY <2>1, <2>2, <2>3, <1>u, UpwardGrows
  <2> QED BY <2>1, <2>4 DEF WorkInv, Idle
<1>7. CASE AgentRestart
  <2>1. /\ work' = Idle /\ UNCHANGED runs
        /\ ledger' = [j \in Jobs |-> Recovered(j)]
    BY <1>7 DEF AgentRestart, LeaveSession, hostVars
  <2>2. ASSUME NEW j \in Jobs
        PROVE  IF ledger[j] = "started" THEN Recovered(j) \in {"started"} \cup LedgerTerminal
                                        ELSE Recovered(j) = ledger[j]
    BY DEF Recovered, LedgerTerminal
  <2>3. "started" \in LedgerState
    BY DEF LedgerState
  <2>4. \A j \in Jobs : Grows(ledger[j], ledger'[j])
    BY <2>1, <2>2, <2>3, <1>e, UpwardGrows
  <2>5. RunsInv'
    BY <2>1, <2>2, <1>i DEF RunsInv
  <2> QED BY <2>1, <2>4, <2>5 DEF WorkInv, Idle
<1>8. CASE UNCHANGED <<ledger, runs>> /\ (UNCHANGED work \/ work' = Idle)
  <2>1. \A j \in Jobs : Grows(ledger[j], ledger'[j])
    BY <1>8, <1>e, UpwardGrows
  <2>2. WorkInv' /\ RunsInv'
    BY <1>8, <1>i DEF WorkInv, RunsInv, Idle
  <2> QED BY <2>1, <2>2
<1> QED
  <2> HIDE DEF Goal
  <2> QED BY <1>1, <1>2, <1>3, <1>4, <1>5, <1>6, <1>7, <1>8, LedgerSteps

LEMMA LedgerInvariant == Spec => []LInv
BY LedgerInit, LedgerStep, PTL DEF Spec

\* Through every redelivery, reconnect and restart, of the Gateway or of the
\* Agent, the Host is asked to carry a job out at most once.
THEOREM ExecutedOnce == Spec => []AtMostOneExecution
<1>1. LInv => AtMostOneExecution
  BY DEF LInv, RunsInv, AtMostOneExecution
<1> QED BY <1>1, LedgerInvariant, PTL

\* The Agent's durable memory of a command is never taken back.
THEOREM LedgerMonotone == Spec => LedgerOnlyGrows
<1>1. LInv /\ [Next]_vars =>
        [\A j \in Jobs : /\ Rank(ledger[j]) <= Rank(ledger'[j])
                         /\ ledger[j] \in LedgerTerminal => ledger'[j] = ledger[j]]_ledger
  BY LedgerStep DEF Grows
<1> QED BY <1>1, LedgerInvariant, PTL DEF Spec, LedgerOnlyGrows

-----------------------------------------------------------------------------
(* A success is only ever reported once the Host has applied the job: the    *)
(* word "succeeded" starts at the Host, and every ledger entry, message and  *)
(* row that carries it can be traced back to there.                          *)

\* What the Host was never asked to do it has not begun.
HostInv == \A j \in Jobs : runs[j] = 0 => host[j] = "idle"

LedgerTruth == \A j \in Jobs : ledger[j] = "succeeded" => host[j] = "applied"

\* The messages of q that report a success, seen against the Host state h.
TrueOf(q, h) == \A i \in 1..Len(q) : q[i].status = "succeeded" => h[q[i].job] = "applied"

WireTruth == \A s \in Session : TrueOf(up[s], host)

SInv == LInv /\ HostInv /\ LedgerTruth /\ WireTruth /\ SucceededMeansDone

LEMMA SuccessInit == Init => SInv
<1> SUFFICES ASSUME Init PROVE SInv
  OBVIOUS
<1>1. HostInv /\ LedgerTruth /\ SucceededMeansDone
  BY DEF Init, HostInv, LedgerTruth, SucceededMeansDone
<1>2. WireTruth
  BY DEF Init, WireTruth, TrueOf
<1> QED BY <1>1, <1>2, LedgerInit DEF SInv

\* Only the worker's start and the Host itself touch the Host.
LEMMA HostSteps ==
  ASSUME [Next]_vars
  PROVE  (\E j \in Jobs : HostEnds(j)) \/ Start \/ UNCHANGED hostVars
<1>1. ASSUME NEW j \in Jobs,
             Create(j) \/ Cancel(j) \/ DeadlinePasses(j) \/ Sweep(j) \/ DispatchRefused(j)
             \/ DispatchOffline(j) \/ DispatchClaimed(j) \/ AnswerKnown(j) \/ Refuse(j) \/ Accept(j)
      PROVE  UNCHANGED hostVars
  BY <1>1 DEF Create, Cancel, DeadlinePasses, Sweep, DispatchRefused, DispatchOffline,
     DispatchClaimed, AnswerKnown, Refuse, Accept
<1>2. ASSUME NEW s \in Session,
             Connect(s) \/ Activate(s) \/ Opened(s) \/ ActivationFails(s) \/ HandlerEnds(s)
             \/ HandleAck(s) \/ HandleResult(s) \/ HandleReconcileResult(s)
      PROVE  UNCHANGED hostVars
  BY <1>2 DEF Connect, Activate, Opened, ActivationFails, HandlerEnds, HandleAck, HandleResult,
     HandleReconcileResult
<1>3. CASE SendReturns \/ SendFails \/ GoStale \/ Heartbeat \/ MarkStale \/ GatewayRestart
           \/ AgentRestart \/ Drop \/ ReceiveWelcome \/ ReceiveEarly \/ ReceiveCommand
           \/ ReceiveCancel \/ ReceiveReconcile \/ RejectDone \/ Finish \/ UNCHANGED vars
  <2>1. UNCHANGED hostVars
    BY <1>3 DEF SendReturns, SendFails, GoStale, Heartbeat, MarkStale, GatewayRestart,
       AgentRestart, Drop, ReceiveWelcome, ReceiveEarly, ReceiveCommand, ReceiveCancel,
       ReceiveReconcile, RejectDone, Finish, vars
  <2> QED BY <2>1
<1> QED BY <1>1, <1>2, <1>3 DEF Next

\* What has been applied stays applied: no job is handed over a second time.
LEMMA HostStep ==
  ASSUME LInv, HostInv, [Next]_vars
  PROVE  HostInv' /\ \A j \in Jobs : host[j] = "applied" => host'[j] = "applied"
<1>i. TypeOK /\ WorkHasJob /\ WorkInv /\ RunsInv
  BY DEF LInv, TInv
<1>1. CASE UNCHANGED hostVars
  BY <1>1 DEF HostInv, hostVars
<1>2. ASSUME NEW j \in Jobs, HostEnds(j)
      PROVE  HostInv' /\ \A k \in Jobs : host[k] = "applied" => host'[k] = "applied"
  <2>1. PICK outcome : host' = [host EXCEPT ![j] = outcome]
    BY <1>2 DEF HostEnds
  <2>2. host[j] = "running" /\ UNCHANGED runs
    BY <1>2 DEF HostEnds
  <2>3. \A k \in Jobs : k # j => host'[k] = host[k]
    BY <2>1, <1>i DEF TypeOK
  <2> QED BY <2>2, <2>3 DEF HostInv
<1>3. CASE Start
  <2> DEFINE j == work.job
  <2>1. j \in Jobs /\ ledger[j] # "started"
    BY <1>3, <1>i DEF Start, WorkHasJob, WorkInv
  <2>2. CASE UNCHANGED hostVars
    BY <2>2, <1>1
  <2>3. CASE ~UNCHANGED hostVars
    <3>1. /\ CanMove(ledger[j], "started")
          /\ host' = [host EXCEPT ![j] = "running"] /\ runs' = [runs EXCEPT ![j] = @ + 1]
      BY <1>3, <2>3 DEF Start
    <3>2. runs[j] = 0
      BY <2>1, <3>1, <1>i DEF CanMove, RunsInv
    <3>3. \A k \in Jobs : k # j => host'[k] = host[k] /\ runs'[k] = runs[k]
      BY <3>1, <1>i DEF TypeOK
    <3>4. runs'[j] = 1 /\ host[j] = "idle"
      BY <2>1, <3>1, <3>2, <1>i DEF TypeOK, HostInv
    <3> QED BY <3>3, <3>4 DEF HostInv
  <2> QED BY <2>2, <2>3
<1> QED BY <1>1, <1>2, <1>3, HostSteps

-----------------------------------------------------------------------------
(* The ledger. *)

LEMMA EndingsTell ==
  ASSUME NEW j, "succeeded" \in Endings(j)
  PROVE  host[j] = "applied"
BY DEF Endings

LEMMA LedgerTruthStep ==
  ASSUME LInv, HostInv, LedgerTruth, [Next]_vars
  PROVE  LedgerTruth'
<1>i. TypeOK /\ WorkHasJob
  BY DEF LInv, TInv
<1>h. \A j \in Jobs : host[j] = "applied" => host'[j] = "applied"
  BY HostStep
<1>u. ASSUME NEW j \in Jobs, NEW entry, ledger' = [ledger EXCEPT ![j] = entry],
             entry = "succeeded" => ledger[j] = "succeeded" \/ host[j] = "applied"
      PROVE  LedgerTruth'
  BY <1>u, <1>i, <1>h DEF TypeOK, LedgerTruth
<1>1. CASE UNCHANGED ledger
  BY <1>1, <1>h DEF LedgerTruth
<1>2. ASSUME NEW j \in Jobs, Refuse(j) \/ Accept(j) PROVE LedgerTruth'
  <2>1. PICK entry : ledger' = [ledger EXCEPT ![j] = entry]
                     /\ entry \in {"received", "accepted", "failed", ledger[j]}
    BY <1>2 DEF Refuse, Accept, Record
  <2> QED BY <2>1, <1>u
<1>3. CASE ReceiveCancel
  <2>1. PICK j \in Head(down).jobs : ledger' = [ledger EXCEPT ![j] = "cancelled"] \/ UNCHANGED ledger
    BY <1>3 DEF ReceiveCancel, Record
  <2>2. Head(down) \in DownMessage
    BY <1>3, <1>i, TailOfSeq DEF ReceiveCancel, Receiving, TypeOK
  <2>3. j \in Jobs
    BY <2>1, <2>2 DEF DownMessage
  <2> QED BY <2>1, <2>3, <1>1, <1>u
<1>4. CASE RejectDone \/ Start
  <2>1. work.job \in Jobs
    BY <1>4, <1>i DEF RejectDone, Start, WorkHasJob
  <2>2. UNCHANGED ledger \/ \E entry \in {"failed", "started"} : ledger' = [ledger EXCEPT ![work.job] = entry]
    BY <1>4 DEF RejectDone, Start, Resume, Record
  <2> QED BY <2>1, <2>2, <1>1, <1>u
<1>5. CASE Finish
  <2>1. work.job \in Jobs
    BY <1>5, <1>i DEF Finish, WorkHasJob
  <2>2. \E entry \in Endings(work.job) : ledger' = [ledger EXCEPT ![work.job] = entry]
    BY <1>5 DEF Finish, Record
  <2> QED BY <2>1, <2>2, <1>u, EndingsTell
<1>6. CASE AgentRestart
  <2>1. ledger' = [j \in Jobs |-> Recovered(j)]
    BY <1>6 DEF AgentRestart
  <2>2. ASSUME NEW j \in Jobs, Recovered(j) = "succeeded" PROVE ledger[j] = "succeeded"
    BY <2>2 DEF Recovered
  <2> QED BY <2>1, <2>2, <1>h DEF LedgerTruth
<1> QED BY <1>1, <1>2, <1>3, <1>4, <1>5, <1>6, LedgerSteps

-----------------------------------------------------------------------------
(* The wire. *)

\* What holds of the message m, whose word is the Host's (h is its state).
Truthful(m, h) == m.status = "succeeded" => h[m.job] = "applied"

LEMMA TruthOfOne ==
  ASSUME NEW a \in UpMessage, NEW h, Truthful(a, h)
  PROVE  <<a>> \in Seq(UpMessage) /\ TrueOf(<<a>>, h)
BY DEF TrueOf, Truthful

LEMMA TruthOfTwo ==
  ASSUME NEW a \in UpMessage, NEW b \in UpMessage, NEW h, Truthful(a, h), Truthful(b, h)
  PROVE  <<a, b>> \in Seq(UpMessage) /\ TrueOf(<<a, b>>, h)
BY DEF TrueOf, Truthful

LEMMA TruthOfConcat ==
  ASSUME NEW q \in Seq(UpMessage), NEW r \in Seq(UpMessage), NEW h, TrueOf(q, h), TrueOf(r, h)
  PROVE  TrueOf(q \o r, h)
<1> SUFFICES ASSUME NEW i \in 1..Len(q \o r) PROVE Truthful((q \o r)[i], h)
  BY DEF TrueOf, Truthful
<1>1. /\ Len(q \o r) = Len(q) + Len(r) /\ Len(q) \in Nat /\ Len(r) \in Nat
      /\ (q \o r)[i] = IF i <= Len(q) THEN q[i] ELSE r[i - Len(q)]
  BY ConcatProperties, LenProperties
<1>2. CASE i <= Len(q)
  BY <1>1, <1>2 DEF TrueOf, Truthful
<1>3. CASE ~(i <= Len(q))
  <2>1. i - Len(q) \in 1..Len(r)
    BY <1>1, <1>3
  <2> QED BY <1>1, <1>3, <2>1 DEF TrueOf, Truthful
<1> QED BY <1>2, <1>3

LEMMA TruthOfTail ==
  ASSUME NEW q \in Seq(UpMessage), NEW h, q # <<>>, TrueOf(q, h)
  PROVE  TrueOf(Tail(q), h) /\ Truthful(Head(q), h)
<1>1. \A i \in 1..Len(Tail(q)) : Tail(q)[i] = q[i + 1] /\ i + 1 \in 1..Len(q)
  BY TailOfSeq
<1>2. Head(q) = q[1] /\ 1 \in 1..Len(q)
  BY HeadTailProperties, LenProperties, EmptySeq
<1> QED BY <1>1, <1>2 DEF TrueOf, Truthful

\* A message that does not report a success is true of any Host.
LEMMA OtherWords ==
  ASSUME NEW type, NEW j, NEW status, NEW h, status # "succeeded" \/ h[j] = "applied"
  PROVE  Truthful(Up(type, j, status), h)
BY DEF Truthful, Up

\* What a step may do to the messages on one session.
Written(s) ==
  \/ up'[s] = up[s]
  \/ up'[s] = <<>>
  \/ up[s] # <<>> /\ up'[s] = Tail(up[s])
  \/ \E q \in Seq(UpMessage) : TrueOf(q, host) /\ up'[s] = up[s] \o q

LEMMA SendUpWrites ==
  ASSUME TypeOK, NEW q \in Seq(UpMessage), TrueOf(q, host), SendUp(q), NEW s \in Session
  PROVE  Written(s)
<1>1. up'[s] = up[s] \/ up'[s] = up[s] \o q
  BY DEF SendUp, TypeOK
<1> QED BY <1>1 DEF Written

LEMMA StoreWrites ==
  ASSUME TypeOK, NEW t \in Session, up[t] # <<>>, NEW j, NEW target, NEW word,
         Store(t, j, target, word), NEW s \in Session
  PROVE  Written(s)
<1>1. up' = [up EXCEPT ![t] = <<>>] \/ up' = [up EXCEPT ![t] = Tail(@)]
  BY DEF Store, EndHandler
<1> QED BY <1>1 DEF Written, TypeOK

LEMMA WireStep ==
  ASSUME TypeOK, WorkHasJob, LedgerTruth, [Next]_vars, NEW s \in Session
  PROVE  Written(s)
<1>1. CASE UNCHANGED up
  BY <1>1 DEF Written
<1>2. ASSUME NEW j \in Jobs, AnswerKnown(j) PROVE Written(s)
  <2>1. CASE ledger[j] = "started"
    <3>1. Up("ack", j, "duplicate") \in UpMessage /\ Truthful(Up("ack", j, "duplicate"), host)
      BY MessageTypes, OtherWords DEF UpType, UpStatus
    <3>2. SendUp(<<Up("ack", j, "duplicate")>>)
      BY <1>2, <2>1 DEF AnswerKnown
    <3> QED BY <3>1, <3>2, TruthOfOne, SendUpWrites
  <2>2. CASE ledger[j] # "started"
    <3>1. ledger[j] \in LedgerTerminal
          /\ SendUp(<<Up("ack", j, "already_terminal"), Up("result", j, ledger[j])>>)
      BY <1>2, <2>2 DEF AnswerKnown
    <3>2. Up("ack", j, "already_terminal") \in UpMessage /\ Up("result", j, ledger[j]) \in UpMessage
      BY <3>1, MessageTypes DEF UpType, UpStatus, LedgerTerminal
    <3>3. Truthful(Up("ack", j, "already_terminal"), host) /\ Truthful(Up("result", j, ledger[j]), host)
      BY OtherWords DEF LedgerTruth
    <3> QED BY <3>1, <3>2, <3>3, TruthOfTwo, SendUpWrites
  <2> QED BY <2>1, <2>2
<1>3. ASSUME NEW j \in Jobs, Refuse(j) PROVE Written(s)
  <2>1. /\ Up("ack", j, "rejected") \in UpMessage /\ Up("result", j, "failed") \in UpMessage
        /\ Truthful(Up("ack", j, "rejected"), host) /\ Truthful(Up("result", j, "failed"), host)
    BY MessageTypes, OtherWords DEF UpType, UpStatus
  <2>2. SendUp(<<Up("ack", j, "rejected")>>)
        \/ SendUp(<<Up("ack", j, "rejected"), Up("result", j, "failed")>>)
    BY <1>3 DEF Refuse
  <2> QED BY <2>1, <2>2, TruthOfOne, TruthOfTwo, SendUpWrites
<1>4. ASSUME NEW j \in Jobs, Accept(j) PROVE Written(s)
  <2>1. Up("ack", j, "accepted") \in UpMessage /\ Truthful(Up("ack", j, "accepted"), host)
    BY MessageTypes, OtherWords DEF UpType, UpStatus
  <2>2. SendUp(<<Up("ack", j, "accepted")>>)
    BY <1>4 DEF Accept
  <2> QED BY <2>1, <2>2, TruthOfOne, SendUpWrites
<1>5. CASE ReceiveCommand \/ ReceiveCancel \/ ReceiveReconcile
  <2>1. Head(down) \in DownMessage
    BY <1>5, TailOfSeq DEF ReceiveCommand, ReceiveCancel, ReceiveReconcile, Receiving, TypeOK
  <2>2. PICK j \in Head(down).jobs :
          \/ UNCHANGED up
          \/ SendUp(<<Up("ack", j, "rejected")>>)
          \/ SendUp(<<Up("result", j, "cancelled")>>)
          \/ SendUp(<<Up("reconciled", j, ReconcileStatus(ledger[j]))>>)
    <3>1. CASE ReceiveCommand
      BY <3>1 DEF ReceiveCommand
    <3>2. CASE ReceiveCancel
      BY <3>2 DEF ReceiveCancel
    <3>3. CASE ReceiveReconcile
      BY <3>3 DEF ReceiveReconcile
    <3> QED BY <1>5, <3>1, <3>2, <3>3
  <2>3. j \in Jobs
    BY <2>1 DEF DownMessage
  <2>4. /\ Up("ack", j, "rejected") \in UpMessage /\ Up("result", j, "cancelled") \in UpMessage
        /\ Up("reconciled", j, ReconcileStatus(ledger[j])) \in UpMessage
    BY <2>3, MessageTypes, ReconcileStatusType DEF UpType, UpStatus, TypeOK
  <2>5. ReconcileStatus(ledger[j]) # "succeeded" \/ ledger[j] = "succeeded"
    BY DEF ReconcileStatus
  <2>6. /\ Truthful(Up("ack", j, "rejected"), host) /\ Truthful(Up("result", j, "cancelled"), host)
        /\ Truthful(Up("reconciled", j, ReconcileStatus(ledger[j])), host)
    BY <2>3, <2>5, OtherWords DEF LedgerTruth
  <2> QED BY <1>1, <2>2, <2>4, <2>6, TruthOfOne, SendUpWrites
<1>6. CASE Finish
  <2>1. work.job \in Jobs
    BY <1>6 DEF Finish, WorkHasJob
  <2>2. PICK entry \in Endings(work.job) : SendUp(<<Up("result", work.job, entry)>>)
    BY <1>6 DEF Finish
  <2>3. Up("result", work.job, entry) \in UpMessage
    BY <2>1, EndingsAre, MessageTypes DEF UpType, UpStatus
  <2>4. Truthful(Up("result", work.job, entry), host)
    BY EndingsTell, OtherWords
  <2> QED BY <2>2, <2>3, <2>4, TruthOfOne, SendUpWrites
<1>7. ASSUME NEW t \in Session, HandlerEnds(t) \/ ActivationFails(t) PROVE Written(s)
  <2>1. up' = [up EXCEPT ![t] = <<>>]
    BY <1>7 DEF HandlerEnds, EndHandler, ActivationFails
  <2> QED BY <2>1 DEF Written, TypeOK
<1>8. ASSUME NEW t \in Session, HandleAck(t) \/ HandleResult(t) \/ HandleReconcileResult(t)
      PROVE  Written(s)
  <2>1. up[t] # <<>>
    BY <1>8 DEF HandleAck, HandleResult, HandleReconcileResult, Reading
  <2>2. \/ up' = [up EXCEPT ![t] = Tail(@)]
        \/ \E j, target, word : Store(t, j, target, word)
    <3>1. CASE HandleAck(t)
      BY <3>1 DEF HandleAck
    <3>2. CASE HandleResult(t)
      BY <3>2 DEF HandleResult, Finalize
    <3>3. CASE HandleReconcileResult(t)
      BY <3>3 DEF HandleReconcileResult, Finalize
    <3> QED BY <1>8, <3>1, <3>2, <3>3
  <2>3. CASE up' = [up EXCEPT ![t] = Tail(@)]
    BY <2>1, <2>3 DEF Written, TypeOK
  <2> QED BY <2>1, <2>2, <2>3, StoreWrites
<1>9. CASE GatewayRestart
  <2>1. up' = [t \in Session |-> <<>>]
    BY <1>9 DEF GatewayRestart
  <2> QED BY <2>1 DEF Written
<1>10. CASE \/ \E j \in Jobs : \/ Create(j) \/ Cancel(j) \/ DeadlinePasses(j) \/ Sweep(j)
                               \/ DispatchRefused(j) \/ DispatchOffline(j) \/ DispatchClaimed(j)
                               \/ HostEnds(j)
            \/ \E t \in Session : Connect(t) \/ Activate(t) \/ Opened(t)
  BY <1>1, <1>10 DEF Create, Cancel, DeadlinePasses, Sweep, DispatchRefused, DispatchOffline,
     DispatchClaimed, HostEnds, Connect, Activate, Opened, wireVars
<1>11. CASE \/ SendReturns \/ SendFails \/ GoStale \/ Heartbeat \/ MarkStale \/ AgentRestart
            \/ Drop \/ ReceiveWelcome \/ ReceiveEarly \/ RejectDone \/ Start \/ UNCHANGED vars
  <2>1. UNCHANGED up
    BY <1>11 DEF SendReturns, SendFails, GoStale, Heartbeat, MarkStale, AgentRestart, Drop,
       ReceiveWelcome, ReceiveEarly, RejectDone, Start, vars, wireVars
  <2> QED BY <2>1, <1>1
<1> QED
  BY <1>2, <1>3, <1>4, <1>5, <1>6, <1>7, <1>8, <1>9, <1>10, <1>11 DEF Next

LEMMA WireTruthStep ==
  ASSUME LInv, HostInv, LedgerTruth, WireTruth, [Next]_vars
  PROVE  WireTruth'
<1>i. TypeOK /\ WorkHasJob /\ TypeOK'
  BY LedgerStep DEF LInv, TInv
<1> SUFFICES ASSUME NEW s \in Session PROVE TrueOf(up'[s], host')
  BY DEF WireTruth
<1>1. TrueOf(up'[s], host)
  <2>1. up[s] \in Seq(UpMessage) /\ TrueOf(up[s], host)
    BY <1>i DEF TypeOK, WireTruth
  <2>2. CASE up'[s] = <<>>
    BY <2>2 DEF TrueOf
  <2> QED BY <1>i, <2>1, <2>2, WireStep, TruthOfTail, TruthOfConcat DEF Written
<1>2. \A j \in Jobs : host[j] = "applied" => host'[j] = "applied"
  BY HostStep
<1>3. \A i \in 1..Len(up'[s]) : up'[s][i].job \in Jobs
  <2>1. up'[s] \in Seq(UpMessage)
    BY <1>i DEF TypeOK
  <2>2. \A i \in 1..Len(up'[s]) : up'[s][i] \in UpMessage
    BY <2>1, ElementOfSeq
  <2> QED BY <2>2 DEF UpMessage
<1> QED BY <1>1, <1>2, <1>3 DEF TrueOf

-----------------------------------------------------------------------------
(* The rows. *)

\* A row comes to say "succeeded" only on the Host's word.
SaysDone == \A j \in Jobs : state'[j] = "succeeded" => state[j] = "succeeded" \/ host[j] = "applied"

LEMMA DisconnectedSaysNothing ==
  ASSUME NEW rows, NEW j \in Jobs, Disconnected(rows)[j] = "succeeded"
  PROVE  rows[j] = "succeeded"
BY DEF Disconnected, Recovery

LEMMA TargetsOfSuccess ==
  ASSUME NEW j \in Jobs, NEW status
  PROVE  /\ AckTarget(j, status) = "succeeded" => state[j] = "succeeded"
         /\ ReconcileTarget(j, status) # "succeeded"
         /\ CancelTarget(j) = "succeeded" => state[j] = "succeeded"
         /\ ResultTarget(j, status) = "succeeded" => state[j] = "succeeded" \/ status = "succeeded"
<1>1. AckTarget(j, status) = "succeeded" => state[j] = "succeeded"
  BY DEF AckTarget, Recovery
<1>2. ReconcileTarget(j, status) # "succeeded"
  BY DEF ReconcileTarget
<1>3. CancelTarget(j) = "succeeded" => state[j] = "succeeded"
  BY DEF CancelTarget
<1>4. ResultTarget(j, status) = "succeeded" => state[j] = "succeeded" \/ status = "succeeded"
  BY DEF ResultTarget
<1> QED BY <1>1, <1>2, <1>3, <1>4

LEMMA StoreSays ==
  ASSUME TypeOK, NEW s, NEW j \in Jobs, NEW target, NEW word, Store(s, j, target, word),
         target = "succeeded" => state[j] = "succeeded" \/ host[j] = "applied"
  PROVE  SaysDone
<1>1. CASE target = "invalid"
  <2>1. UNCHANGED state \/ state' = Disconnected(state)
    BY <1>1 DEF Store, EndHandler
  <2> QED BY <2>1, DisconnectedSaysNothing DEF SaysDone
<1>2. CASE target # "invalid"
  <2>1. state' = [state EXCEPT ![j] = target]
    BY <1>2 DEF Store, Move
  <2> QED BY <2>1 DEF SaysDone, TypeOK
<1> QED BY <1>1, <1>2

LEMMA RowStep ==
  ASSUME TInv, WireTruth, [Next]_vars
  PROVE  SaysDone
<1>t. TypeOK
  BY DEF TInv
<1>1. CASE UNCHANGED state
  BY <1>1 DEF SaysDone
<1>2. CASE state' = Disconnected(state)
  BY <1>2, DisconnectedSaysNothing DEF SaysDone
<1>3. ASSUME NEW j \in Jobs, NEW target, state' = [state EXCEPT ![j] = target],
             target = "succeeded" => state[j] = "succeeded"
      PROVE  SaysDone
  BY <1>t, <1>3 DEF SaysDone, TypeOK
<1>4. ASSUME NEW j \in Jobs,
             Create(j) \/ DispatchRefused(j) \/ DispatchOffline(j) \/ DispatchClaimed(j) \/ Sweep(j)
      PROVE  SaysDone
  <2>1. \E target \in {"queued", "failed", "reconnect_pending", "dispatched", "needs_attention"} :
          state' = [state EXCEPT ![j] = target]
    BY <1>4 DEF Create, DispatchRefused, DispatchOffline, DispatchClaimed, Sweep, Move
  <2> QED BY <1>3, <2>1
<1>5. ASSUME NEW j \in Jobs, Cancel(j) PROVE SaysDone
  <2>1. state' = [state EXCEPT ![j] = CancelTarget(j)]
    BY <1>5 DEF Cancel, Move
  <2> QED BY <1>3, <2>1, TargetsOfSuccess
<1>6. ASSUME NEW s \in Session, Activate(s) PROVE SaysDone
  <2>1. state' = [j \in Jobs |-> IF state[j] = "cancel_requested"
                                 THEN Recovery(j, state[j]) ELSE state[j]]
    BY <1>6 DEF Activate
  <2> QED BY <2>1 DEF SaysDone, Recovery
<1>7. ASSUME NEW s \in Session, HandlerEnds(s) PROVE SaysDone
  <2>1. UNCHANGED state \/ state' = Disconnected(state)
    BY <1>7 DEF HandlerEnds, EndHandler
  <2> QED BY <1>1, <1>2, <2>1
\* The message a handler has before it is true.
<1>8. ASSUME NEW s \in Session, NEW type, Reading(s, type)
      PROVE  Head(up[s]).job \in Jobs /\ Truthful(Head(up[s]), host)
  <2>1. up[s] \in Seq(UpMessage) /\ up[s] # <<>> /\ TrueOf(up[s], host)
    BY <1>8, <1>t DEF Reading, TypeOK, WireTruth
  <2> QED BY <1>8, <1>t, <2>1, TruthOfTail, HeadOfUp
<1>9. ASSUME NEW s \in Session, HandleAck(s) PROVE SaysDone
  <2>1. Store(s, Head(up[s]).job, AckTarget(Head(up[s]).job, Head(up[s]).status), "agent")
    BY <1>9 DEF HandleAck
  <2>2. Head(up[s]).job \in Jobs
    BY <1>8, <1>9 DEF HandleAck
  <2> QED BY <1>t, <2>1, <2>2, TargetsOfSuccess, StoreSays
<1>10. ASSUME NEW s, NEW j \in Jobs, NEW status, Finalize(s, j, status),
              status = "succeeded" => host[j] = "applied"
       PROVE  SaysDone
  <2>1. Store(s, j, ResultTarget(j, status), "agent")
    BY <1>10 DEF Finalize
  <2> QED BY <1>t, <1>10, <2>1, TargetsOfSuccess, StoreSays
<1>11. ASSUME NEW s \in Session, HandleResult(s) PROVE SaysDone
  <2>1. Finalize(s, Head(up[s]).job, Head(up[s]).status)
    BY <1>11 DEF HandleResult
  <2>2. Head(up[s]).job \in Jobs /\ Truthful(Head(up[s]), host)
    BY <1>8, <1>11 DEF HandleResult
  <2> QED BY <1>10, <2>1, <2>2 DEF Truthful
<1>12. ASSUME NEW s \in Session, HandleReconcileResult(s) PROVE SaysDone
  <2>1. Head(up[s]).job \in Jobs /\ Truthful(Head(up[s]), host)
    BY <1>8, <1>12 DEF HandleReconcileResult
  <2>2. \/ UNCHANGED state
        \/ Finalize(s, Head(up[s]).job, "failed")
        \/ Finalize(s, Head(up[s]).job, Head(up[s]).status)
        \/ Store(s, Head(up[s]).job, ReconcileTarget(Head(up[s]).job, Head(up[s]).status), "gateway")
    BY <1>12 DEF HandleReconcileResult
  <2>3. CASE Store(s, Head(up[s]).job, ReconcileTarget(Head(up[s]).job, Head(up[s]).status), "gateway")
    BY <1>t, <2>1, <2>3, TargetsOfSuccess, StoreSays
  <2> QED BY <1>1, <1>10, <2>1, <2>2, <2>3 DEF Truthful
<1>13. CASE SendFails \/ MarkStale \/ GatewayRestart
  BY <1>2, <1>13 DEF SendFails, MarkStale, GatewayRestart
<1>14. CASE \/ \E j \in Jobs : DeadlinePasses(j) \/ AnswerKnown(j) \/ Refuse(j) \/ Accept(j) \/ HostEnds(j)
            \/ \E s \in Session : Connect(s) \/ Opened(s) \/ ActivationFails(s)
            \/ SendReturns \/ GoStale \/ Heartbeat \/ UNCHANGED vars
  BY <1>1, <1>14 DEF DeadlinePasses, AnswerKnown, Refuse, Accept, HostEnds, Connect, Opened,
     ActivationFails, SendReturns, GoStale, Heartbeat, vars, jobVars
<1>15. CASE \/ AgentRestart \/ Drop \/ ReceiveWelcome \/ ReceiveEarly \/ ReceiveCommand
            \/ ReceiveCancel \/ ReceiveReconcile \/ RejectDone \/ Start \/ Finish
  BY <1>1, <1>15 DEF AgentRestart, Drop, ReceiveWelcome, ReceiveEarly, ReceiveCommand,
     ReceiveCancel, ReceiveReconcile, RejectDone, Start, Finish, jobVars
<1> QED
  BY <1>4, <1>5, <1>6, <1>7, <1>9, <1>11, <1>12, <1>13, <1>14, <1>15 DEF Next

LEMMA SuccessStep == SInv /\ [Next]_vars => SInv'
<1> SUFFICES ASSUME SInv, [Next]_vars PROVE SInv'
  OBVIOUS
<1>i. LInv /\ TInv /\ HostInv /\ LedgerTruth /\ WireTruth /\ SucceededMeansDone
  BY DEF SInv, LInv
<1>1. LInv'
  BY <1>i, LedgerStep
<1>2. HostInv' /\ \A j \in Jobs : host[j] = "applied" => host'[j] = "applied"
  BY <1>i, HostStep
<1>3. LedgerTruth' /\ WireTruth'
  BY <1>i, LedgerTruthStep, WireTruthStep
<1>4. SucceededMeansDone'
  BY <1>i, <1>2, RowStep DEF SaysDone, SucceededMeansDone
<1> QED BY <1>1, <1>2, <1>3, <1>4 DEF SInv

LEMMA SuccessInvariant == Spec => []SInv
BY SuccessInit, SuccessStep, PTL DEF Spec

\* No reordering of results, reconcile answers, reconnects and restarts makes
\* the Gateway report a success before the drawing has it.
THEOREM ReportedDone == Spec => []SucceededMeansDone
<1>1. SInv => SucceededMeansDone
  BY DEF SInv
<1> QED BY <1>1, SuccessInvariant, PTL
=============================================================================
