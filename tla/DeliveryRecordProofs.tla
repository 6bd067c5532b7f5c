------------------------ MODULE DeliveryRecordProofs ------------------------
(***************************************************************************)
(* What the Gateway's rows, its write lock and the Agent's messages say    *)
(* agrees with the Agent's durable ledger, for every set of jobs, sessions *)
(* and restarts.                                                           *)
(***************************************************************************)
EXTENDS JobDeliveryProofs

-----------------------------------------------------------------------------
(* The steps, by what they may do to the rows.                             *)

LEMMA RowSteps ==
  ASSUME [Next]_vars
  PROVE  \/ UNCHANGED <<state, cause, lock>>
         \/ \E j \in Jobs : \/ Create(j) \/ Cancel(j) \/ Sweep(j)
                            \/ DispatchRefused(j) \/ DispatchOffline(j) \/ DispatchClaimed(j)
         \/ \E s \in Session : \/ Activate(s) \/ HandlerEnds(s)
                               \/ HandleAck(s) \/ HandleResult(s) \/ HandleReconcileResult(s)
         \/ SendFails \/ MarkStale \/ GatewayRestart
<1>1. CASE \/ \E j \in Jobs : DeadlinePasses(j) \/ AnswerKnown(j) \/ Refuse(j) \/ Accept(j) \/ HostEnds(j)
           \/ \E s \in Session : Connect(s) \/ Opened(s) \/ ActivationFails(s)
  BY <1>1 DEF DeadlinePasses, AnswerKnown, Refuse, Accept, HostEnds, Connect, Opened,
     ActivationFails, jobVars
<1>2. CASE SendReturns \/ GoStale \/ Heartbeat \/ UNCHANGED vars
  BY <1>2 DEF SendReturns, GoStale, Heartbeat, vars, jobVars
<1>3. CASE \/ AgentRestart \/ Drop \/ ReceiveWelcome \/ ReceiveEarly \/ ReceiveCommand
           \/ ReceiveCancel \/ ReceiveReconcile \/ RejectDone \/ Start \/ Finish
  BY <1>3 DEF AgentRestart, Drop, ReceiveWelcome, ReceiveEarly, ReceiveCommand,
     ReceiveCancel, ReceiveReconcile, RejectDone, Start, Finish, jobVars
<1> QED BY <1>1, <1>2, <1>3 DEF Next

\* The message a handler reads, and the outcome it passes to Finalize.
Read(s) == Head(up[s])

Told(s) ==
  IF Read(s).type = "reconciled" /\ Read(s).status = "outcome_unknown"
  THEN "failed" ELSE Read(s).status

\* The three ways a message can move the row of its job.
Takes(s, target, word) ==
  LET j == Read(s).job
  IN /\ target # "invalid"
     /\ Move(j, target, IF target \in Terminal /\ state[j] \notin Terminal THEN word ELSE cause[j])
     /\ up' = [up EXCEPT ![s] = Tail(@)]
     /\ UNCHANGED connVars

Acked(s) ==
  /\ Read(s).type = "ack"
  /\ Takes(s, AckTarget(Read(s).job, Read(s).status), "agent")
  /\ UNCHANGED lock

Finalized(s) ==
  LET target == ResultTarget(Read(s).job, Told(s))
  IN /\ Read(s).type = "result" \/ Read(s).status \in LedgerTerminal
     /\ Takes(s, target, "agent")
     /\ IF target \in Terminal /\ state[Read(s).job] \notin Terminal
        THEN Release(Read(s).job) ELSE UNCHANGED lock

Reconciled(s) ==
  /\ Read(s).type = "reconciled" /\ Read(s).status \notin LedgerTerminal
  /\ Takes(s, ReconcileTarget(Read(s).job, Read(s).status), "gateway")
  /\ UNCHANGED lock

\* A handler ends its session, passes over the message, or moves the row.
LEMMA HandlerCases ==
  ASSUME TypeOK, NEW s \in Session, HandleAck(s) \/ HandleResult(s) \/ HandleReconcileResult(s)
  PROVE  /\ conn = s /\ handler[s] = "open" /\ up[s] # <<>>
         /\ Read(s) \in UpMessage /\ Read(s).job \in Jobs /\ Read(s).status \in UpStatus
         /\ UNCHANGED <<intent, sending, agentVars, ledger, hostVars, envVars>>
         /\ \/ EndHandler(s) /\ UNCHANGED <<cause, lock>>
            \/ /\ up' = [up EXCEPT ![s] = Tail(@)]
               /\ UNCHANGED <<state, cause, lock, connVars>>
            \/ Acked(s) \/ Finalized(s) \/ Reconciled(s)
<1>1. \E type : Reading(s, type)
  BY DEF HandleAck, HandleResult, HandleReconcileResult
<1>2. /\ conn = s /\ handler[s] = "open" /\ up[s] # <<>>
      /\ Read(s) \in UpMessage /\ Read(s).job \in Jobs /\ Read(s).status \in UpStatus
  BY <1>1, HeadOfUp DEF Reading, Read
<1>3. UNCHANGED <<intent, sending, agentVars, ledger, hostVars, envVars>>
  BY DEF HandleAck, HandleResult, HandleReconcileResult
<1>4. ASSUME NEW target, NEW word, Store(s, Read(s).job, target, word)
      PROVE  \/ target = "invalid" /\ EndHandler(s) /\ UNCHANGED <<cause, lock>>
             \/ Takes(s, target, word)
  BY <1>4 DEF Store, Takes
<1>5. CASE HandleAck(s)
  <2>1. /\ Read(s).type = "ack"
        /\ Store(s, Read(s).job, AckTarget(Read(s).job, Read(s).status), "agent")
        /\ AckTarget(Read(s).job, Read(s).status) # "invalid" => UNCHANGED lock
    BY <1>5 DEF HandleAck, Reading, Read
  <2>2. Takes(s, AckTarget(Read(s).job, Read(s).status), "agent") =>
          AckTarget(Read(s).job, Read(s).status) # "invalid"
    BY DEF Takes
  <2> QED BY <1>2, <1>3, <1>4, <2>1, <2>2 DEF Acked
<1>6. ASSUME Finalize(s, Read(s).job, Told(s)), Read(s).type = "result" \/ Read(s).status \in LedgerTerminal
      PROVE  (EndHandler(s) /\ UNCHANGED <<cause, lock>>) \/ Finalized(s)
  <2> DEFINE target == ResultTarget(Read(s).job, Told(s))
  <2>1. /\ Store(s, Read(s).job, target, "agent")
        /\ target # "invalid" =>
             IF target \in Terminal /\ state[Read(s).job] \notin Terminal
             THEN Release(Read(s).job) ELSE UNCHANGED lock
    BY <1>6 DEF Finalize
  <2>2. Takes(s, target, "agent") => target # "invalid"
    BY DEF Takes
  <2> QED BY <1>4, <1>6, <2>1, <2>2 DEF Finalized
<1>7. CASE HandleResult(s)
  <2>1. Read(s).type = "result" /\ Finalize(s, Read(s).job, Read(s).status)
    BY <1>7 DEF HandleResult, Reading, Read
  <2> QED BY <1>2, <1>3, <1>6, <2>1 DEF Told
<1>8. CASE HandleReconcileResult(s)
  <2>1. Read(s).type = "reconciled"
    BY <1>8 DEF HandleReconcileResult, Reading, Read
  <2>2. CASE Read(s).status \in LedgerTerminal
    <3>1. \/ /\ up' = [up EXCEPT ![s] = Tail(@)]
             /\ UNCHANGED <<state, cause, lock, connVars>>
          \/ Finalize(s, Read(s).job, IF Read(s).status = "outcome_unknown" THEN "failed" ELSE Read(s).status)
      BY <1>8, <2>2 DEF HandleReconcileResult, Read
    <3> QED BY <1>2, <1>3, <1>6, <2>1, <2>2, <3>1 DEF Told
  <2>3. CASE Read(s).status \notin LedgerTerminal
    <3> DEFINE target == ReconcileTarget(Read(s).job, Read(s).status)
    <3>1. /\ Store(s, Read(s).job, target, "gateway")
          /\ target # "invalid" => UNCHANGED lock
      BY <1>8, <2>3 DEF HandleReconcileResult, Read
    <3>2. Takes(s, target, "gateway") => target # "invalid"
      BY DEF Takes
    <3> QED BY <1>2, <1>3, <1>4, <2>1, <2>3, <3>1, <3>2 DEF Reconciled
  <2> QED BY <2>2, <2>3
<1> QED BY <1>5, <1>7, <1>8

\* What the stored rows look like after a message.
LEMMA TakesRow ==
  ASSUME TypeOK, NEW s \in Session, NEW target, NEW word, Takes(s, target, word), Read(s).job \in Jobs
  PROVE  /\ \A k \in Jobs : state'[k] = IF k = Read(s).job THEN target ELSE state[k]
         /\ \A k \in Jobs : cause'[k] = IF /\ k = Read(s).job
                                          /\ target \in Terminal /\ state[k] \notin Terminal
                                        THEN word ELSE cause[k]
BY DEF Takes, Move, TypeOK

-----------------------------------------------------------------------------
(* The document's write lock. *)

\* The states in which a write no longer keeps others out, or not yet.
Over == {"absent", "succeeded", "failed", "cancelled"}

LEMMA DisconnectedOver ==
  ASSUME NEW rows, NEW j \in Jobs, rows[j] \in Over
  PROVE  Disconnected(rows)[j] = rows[j]
BY DEF Disconnected, Over, InFlight

LEMMA TargetsStayOver ==
  ASSUME NEW j \in Jobs, state[j] \in Over, NEW status
  PROVE  /\ AckTarget(j, status) \in {state[j], "invalid"}
         /\ ResultTarget(j, status) \in {state[j], "invalid"}
         /\ ReconcileTarget(j, status) = "invalid"
         /\ CancelTarget(j) = state[j]
<1>1. CancelTarget(j) = state[j]
  BY DEF CancelTarget, Over
<1>2. CASE state[j] \in Terminal
  BY <1>1, <1>2, TargetsKeepTerminal
<1>3. CASE state[j] = "absent"
  <2>1. ASSUME NEW target, NEW w, NEW e PROVE ~ValidTransition(state[j], target, w, e)
    BY <1>3 DEF ValidTransition, Moves
  <2>2. AckTarget(j, status) \in {state[j], "invalid"}
    BY <1>3, <2>1 DEF AckTarget, Terminal, Started
  <2>3. ResultTarget(j, status) = "invalid"
    BY <1>3, <2>1 DEF ResultTarget, Terminal, Started
  <2>4. ReconcileTarget(j, status) = "invalid"
    BY <1>3 DEF ReconcileTarget
  <2> QED BY <1>1, <2>2, <2>3, <2>4
<1> QED BY <1>2, <1>3 DEF Over, Terminal

\* A result from the Agent does not leave a job to a human.
LEMMA ResultIsNoAttention ==
  ASSUME NEW j \in Jobs, NEW status \in UpStatus, state[j] \notin Terminal
  PROVE  ResultTarget(j, status) # "needs_attention"
BY DEF ResultTarget, UpStatus, Terminal

\* What is over stays over unless it is created, and so does its claim on the lock.
LEMMA LockStep == TInv /\ ActiveWriteHoldsLock /\ [Next]_vars => ActiveWriteHoldsLock'
<1> SUFFICES ASSUME TInv, ActiveWriteHoldsLock, [Next]_vars PROVE ActiveWriteHoldsLock'
  OBVIOUS
<1>t. TypeOK
  BY DEF TInv
<1>a. \A j \in Writes : state[j] \notin Over => lock = j
  BY DEF ActiveWriteHoldsLock, Over
<1>g. SUFFICES \A j \in Writes : state'[j] \notin Over => lock' = j
  BY DEF ActiveWriteHoldsLock, Over
<1>w. Writes \subseteq Jobs /\ NoJob \notin Jobs
  BY NoJobIsNoJob DEF Writes, Jobs
<1> DEFINE Goal == \A j \in Writes : state'[j] \notin Over => lock' = j
<1>k. ASSUME lock' = lock, \A j \in Jobs : state[j] \in Over => state'[j] \in Over
      PROVE  Goal
  BY <1>k, <1>a, <1>w
<1>r. ASSUME NEW j \in Jobs, \A k \in Jobs : k # j => state'[k] = state[k], state'[j] \in Over,
             Release(j) \/ UNCHANGED lock
      PROVE  Goal
  BY <1>r, <1>a, <1>w DEF Release
<1>1. CASE UNCHANGED <<state, cause, lock>>
  BY <1>1, <1>k
<1>2. ASSUME NEW j \in Jobs, Create(j) PROVE Goal
  <2>1. \A k \in Jobs : state'[k] = IF k = j THEN "queued" ELSE state[k]
    BY <1>2, <1>t DEF Create, TypeOK
  <2>2. j \in Writes => lock' = j /\ lock \in {NoJob} \cup {k \in Jobs : state[k] \in Over}
    BY <1>2 DEF Create, Over
  <2>3. j \notin Writes => lock' = lock
    BY <1>2 DEF Create
  <2> QED BY <2>1, <2>2, <2>3, <1>a, <1>w
<1>3. ASSUME NEW j \in Jobs, Cancel(j) PROVE Goal
  <2>1. lock' = lock /\ state' = [state EXCEPT ![j] = CancelTarget(j)]
    BY <1>3 DEF Cancel, Move
  <2>2. \A k \in Jobs : state'[k] = IF k = j THEN CancelTarget(j) ELSE state[k]
    BY <2>1, <1>t DEF TypeOK
  <2> QED BY <2>1, <2>2, <1>k, TargetsStayOver
<1>4. ASSUME NEW j \in Jobs, Sweep(j) \/ DispatchOffline(j) \/ DispatchClaimed(j) PROVE Goal
  <2>1. lock' = lock /\ state[j] \notin Over /\ \E target : state' = [state EXCEPT ![j] = target]
    BY <1>4 DEF Sweep, DispatchOffline, DispatchClaimed, Move, Over, Terminal
  <2>2. \A k \in Jobs : k # j => state'[k] = state[k]
    BY <2>1, <1>t DEF TypeOK
  <2> QED BY <2>1, <2>2, <1>k
<1>5. ASSUME NEW j \in Jobs, DispatchRefused(j) PROVE Goal
  <2>1. state' = [state EXCEPT ![j] = "failed"] /\ (Release(j) \/ UNCHANGED lock)
    BY <1>5 DEF DispatchRefused, Move
  <2>2. \A k \in Jobs : state'[k] = IF k = j THEN "failed" ELSE state[k]
    BY <2>1, <1>t DEF TypeOK
  <2> QED BY <2>1, <2>2, <1>r DEF Over
<1>6. ASSUME NEW s \in Session, Activate(s) PROVE Goal
  <2>1. lock' = lock /\ state' = [j \in Jobs |-> IF state[j] = "cancel_requested"
                                                 THEN Recovery(j, state[j]) ELSE state[j]]
    BY <1>6 DEF Activate
  <2>2. \A j \in Jobs : state[j] \in Over => state'[j] = state[j]
    BY <2>1 DEF Over
  <2> QED BY <2>1, <2>2, <1>k
<1>7. CASE lock' = lock /\ (UNCHANGED state \/ state' = Disconnected(state))
  BY <1>7, <1>k, DisconnectedOver
<1>8. CASE SendFails \/ MarkStale \/ GatewayRestart
  BY <1>7, <1>8 DEF SendFails, MarkStale, GatewayRestart
<1>9. ASSUME NEW s \in Session, HandlerEnds(s) PROVE Goal
  BY <1>7, <1>9 DEF HandlerEnds, EndHandler
<1>10. ASSUME NEW s \in Session, HandleAck(s) \/ HandleResult(s) \/ HandleReconcileResult(s)
       PROVE  Goal
  <2> DEFINE j == Read(s).job
  <2>1. j \in Jobs /\ Read(s).status \in UpStatus /\ Told(s) \in UpStatus
    BY <1>t, <1>10, HandlerCases DEF Told, UpStatus
  <2>2. CASE EndHandler(s) /\ UNCHANGED <<cause, lock>>
    BY <2>2, <1>7 DEF EndHandler
  <2>3. CASE UNCHANGED <<state, cause, lock, connVars>>
    BY <2>3, <1>7
  <2>4. CASE Acked(s) \/ Reconciled(s)
    <3>1. PICK target, word :
            /\ Takes(s, target, word) /\ lock' = lock
            /\ target \in {AckTarget(j, Read(s).status), ReconcileTarget(j, Read(s).status)}
      BY <2>4 DEF Acked, Reconciled
    <3>2. target # "invalid"
      BY <3>1 DEF Takes
    <3>3. state[j] \in Over => target = state[j]
      BY <2>1, <3>1, <3>2, TargetsStayOver
    <3> HIDE DEF j
    <3> QED BY <1>t, <2>1, <3>1, <3>3, <1>k, TakesRow DEF j
  <2>5. CASE Finalized(s)
    <3> DEFINE target == ResultTarget(j, Told(s))
    <3>1. /\ Takes(s, target, "agent") /\ target # "invalid"
          /\ IF target \in Terminal /\ state[j] \notin Terminal THEN Release(j) ELSE UNCHANGED lock
      BY <2>5 DEF Finalized, Takes
    <3>2. \A k \in Jobs : state'[k] = IF k = j THEN target ELSE state[k]
      BY <1>t, <2>1, <3>1, TakesRow
    <3>3. CASE target \in Terminal /\ state[j] \notin Terminal
      <4>1. target \in Over
        BY <2>1, <3>3, ResultIsNoAttention DEF Terminal, Over
      <4> QED BY <2>1, <3>1, <3>2, <3>3, <4>1, <1>r
    <3>4. CASE ~(target \in Terminal /\ state[j] \notin Terminal)
      <4>1. state[j] \in Over => target = state[j]
        BY <2>1, <3>1, TargetsStayOver
      <4> QED BY <3>1, <3>2, <3>4, <4>1, <1>k
    <3> QED BY <3>3, <3>4
  <2> QED BY <1>t, <1>10, <2>2, <2>3, <2>4, <2>5, HandlerCases
<1> QED BY <1>1, <1>2, <1>3, <1>4, <1>5, <1>6, <1>8, <1>9, <1>10, RowSteps

\* A write that is queued, sent, running, unknown or left to a human keeps the
\* document's lock, through every loss, restart and late answer: no second
\* write is ever admitted next to it (create_action_job, finalize_program_job).
THEOREM LockHeld == Spec => []ActiveWriteHoldsLock
<1>1. Init => ActiveWriteHoldsLock
  BY DEF Init, ActiveWriteHoldsLock, Writes, Jobs
<1>2. TInv /\ ActiveWriteHoldsLock /\ [Next]_vars => ActiveWriteHoldsLock'
  BY LockStep
<1> QED BY <1>1, <1>2, TypeInvariant, PTL DEF Spec

-----------------------------------------------------------------------------
(* Every message the Agent has sent agrees with what its ledger still says.  *)

\* What an entry must be for the word of a message to stand.
Vouched(status, entry) ==
  /\ status = "accepted" => entry \notin {"none", "received"}
  /\ status \in {"started", "duplicate", "already_terminal"} => entry \in {"started"} \cup LedgerTerminal
  /\ status \in LedgerTerminal => entry = status

Faithful == {m \in UpMessage : Vouched(m.status, ledger[m.job])}

WireFaithful == \A s \in Session : up[s] \in Seq(Faithful)

LEMMA GrownEntry ==
  ASSUME NEW entry \in LedgerState, NEW next \in LedgerState, Grows(entry, next)
  PROVE  /\ entry \notin {"none", "received"} => next \notin {"none", "received"}
         /\ entry \in {"started"} \cup LedgerTerminal => next \in {"started"} \cup LedgerTerminal
         /\ entry \in LedgerTerminal => next = entry
BY RankValues DEF Grows, LedgerState, LedgerTerminal

LEMMA VouchedStays ==
  ASSUME NEW entry \in LedgerState, NEW next \in LedgerState, Grows(entry, next),
         NEW status, Vouched(status, entry)
  PROVE  Vouched(status, next)
BY GrownEntry DEF Vouched

LEMMA FaithfulStays ==
  ASSUME LInv, [Next]_vars
  PROVE  Faithful \subseteq Faithful'
<1>1. \A j \in Jobs : ledger[j] \in LedgerState /\ ledger'[j] \in LedgerState
  BY LedgerStep DEF LInv, TInv, TypeOK
<1>2. \A j \in Jobs : Grows(ledger[j], ledger'[j])
  BY LedgerStep
<1> QED BY <1>1, <1>2, VouchedStays DEF Faithful, UpMessage

LEMMA FaithfulMessage ==
  ASSUME NEW type \in UpType, NEW j \in Jobs, NEW status \in UpStatus, Vouched(status, ledger'[j])
  PROVE  Up(type, j, status) \in Faithful'
BY DEF Faithful, Up, UpMessage

\* What a step may do to the messages on one session.
FaithfullyWritten(s) ==
  \/ up'[s] = up[s]
  \/ up'[s] = <<>>
  \/ up[s] # <<>> /\ up'[s] = Tail(up[s])
  \/ \E q \in Seq(Faithful') : up'[s] = up[s] \o q

LEMMA SendUpFaithfully ==
  ASSUME TypeOK, NEW q \in Seq(Faithful'), SendUp(q), NEW s \in Session
  PROVE  FaithfullyWritten(s)
<1>1. up'[s] = up[s] \/ up'[s] = up[s] \o q
  BY DEF SendUp, TypeOK
<1> QED BY <1>1 DEF FaithfullyWritten

LEMMA FaithfulWireStep ==
  ASSUME LInv, [Next]_vars, NEW s \in Session
  PROVE  FaithfullyWritten(s)
<1>i. TypeOK /\ WorkHasJob /\ WorkInv
  BY DEF LInv, TInv
<1>1. CASE UNCHANGED up
  BY <1>1 DEF FaithfullyWritten
<1>2. ASSUME NEW j \in Jobs, AnswerKnown(j) PROVE FaithfullyWritten(s)
  <2>1. ledger[j] \in {"started"} \cup LedgerTerminal /\ ledger' = ledger
    BY <1>2 DEF AnswerKnown
  <2>2. CASE ledger[j] = "started"
    <3>1. Up("ack", j, "duplicate") \in Faithful'
      BY <2>1, FaithfulMessage DEF UpType, UpStatus, Vouched, LedgerTerminal
    <3>2. SendUp(<<Up("ack", j, "duplicate")>>)
      BY <1>2, <2>2 DEF AnswerKnown
    <3> QED BY <3>1, <3>2, <1>i, OneOrTwo, SendUpFaithfully
  <2>3. CASE ledger[j] # "started"
    <3>1. Up("ack", j, "already_terminal") \in Faithful'
      BY <2>1, FaithfulMessage DEF UpType, UpStatus, Vouched, LedgerTerminal
    <3>2. Up("result", j, ledger[j]) \in Faithful'
      BY <2>1, <2>3, FaithfulMessage DEF UpType, UpStatus, Vouched, LedgerTerminal
    <3>3. SendUp(<<Up("ack", j, "already_terminal"), Up("result", j, ledger[j])>>)
      BY <1>2, <2>3 DEF AnswerKnown
    <3> QED BY <3>1, <3>2, <3>3, <1>i, OneOrTwo, SendUpFaithfully
  <2> QED BY <2>2, <2>3
<1>3. ASSUME NEW j \in Jobs PROVE Up("ack", j, "rejected") \in Faithful'
  BY FaithfulMessage DEF UpType, UpStatus, Vouched, LedgerTerminal
<1>4. ASSUME NEW j \in Jobs, Refuse(j) PROVE FaithfullyWritten(s)
  <2>1. CASE j \in Observes
    <3>1. SendUp(<<Up("ack", j, "rejected")>>)
      BY <1>4, <2>1 DEF Refuse
    <3> QED BY <3>1, <1>3, <1>i, OneOrTwo, SendUpFaithfully
  <2>2. CASE j \notin Observes
    <3>1. Record(j, "failed") /\ SendUp(<<Up("ack", j, "rejected"), Up("result", j, "failed")>>)
      BY <1>4, <2>2 DEF Refuse
    <3>2. ledger'[j] = "failed"
      BY <3>1, <1>i DEF Record, TypeOK
    <3>3. Up("result", j, "failed") \in Faithful'
      BY <3>2, FaithfulMessage DEF UpType, UpStatus, Vouched, LedgerTerminal
    <3> QED BY <3>1, <3>3, <1>3, <1>i, OneOrTwo, SendUpFaithfully
  <2> QED BY <2>1, <2>2
<1>5. ASSUME NEW j \in Jobs, Accept(j) PROVE FaithfullyWritten(s)
  <2>1. Record(j, "accepted") /\ SendUp(<<Up("ack", j, "accepted")>>)
    BY <1>5 DEF Accept
  <2>2. ledger'[j] = "accepted"
    BY <2>1, <1>i DEF Record, TypeOK
  <2>3. Up("ack", j, "accepted") \in Faithful'
    BY <2>2, FaithfulMessage DEF UpType, UpStatus, Vouched, LedgerTerminal
  <2> QED BY <2>1, <2>3, <1>i, OneOrTwo, SendUpFaithfully
<1>6. ASSUME ReceiveCommand \/ ReceiveCancel \/ ReceiveReconcile, NEW j \in Head(down).jobs
      PROVE  j \in Jobs
  <2>1. Head(down) \in DownMessage
    BY <1>6, <1>i, TailOfSeq DEF ReceiveCommand, ReceiveCancel, ReceiveReconcile, Receiving, TypeOK
  <2> QED BY <1>6, <2>1 DEF DownMessage
<1>7. CASE ReceiveCommand
  <2>1. PICK j \in Head(down).jobs : UNCHANGED up \/ SendUp(<<Up("ack", j, "rejected")>>)
    BY <1>7 DEF ReceiveCommand
  <2> QED BY <1>1, <1>3, <1>6, <1>7, <2>1, <1>i, OneOrTwo, SendUpFaithfully
<1>8. CASE ReceiveCancel
  <2>1. PICK j \in Head(down).jobs :
          \/ UNCHANGED up
          \/ Record(j, "cancelled") /\ SendUp(<<Up("result", j, "cancelled")>>)
    BY <1>8 DEF ReceiveCancel
  <2>2. j \in Jobs
    BY <1>6, <1>8
  <2>3. Record(j, "cancelled") => Up("result", j, "cancelled") \in Faithful'
    <3>1. Record(j, "cancelled") => ledger'[j] = "cancelled"
      BY <2>2, <1>i DEF Record, TypeOK
    <3> QED BY <2>2, <3>1, FaithfulMessage DEF UpType, UpStatus, Vouched, LedgerTerminal
  <2> QED BY <1>1, <2>1, <2>3, <1>i, OneOrTwo, SendUpFaithfully
<1>9. CASE ReceiveReconcile
  <2>1. PICK j \in Head(down).jobs : SendUp(<<Up("reconciled", j, ReconcileStatus(ledger[j]))>>)
    BY <1>9 DEF ReceiveReconcile
  <2>2. j \in Jobs /\ ledger' = ledger
    BY <1>6, <1>9 DEF ReceiveReconcile
  <2>3. ReconcileStatus(ledger[j]) \in UpStatus /\ Vouched(ReconcileStatus(ledger[j]), ledger[j])
    <3>1. ledger[j] \in LedgerState
      BY <2>2, <1>i DEF TypeOK
    <3> QED BY <3>1, ReconcileStatusType DEF ReconcileStatus, Vouched, LedgerState, LedgerTerminal
  <2>4. Up("reconciled", j, ReconcileStatus(ledger[j])) \in Faithful'
    BY <2>2, <2>3, FaithfulMessage DEF UpType
  <2> QED BY <2>1, <2>4, <1>i, OneOrTwo, SendUpFaithfully
<1>10. CASE Finish
  <2>1. work.job \in Jobs
    BY <1>10, <1>i DEF Finish, WorkHasJob
  <2>2. PICK entry \in Endings(work.job) :
          Record(work.job, entry) /\ SendUp(<<Up("result", work.job, entry)>>)
    BY <1>10 DEF Finish
  <2>3. ledger'[work.job] = entry
    BY <2>1, <2>2, <1>i DEF Record, TypeOK
  <2>4. entry \in {"succeeded", "failed", "outcome_unknown"}
    BY <2>2, EndingsAre
  <2>5. Up("result", work.job, entry) \in Faithful'
    BY <2>1, <2>3, <2>4, FaithfulMessage DEF UpType, UpStatus, Vouched, LedgerTerminal
  <2> QED BY <2>2, <2>5, <1>i, OneOrTwo, SendUpFaithfully
<1>11. ASSUME NEW t \in Session, HandlerEnds(t) \/ ActivationFails(t) \/ EndHandler(t)
       PROVE  FaithfullyWritten(s)
  <2>1. up' = [up EXCEPT ![t] = <<>>]
    BY <1>11 DEF HandlerEnds, EndHandler, ActivationFails
  <2> QED BY <2>1, <1>i DEF FaithfullyWritten, TypeOK
<1>12. ASSUME NEW t \in Session, HandleAck(t) \/ HandleResult(t) \/ HandleReconcileResult(t)
       PROVE  FaithfullyWritten(s)
  <2>1. up[t] # <<>> /\ (EndHandler(t) \/ up' = [up EXCEPT ![t] = Tail(@)])
    BY <1>12, <1>i, HandlerCases DEF Acked, Finalized, Reconciled, Takes
  <2>2. CASE up' = [up EXCEPT ![t] = Tail(@)]
    BY <2>1, <2>2, <1>i DEF FaithfullyWritten, TypeOK
  <2> QED BY <2>1, <2>2, <1>11
<1>13. CASE GatewayRestart
  <2>1. up' = [t \in Session |-> <<>>]
    BY <1>13 DEF GatewayRestart
  <2> QED BY <2>1 DEF FaithfullyWritten
<1>14. CASE \/ \E j \in Jobs : \/ Create(j) \/ Cancel(j) \/ DeadlinePasses(j) \/ Sweep(j)
                               \/ DispatchRefused(j) \/ DispatchOffline(j) \/ DispatchClaimed(j)
                               \/ HostEnds(j)
            \/ \E t \in Session : Connect(t) \/ Activate(t) \/ Opened(t)
  BY <1>1, <1>14 DEF Create, Cancel, DeadlinePasses, Sweep, DispatchRefused, DispatchOffline,
     DispatchClaimed, HostEnds, Connect, Activate, Opened, wireVars
<1>15. CASE \/ SendReturns \/ SendFails \/ GoStale \/ Heartbeat \/ MarkStale \/ AgentRestart
            \/ Drop \/ ReceiveWelcome \/ ReceiveEarly \/ RejectDone \/ Start \/ UNCHANGED vars
  <2>1. UNCHANGED up
    BY <1>15 DEF SendReturns, SendFails, GoStale, Heartbeat, MarkStale, AgentRestart, Drop,
       ReceiveWelcome, ReceiveEarly, RejectDone, Start, vars, wireVars
  <2> QED BY <2>1, <1>1
<1> QED
  BY <1>2, <1>4, <1>5, <1>7, <1>8, <1>9, <1>10, <1>11, <1>12, <1>13, <1>14, <1>15 DEF Next

LEMMA FaithfulStep == LInv /\ WireFaithful /\ [Next]_vars => WireFaithful'
<1> SUFFICES ASSUME LInv, WireFaithful, [Next]_vars, NEW s \in Session
             PROVE  up'[s] \in Seq(Faithful')
  BY DEF WireFaithful
<1>1. up[s] \in Seq(Faithful')
  <2>1. up[s] \in Seq(Faithful) /\ Faithful \subseteq Faithful'
    BY FaithfulStays DEF WireFaithful
  <2> QED BY <2>1
<1>2. FaithfullyWritten(s)
  BY FaithfulWireStep
<1>3. CASE up'[s] = <<>>
  BY <1>3
<1>4. CASE up[s] # <<>> /\ up'[s] = Tail(up[s])
  BY <1>1, <1>4, TailOfSeq
<1>5. ASSUME NEW q \in Seq(Faithful'), up'[s] = up[s] \o q PROVE up'[s] \in Seq(Faithful')
  BY <1>1, <1>5, ConcatOfSeq
<1> QED BY <1>1, <1>2, <1>3, <1>4, <1>5 DEF FaithfullyWritten

\* A handler reads a message its Agent still stands by.
LEMMA ReadIsFaithful ==
  ASSUME WireFaithful, NEW s \in Session, up[s] # <<>>
  PROVE  Vouched(Read(s).status, ledger[Read(s).job])
<1>1. Head(up[s]) \in Faithful
  BY TailOfSeq DEF WireFaithful
<1> QED BY <1>1 DEF Faithful, Read

-----------------------------------------------------------------------------
(* What the Gateway believes accepted.                                       *)

Believed == {"acknowledged", "running"}

\* A row comes to be believed accepted only on the word of the ledger.
BelievesRecords ==
  \A j \in Jobs : state'[j] \in Believed => state[j] \in Believed \/ ledger[j] \notin {"none", "received"}

LEMMA TargetsBelieved ==
  ASSUME NEW j \in Jobs, NEW status \in UpStatus
  PROVE  /\ AckTarget(j, status) \in Believed => state[j] \in Believed \/ status = "accepted"
         /\ ResultTarget(j, status) \notin Believed
         /\ ReconcileTarget(j, status) \in Believed => status = "started"
         /\ CancelTarget(j) \in Believed => state[j] \in Believed
<1>1. AckTarget(j, status) \in Believed => state[j] \in Believed \/ status = "accepted"
  BY DEF AckTarget, Recovery, Believed
<1>2. ResultTarget(j, status) \notin Believed
  BY DEF ResultTarget, UpStatus, Believed, Terminal
<1>3. ReconcileTarget(j, status) \in Believed => status = "started"
  BY DEF ReconcileTarget, Believed
<1>4. CancelTarget(j) \in Believed => state[j] \in Believed
  BY DEF CancelTarget, Believed
<1> QED BY <1>1, <1>2, <1>3, <1>4

LEMMA BelievesStep ==
  ASSUME LInv, WireFaithful, [Next]_vars
  PROVE  BelievesRecords
<1>t. TypeOK
  BY DEF LInv, TInv
<1>1. CASE UNCHANGED state
  BY <1>1 DEF BelievesRecords
<1>2. CASE state' = Disconnected(state)
  BY <1>2 DEF BelievesRecords, Believed, Disconnected, Recovery
<1>3. ASSUME NEW j \in Jobs, NEW target, state' = [state EXCEPT ![j] = target],
             target \in Believed => state[j] \in Believed
      PROVE  BelievesRecords
  BY <1>t, <1>3 DEF BelievesRecords, TypeOK
<1>4. ASSUME NEW j \in Jobs, \/ Create(j) \/ Sweep(j) \/ DispatchRefused(j)
                             \/ DispatchOffline(j) \/ DispatchClaimed(j)
      PROVE  BelievesRecords
  <2>1. \E target \in {"queued", "failed", "reconnect_pending", "dispatched", "needs_attention"} :
          state' = [state EXCEPT ![j] = target]
    BY <1>4 DEF Create, DispatchRefused, DispatchOffline, DispatchClaimed, Sweep, Move
  <2> QED BY <1>3, <2>1 DEF Believed
<1>5. ASSUME NEW j \in Jobs, Cancel(j) PROVE BelievesRecords
  <2>1. state' = [state EXCEPT ![j] = CancelTarget(j)]
    BY <1>5 DEF Cancel, Move
  <2>2. "accepted" \in UpStatus
    BY DEF UpStatus
  <2> QED BY <1>3, <2>1, <2>2, TargetsBelieved
<1>6. ASSUME NEW s \in Session, Activate(s) PROVE BelievesRecords
  <2>1. state' = [j \in Jobs |-> IF state[j] = "cancel_requested"
                                 THEN Recovery(j, state[j]) ELSE state[j]]
    BY <1>6 DEF Activate
  <2> QED BY <2>1 DEF BelievesRecords, Believed, Recovery
<1>7. ASSUME NEW s \in Session, HandlerEnds(s) \/ EndHandler(s) PROVE BelievesRecords
  <2>1. UNCHANGED state \/ state' = Disconnected(state)
    BY <1>7 DEF HandlerEnds, EndHandler
  <2> QED BY <1>1, <1>2, <2>1
<1>8. CASE SendFails \/ MarkStale \/ GatewayRestart
  BY <1>2, <1>8 DEF SendFails, MarkStale, GatewayRestart
<1>9. ASSUME NEW s \in Session, HandleAck(s) \/ HandleResult(s) \/ HandleReconcileResult(s)
      PROVE  BelievesRecords
  <2> DEFINE j == Read(s).job
             status == Read(s).status
  <2>1. /\ j \in Jobs /\ status \in UpStatus /\ Told(s) \in UpStatus
        /\ Vouched(status, ledger[j])
    BY <1>t, <1>9, HandlerCases, ReadIsFaithful DEF Told, UpStatus
  <2>2. ASSUME NEW target, NEW word, Takes(s, target, word),
               target \in Believed => state[j] \in Believed \/ status \in {"accepted", "started"}
        PROVE  BelievesRecords
    <3>1. status \in {"accepted", "started"} => ledger[j] \notin {"none", "received"}
      BY <2>1 DEF Vouched, LedgerTerminal
    <3>2. \A k \in Jobs : state'[k] = IF k = j THEN target ELSE state[k]
      BY <1>t, <2>1, <2>2, TakesRow
    <3> HIDE DEF j, status
    <3> QED BY <2>2, <3>1, <3>2 DEF BelievesRecords
  <2>3. CASE Acked(s)
    BY <2>1, <2>2, <2>3, TargetsBelieved DEF Acked
  <2>4. CASE Finalized(s)
    BY <2>1, <2>2, <2>4, TargetsBelieved DEF Finalized
  <2>5. CASE Reconciled(s)
    BY <2>1, <2>2, <2>5, TargetsBelieved DEF Reconciled
  <2> QED BY <1>t, <1>1, <1>7, <1>9, <2>3, <2>4, <2>5, HandlerCases
<1> QED BY <1>1, <1>4, <1>5, <1>6, <1>7, <1>8, <1>9, RowSteps

RInv == LInv /\ WireFaithful /\ AcknowledgedMeansRecorded

LEMMA RecordInit == Init => RInv
<1> SUFFICES ASSUME Init PROVE RInv
  OBVIOUS
<1>1. WireFaithful
  BY DEF Init, WireFaithful
<1>2. AcknowledgedMeansRecorded
  BY DEF Init, AcknowledgedMeansRecorded
<1> QED BY <1>1, <1>2, LedgerInit DEF RInv

LEMMA RecordStep == RInv /\ [Next]_vars => RInv'
<1> SUFFICES ASSUME RInv, [Next]_vars PROVE RInv'
  OBVIOUS
<1>i. LInv /\ WireFaithful /\ AcknowledgedMeansRecorded
  BY DEF RInv
<1>1. LInv' /\ WireFaithful'
  BY <1>i, LedgerStep, FaithfulStep
<1>2. ASSUME NEW j \in Jobs, state'[j] \in Believed PROVE ledger'[j] \notin {"none", "received"}
  <2>1. ledger[j] \notin {"none", "received"}
    BY <1>i, <1>2, BelievesStep DEF BelievesRecords, AcknowledgedMeansRecorded, Believed
  <2>2. ledger[j] \in LedgerState /\ ledger'[j] \in LedgerState /\ Grows(ledger[j], ledger'[j])
    BY <1>i, <1>1, LedgerStep DEF LInv, TInv, TypeOK
  <2> QED BY <2>1, <2>2, GrownEntry
<1>3. AcknowledgedMeansRecorded'
  BY <1>2 DEF AcknowledgedMeansRecorded, Believed
<1> QED BY <1>1, <1>3 DEF RInv

LEMMA RecordInvariant == Spec => []RInv
BY RecordInit, RecordStep, PTL DEF Spec

\* What the Gateway believes accepted or running, the Agent's ledger remembers,
\* across any loss of a session or restart of either process (_handle_ack,
\* handle_reconcile_result).
THEOREM AcknowledgedRecorded == Spec => []AcknowledgedMeansRecorded
<1>1. RInv => AcknowledgedMeansRecorded
  BY DEF RInv
<1> QED BY <1>1, RecordInvariant, PTL
=============================================================================
