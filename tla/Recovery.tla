------------------------------- MODULE Recovery -------------------------------
(***************************************************************************)
(* What the Gateway records of a write whose outcome it must recover:      *)
(* Phase7RecoveryService (phase7_recovery.py), the evidence, recovery      *)
(* case, checkpoint, rollback plan and rollback receipt tables             *)
(* (phase7_repository.py, program_repository.py), and the places of the    *)
(* job service that call them.                                             *)
(*                                                                         *)
(* One commit is released, then rollbacks of it, under several plans and   *)
(* under several keys for one plan; its owner may ask for any of them to   *)
(* be cancelled.  Messages, sessions and consents are the subject of the   *)
(* models of delivery and approval; here the Agent's ledger is reported    *)
(* when an acknowledgement or a result is read, or after a reconnection.   *)
(* A report may prove less than it says: its payload's digest, its typed   *)
(* binding, or the evidence inside it, may differ from the durable job.    *)
(*                                                                         *)
(* A handler makes several transactions and never suspends between them,   *)
(* so only a stop of the process can separate them.                        *)
(***************************************************************************)
EXTENDS Naturals, FiniteSets

CONSTANTS
  RollbackJobs,     \* rollback jobs, one for each idempotency key
  Plans,         \* rollback plans of the one checkpoint
  PlanOf,        \* [RollbackJobs -> Plans]
  MaxStopped     \* bound: stops of the Gateway

ASSUME PlanOfAssumption == PlanOf \in [RollbackJobs -> Plans] /\ MaxStopped \in Nat

VARIABLES
  recoveryState,   \* [WriteJobs -> the state of the job's row]
  cancelAsked,     \* jobs with a cancel_requested_at
  agentRecord,     \* [WriteJobs -> the Agent's ledger entry]
  proof,           \* [WriteJobs -> what the Agent's terminal report proves]
  recoveryCase,    \* [WriteJobs -> "none", "open" or "resolved"]
  evidence,        \* [WriteJobs -> the outcome of the terminal_persisted event]
  documentLock,    \* the job whose row is in cad_program_write_locks, or None
  checkpointed,    \* whether the commit's receipt and checkpoint are stored
  plan,            \* [Plans -> "none", "eligible", "conflict" or "expired"]
  planReceipt,     \* [Plans -> the job of its stored rollback receipt, or None]
  recheckedJobs,   \* rollbacks whose recheck has passed and whose release has not come
  entities,        \* the commit's entities in the drawing
  undoneBy,        \* the plan whose rollback receipt is in the drawing, or None
  casesEnabled,    \* the switch of recovery cases
  stopped,         \* stops so far
  interrupted,     \* history: jobs a stop kept from being escalated
  unanswered       \* history: jobs left unknown to be asked about, not answered since

recoveryVars ==
  <<recoveryState, agentRecord, proof, recoveryCase, evidence, documentLock, checkpointed,
    plan, planReceipt, recheckedJobs, entities, undoneBy, casesEnabled, stopped, interrupted,
    cancelAsked, unanswered>>
agentReports == <<agentRecord, proof, entities, undoneBy>>
planVars == <<plan, recheckedJobs>>
storedVars == <<evidence, checkpointed, planReceipt>>
beyondRows == <<agentRecord, proof, entities, undoneBy, evidence, checkpointed, planReceipt,
                documentLock, plan, casesEnabled, cancelAsked>>

None == "none"
TheCommit == "commit"
WriteJobs == {TheCommit} \cup RollbackJobs

\* The states of a row, "acknowledged" for running too.
InHand == {"acknowledged", "cancel_requested"}
InDoubt == {"reconnect_pending", "outcome_unknown"}
Over == {"succeeded", "failed", "cancelled", "needs_attention"}
Unsettled == {"outcome_unknown", "needs_attention"}
RowStates == {None, "dispatched"} \cup InHand \cup InDoubt \cup Over

\* TERMINAL of the Agent's ledger, and what its report of one proves.
Ended == {"succeeded", "failed", "unknown", "cancelled"}
Proofs == {"exact", "payload", "binding", "evidence"}

RecoveryTypeOK ==
  /\ recoveryState \in [WriteJobs -> RowStates]
  /\ agentRecord \in [WriteJobs -> {None, "started"} \cup Ended]
  /\ proof \in [WriteJobs -> Proofs]
  /\ recoveryCase \in [WriteJobs -> {None, "open", "resolved"}]
  /\ evidence \in [WriteJobs -> {None, "committed", "rolled_back", "aborted"}]
  /\ documentLock \in WriteJobs \cup {None} /\ checkpointed \in BOOLEAN
  /\ plan \in [Plans -> {None, "eligible", "conflict", "expired"}]
  /\ planReceipt \in [Plans -> RollbackJobs \cup {None}]
  /\ recheckedJobs \subseteq RollbackJobs
  /\ interrupted \subseteq WriteJobs /\ cancelAsked \subseteq WriteJobs
  /\ unanswered \subseteq WriteJobs
  /\ entities \in {"absent", "made", "altered", "removed"}
  /\ undoneBy \in Plans \cup {None}
  /\ casesEnabled \in BOOLEAN /\ stopped \in 0 .. MaxStopped

RecoveryInit ==
  /\ recoveryState = [j \in WriteJobs |-> None]
  /\ agentRecord = recoveryState /\ recoveryCase = recoveryState /\ evidence = recoveryState
  /\ proof = [j \in WriteJobs |-> "exact"]
  /\ documentLock = None /\ checkpointed = FALSE
  /\ plan = [p \in Plans |-> None] /\ planReceipt = plan
  /\ recheckedJobs = {} /\ interrupted = {} /\ cancelAsked = {} /\ unanswered = {}
  /\ entities = "absent" /\ undoneBy = None
  /\ casesEnabled \in BOOLEAN /\ stopped = 0

-----------------------------------------------------------------------------
(* Escalation.                                                             *)

\* Disconnect recovery and initialize: what a lost session makes of a row.
Unheard(s) ==
  CASE s = "dispatched" -> "reconnect_pending"
    [] s \in InHand -> "outcome_unknown"
    [] OTHER -> s

\* Every row after the session is gone.
AllUnheard(states) == [j \in WriteJobs |-> Unheard(states[j])]

\* _insert_recovery: a case that exists is neither updated nor opened again.
NewCase(j) == IF recoveryCase[j] = None THEN "open" ELSE recoveryCase[j]

\* ensure_recovery_case, for jobs whose intent was released.
CasesOpened(jobs) ==
  [j \in WriteJobs |-> IF j \in jobs /\ casesEnabled THEN NewCase(j) ELSE recoveryCase[j]]

\* The process stops after rows became "states"; initialize opens no case.
StopsAt(states) ==
  /\ stopped < MaxStopped /\ stopped' = stopped + 1
  /\ recoveryState' = AllUnheard(states)
  /\ recheckedJobs' = {}
  /\ interrupted' = interrupted \cup {j \in WriteJobs : recoveryState'[j] # recoveryState[j]}
  /\ UNCHANGED <<recoveryCase, unanswered>>

\* Rows become "states", then cases are opened for "jobs", and an answer is
\* taken about each of "about"; or the process stops.
Escalate(states, jobs, about) ==
  \/ /\ recoveryState' = states /\ recoveryCase' = CasesOpened(jobs)
     /\ unanswered' = unanswered \ about
     /\ UNCHANGED <<stopped, interrupted, recheckedJobs>>
  \/ StopsAt(states)

RowAs(j, s) == [recoveryState EXCEPT ![j] = s]

\* _freeze_for_conflict: through outcome_unknown if need be, to needs_attention,
\* then a case.  With recovery cases off nothing is frozen.
Frozen(j) ==
  /\ \/ casesEnabled /\ Escalate(RowAs(j, "needs_attention"), {j}, {j})
     \/ /\ casesEnabled /\ recoveryState[j] # "reconnect_pending"
        /\ StopsAt(RowAs(j, "outcome_unknown"))
     \/ ~casesEnabled /\ Escalate(recoveryState, {}, {j})
  /\ UNCHANGED beyondRows

\* Mutant: the case is left to a later reconciliation.
LostUnnoticed(states) == {}

\* handle_disconnect: the writes a lost session leaves unknown.
BecameUnknown(states) ==
  {j \in WriteJobs : states[j] = "outcome_unknown" /\ recoveryState[j] # states[j]}

\* The session is lost, or torn down by an error in its handler.
SessionLost ==
  /\ Escalate(AllUnheard(recoveryState), BecameUnknown(AllUnheard(recoveryState)), {})
  /\ UNCHANGED beyondRows

\* initialize, after a stop between handlers.
GatewayStops ==
  /\ StopsAt(recoveryState)
  /\ UNCHANGED beyondRows

\* resolve_recovery_case: the operator closes the case; job and lock stay.
ResolveCase(j) ==
  /\ recoveryCase[j] = "open"
  /\ recoveryCase' = [recoveryCase EXCEPT ![j] = "resolved"]
  /\ UNCHANGED <<recoveryState, agentReports, storedVars, documentLock, planVars, casesEnabled,
                 stopped, interrupted, cancelAsked, unanswered>>

-----------------------------------------------------------------------------
(* Release, execution and the plans of a rollback.                         *)

CasesKept == UNCHANGED <<storedVars, recoveryCase, stopped, interrupted, casesEnabled>>
RecordsKept == CasesKept /\ UNCHANGED <<cancelAsked, unanswered>>

\* The lock of a job that is over is stale, but one that needs attention holds the
\* document for ever.
Unlocked ==
  \A j \in WriteJobs : documentLock = j => recoveryState[j] \in Over \ {"needs_attention"}

\* release_consent_for_job: the job, its lock and its intent in one transaction.
ReleaseWrite(j) ==
  /\ recoveryState[j] = None /\ Unlocked
  /\ recoveryState' = RowAs(j, "dispatched")
  /\ documentLock' = j
  /\ UNCHANGED <<agentReports, plan>> /\ RecordsKept

ReleaseCommit == ReleaseWrite(TheCommit) /\ UNCHANGED recheckedJobs

\* _phase7_rollback_preview_provider: the Host looks at the drawing.
HostSaysClean == entities = "made" /\ undoneBy = None

\* create_rollback_plan: a plan that exists is answered again as it was.
PlanStored(p, verdict) == plan[p] = None /\ plan' = [plan EXCEPT ![p] = verdict]

\* preview_rollback.
PlanRollback(p) ==
  /\ checkpointed /\ PlanStored(p, IF HostSaysClean THEN "eligible" ELSE "conflict")
  /\ UNCHANGED <<recoveryState, agentReports, documentLock, recheckedJobs>> /\ RecordsKept

PlanExpires(p) ==
  /\ plan[p] = "eligible"
  /\ plan' = [plan EXCEPT ![p] = "expired"]
  /\ UNCHANGED <<recoveryState, agentReports, documentLock, recheckedJobs>> /\ RecordsKept

\* commit_rollback: the plan's preview again, then its stored receipt.
Recheck(j) ==
  /\ recoveryState[j] = None /\ plan[PlanOf[j]] = "eligible" /\ HostSaysClean
  /\ planReceipt[PlanOf[j]] = None
  /\ recheckedJobs' = recheckedJobs \cup {j}
  /\ UNCHANGED <<recoveryState, agentReports, documentLock, plan>> /\ RecordsKept

\* The release of a rollback: its intent and consent are in order, its plan had passed.
ReleaseRollback(j) ==
  /\ j \in recheckedJobs /\ ReleaseWrite(j) /\ recheckedJobs' = recheckedJobs \ {j}

\* request_job_cancel: a job in doubt keeps its state, and all keep the intent.
RequestCancel(j) ==
  /\ recoveryState[j] \notin Over \cup {None} /\ j \notin cancelAsked
  /\ recoveryState' = IF recoveryState[j] \in InDoubt THEN recoveryState
                      ELSE RowAs(j, "cancel_requested")
  /\ cancelAsked' = cancelAsked \cup {j}
  /\ UNCHANGED <<agentReports, documentLock, planVars, unanswered>> /\ CasesKept

\* _handle_cancel of the Agent: a command it has received and not started.
AgentCancels(j) ==
  /\ j \in cancelAsked /\ recoveryState[j] \notin Over /\ agentRecord[j] = None
  /\ agentRecord' = [agentRecord EXCEPT ![j] = "cancelled"]
  /\ UNCHANGED <<recoveryState, proof, entities, undoneBy, documentLock, planVars>>
  /\ RecordsKept

\* _handle_ack, "accepted".
WriteAcknowledged(j) ==
  /\ recoveryState[j] = "dispatched"
  /\ recoveryState' = RowAs(j, "acknowledged")
  /\ UNCHANGED <<agentReports, documentLock, planVars>> /\ RecordsKept

\* _handle_ack, "rejected": the Agent's queue is full, or it has recorded a failure
\* before the start.  One that waits to be reconciled cannot fail, and the error ends
\* the session.
WriteRejected(j) ==
  /\ agentRecord[j] \in {None, "failed"}
  /\ \/ /\ recoveryState[j] \in {"dispatched", "outcome_unknown"} \cup InHand
        /\ recoveryState' = RowAs(j, "failed")
        /\ UNCHANGED <<agentReports, documentLock, planVars>> /\ RecordsKept
     \/ recoveryState[j] = "reconnect_pending" /\ SessionLost

\* _handle_ack, "duplicate" or "already_terminal": the job is to be reconciled, and a
\* write in hand of which the Agent has the end is unknown.  No case is opened.
LedgerAcknowledged(j) ==
  /\ \/ /\ recoveryState[j] = "dispatched"
        /\ recoveryState' = RowAs(j, "reconnect_pending") /\ UNCHANGED unanswered
     \/ /\ recoveryState[j] \in InHand /\ agentRecord[j] \in Ended
        /\ recoveryState' = RowAs(j, "outcome_unknown")
        /\ unanswered' = unanswered \cup {j}
  /\ UNCHANGED <<agentReports, documentLock, planVars, cancelAsked>> /\ CasesKept

\* handle_connected: a write whose cancellation was asked for is unknown, and asked
\* about.  No case is opened.
SessionOpens ==
  LET doubtful == {j \in WriteJobs : recoveryState[j] = "cancel_requested"}
  IN /\ doubtful # {}
     /\ recoveryState' = [j \in WriteJobs |->
                            IF j \in doubtful THEN "outcome_unknown" ELSE recoveryState[j]]
     /\ unanswered' = unanswered \cup doubtful
     /\ UNCHANGED <<agentReports, documentLock, planVars, cancelAsked>> /\ CasesKept

StartsWrite(j) ==
  /\ recoveryState[j] \notin Over \cup {None} /\ agentRecord[j] = None
  /\ agentRecord' = [agentRecord EXCEPT ![j] = "started"]
  /\ UNCHANGED <<recoveryState, proof, entities, undoneBy, documentLock, planVars>>
  /\ RecordsKept

\* The Host's transaction: a commit makes the entities, a rollback removes them if
\* they are as the commit left them, and repeats the receipt of its own plan.
HostFinishes(j, word) ==
  /\ agentRecord[j] = "started"
  /\ agentRecord' = [agentRecord EXCEPT ![j] = word]
  /\ \E q \in Proofs : proof' = [proof EXCEPT ![j] = q]
  /\ \/ word # "succeeded" /\ UNCHANGED <<entities, undoneBy>>
     \/ word # "failed" /\ j = TheCommit /\ entities' = "made" /\ UNCHANGED undoneBy
     \/ /\ word # "failed" /\ j # TheCommit /\ HostSaysClean
        /\ entities' = "removed" /\ undoneBy' = PlanOf[j]
     \/ /\ word # "failed" /\ j # TheCommit /\ undoneBy = PlanOf[j]
        /\ UNCHANGED <<entities, undoneBy>>
  /\ UNCHANGED <<recoveryState, documentLock, planVars>> /\ RecordsKept

\* The operator changes the entities.
AlterEntities ==
  /\ entities = "made" /\ entities' = "altered"
  /\ UNCHANGED <<recoveryState, agentRecord, proof, undoneBy, documentLock, planVars>>
  /\ RecordsKept

-----------------------------------------------------------------------------
(* Settling.                                                               *)

Freed(j) == IF documentLock = j THEN None ELSE documentLock

\* prepare_terminal_evidence: the outcome the terminal event tells.
TerminalOutcome(j, s) ==
  IF s \in {"failed", "cancelled"} THEN "aborted"
  ELSE IF j = TheCommit THEN "committed" ELSE "rolled_back"

\* insert_evidence: the first event of a job stays.
Witnessed(j, s) ==
  evidence' = [evidence EXCEPT ![j] = IF @ = None THEN TerminalOutcome(j, s) ELSE @]

\* The end of a job and its terminal evidence, in one transaction with the lock.
Ends(j, s) ==
  /\ recoveryState' = RowAs(j, s) /\ documentLock' = Freed(j) /\ Witnessed(j, s)
  /\ unanswered' = unanswered \ {j}
  /\ UNCHANGED <<recoveryCase, stopped, interrupted, agentReports, planVars, casesEnabled,
                 cancelAsked>>

\* The end of a job that has no effect to record.
Stands(j, s) == Ends(j, s) /\ UNCHANGED <<checkpointed, planReceipt>>

\* _insert_phase7_checkpoint: of a commit released under an intent.
Checkpoint == checkpointed' = TRUE /\ UNCHANGED planReceipt

\* _materialize: what the commit's receipt proves.
Materialize == Ends(TheCommit, "succeeded") /\ Checkpoint

\* insert_rollback_receipt: the receipt of a plan names one job.
ReceiptFits(j) == planReceipt[PlanOf[j]] \in {None, j}

\* prepare_rollback_receipt, then the receipt in the transaction of the result.
RecordRollback(j) ==
  /\ ReceiptFits(j)
  /\ Ends(j, "succeeded")
  /\ planReceipt' = [planReceipt EXCEPT ![PlanOf[j]] = j]
  /\ UNCHANGED checkpointed

Proven(j) == IF j = TheCommit THEN Materialize ELSE RecordRollback(j)

\* A rollback whose receipt does not fit its plan: the error ends the session.
Unfit(j) == j # TheCommit /\ (proof[j] = "evidence" \/ ~ReceiptFits(j))

\* A commit whose evidence does not fit what was asked for: it is unknown, then
\* frozen.  One that waits to be reconciled cannot move, and the error ends the session.
UnprovenCommit(j) ==
  \/ recoveryState[j] = "reconnect_pending" /\ SessionLost
  \/ recoveryState[j] # "reconnect_pending" /\ casesEnabled /\ Frozen(j)
  \/ /\ recoveryState[j] # "reconnect_pending" /\ ~casesEnabled
     /\ Escalate(RowAs(j, "outcome_unknown"), {}, {j})
     /\ UNCHANGED beyondRows

\* _handle_result of what the Agent knows the end of.  A job that nobody asked to
\* cancel cannot be cancelled, and the error ends the session.
Settles(j) ==
  \/ agentRecord[j] = "failed" /\ Stands(j, "failed")
  \/ /\ agentRecord[j] = "cancelled"
     /\ IF recoveryState[j] = "acknowledged" THEN SessionLost ELSE Stands(j, "cancelled")
  \/ agentRecord[j] = "succeeded" /\ proof[j] = "exact" /\ Proven(j)
  \/ agentRecord[j] = "succeeded" /\ proof[j] = "evidence" /\ j = TheCommit /\ UnprovenCommit(j)
  \/ agentRecord[j] = "succeeded" /\ Unfit(j) /\ SessionLost

\* record_reconcile_outcome, "inconclusive": at the first attempt already.
Inconclusive(j) ==
  /\ Escalate(RowAs(j, "outcome_unknown"), {j}, {j})
  /\ UNCHANGED beyondRows

\* A report that is about this payload, and one that is bound to this job too.
OfPayload(j) == proof[j] # "payload"
Bound(j) == proof[j] \notin {"payload", "binding"}

\* _fail_payload, before anything else is looked at: no case is opened.  It frees the
\* document of a commit only.
WrongPayload(j) ==
  /\ recoveryState[j] \in InHand \cup InDoubt
  /\ agentRecord[j] \in Ended /\ ~OfPayload(j)
  /\ recoveryState' =
       RowAs(j, IF recoveryState[j] = "outcome_unknown" THEN "needs_attention" ELSE "failed")
  /\ documentLock' = IF j = TheCommit THEN Freed(j) ELSE documentLock
  /\ UNCHANGED <<agentReports, planVars>> /\ RecordsKept

\* _handle_result, on the session: of a job in hand, or late of one in doubt.  The
\* state of a job in doubt is no outcome of a result, and the error ends the session.
WriteResult(j) ==
  /\ recoveryState[j] \in InHand \cup InDoubt /\ OfPayload(j)
  /\ \/ Bound(j) /\ Settles(j)
     \/ /\ Bound(j) /\ agentRecord[j] = "unknown"
        /\ IF recoveryState[j] \in InHand THEN Inconclusive(j) ELSE SessionLost
     \/ ~Bound(j) /\ agentRecord[j] \in Ended /\ SessionLost

\* The answer for a job the Agent has not started.
ReconcileNotStarted(j) ==
  /\ agentRecord[j] = None
  /\ \/ /\ recoveryState[j] = "reconnect_pending"
        /\ recoveryState' = RowAs(j, IF j \in cancelAsked THEN "cancelled" ELSE "dispatched")
        /\ UNCHANGED <<agentReports, documentLock, planVars>> /\ RecordsKept
     \/ /\ recoveryState[j] = "outcome_unknown"
        /\ Escalate(RowAs(j, "needs_attention"), {j}, {j})
        /\ UNCHANGED beyondRows

\* The answer for a job that is under way, or that the Agent cannot tell the end of.
ReconcileUnsettled(j) ==
  /\ recoveryState[j] \in InDoubt
  /\ \/ agentRecord[j] = "started" /\ Inconclusive(j)
     \/ /\ agentRecord[j] = "unknown" /\ Bound(j)
        /\ IF recoveryState[j] = "outcome_unknown" THEN Inconclusive(j) ELSE Stands(j, "failed")

\* The answer for a job that has ended: binding first, then the evidence.
ReconcileTerminal(j) ==
  /\ recoveryState[j] \in InDoubt /\ OfPayload(j)
  /\ \/ ~Bound(j) /\ agentRecord[j] \in Ended /\ Frozen(j)
     \/ Bound(j) /\ Settles(j)

\* sweep_deadlines, which may find any deadline passed: an unknown commit is escalated
\* and stays, an unknown rollback needs attention, with no case, and anything else
\* fails.  The lock is left to the next release.
SweepOverdue(j) ==
  /\ recoveryState[j] \notin Over \cup {None}
  /\ \/ /\ recoveryState[j] = "outcome_unknown" /\ j = TheCommit
        /\ Escalate(recoveryState, {j}, {j})
     \/ /\ recoveryState[j] = "outcome_unknown" /\ j # TheCommit
        /\ Escalate(RowAs(j, "needs_attention"), {}, {})
     \/ /\ recoveryState[j] # "outcome_unknown"
        /\ Escalate(RowAs(j, "failed"), {}, {})
  /\ UNCHANGED beyondRows

-----------------------------------------------------------------------------
RecoveryNext ==
  \/ ReleaseCommit \/ AlterEntities \/ SessionLost \/ SessionOpens \/ GatewayStops
  \/ \E p \in Plans : PlanRollback(p) \/ PlanExpires(p)
  \/ \E j \in RollbackJobs : Recheck(j) \/ ReleaseRollback(j)
  \/ \E j \in WriteJobs :
       \/ RequestCancel(j) \/ AgentCancels(j) \/ StartsWrite(j) \/ ResolveCase(j)
       \/ WriteAcknowledged(j) \/ WriteRejected(j) \/ LedgerAcknowledged(j)
       \/ \E word \in {"succeeded", "failed", "unknown"} : HostFinishes(j, word)
       \/ WrongPayload(j) \/ WriteResult(j) \/ ReconcileNotStarted(j)
       \/ ReconcileUnsettled(j) \/ ReconcileTerminal(j) \/ SweepOverdue(j)

RecoverySpec == RecoveryInit /\ [][RecoveryNext]_recoveryVars

-----------------------------------------------------------------------------
\* With recovery cases on, a write that is left unknown or needing attention has a
\* recovery case, unless the process stopped between the transition and the case, or
\* the Agent was asked about it and has given no answer since: a session that opens on
\* a job being cancelled, and an acknowledgement that tells of an end, make a write
\* unknown and open no case, and leave that to the answer (ensure_recovery_case,
\* handle_disconnect, handle_connected, _handle_ack, _freeze_for_conflict,
\* sweep_deadlines).
UnknownHasCase ==
  \A j \in WriteJobs :
    casesEnabled /\ recoveryState[j] \in Unsettled /\ j \notin interrupted \cup unanswered
      => recoveryCase[j] # None
=============================================================================
