----------------------------- MODULE JobDelivery -----------------------------
(***************************************************************************)
(* Job delivery end to end: the Gateway's durable jobs, the Desktop Agent  *)
(* and the CAD Host over sessions that come and go.                        *)
(***************************************************************************)
EXTENDS GatewayJobs, DesktopAgent

Next ==
  \/ \E j \in Jobs :
       \/ Create(j) \/ Cancel(j) \/ DeadlinePasses(j) \/ Sweep(j)
       \/ DispatchRefused(j) \/ DispatchOffline(j) \/ DispatchClaimed(j)
       \/ AnswerKnown(j) \/ Refuse(j) \/ Accept(j)
       \/ HostEnds(j)
  \/ \E s \in Session :
       \/ Connect(s) \/ Activate(s) \/ Opened(s)
       \/ ActivationFails(s) \/ HandlerEnds(s)
       \/ HandleAck(s) \/ HandleResult(s) \/ HandleReconcileResult(s)
  \/ SendReturns \/ SendFails
  \/ GoStale \/ Heartbeat \/ MarkStale
  \/ GatewayRestart \/ AgentRestart
  \/ Drop \/ ReceiveWelcome \/ ReceiveEarly
  \/ ReceiveCommand \/ ReceiveCancel \/ ReceiveReconcile
  \/ RejectDone \/ Start \/ Finish

Spec == Init /\ [][Next]_vars

-----------------------------------------------------------------------------
(* Fairness.  The Gateway's handlers, its maintenance loop and the Agent's   *)
(* tasks are asyncio tasks that always run again; a socket whose other side  *)
(* has gone is eventually noticed.  Nothing else is promised: a session may  *)
(* never be opened, the Host may never answer, a client may never call, and  *)
(* a deadline may lie beyond the behaviour.                                  *)

Noticed(s) == session # s /\ HandlerEnds(s)

Fairness ==
  /\ \A j \in Jobs : /\ WF_vars(Sweep(j))
                     /\ WF_vars(AnswerKnown(j))
                     /\ WF_vars(Refuse(j) \/ Accept(j))
  /\ \A s \in Session : /\ WF_vars(Noticed(s))
                        /\ WF_vars(Activate(s) \/ ActivationFails(s))
                        /\ WF_vars(Opened(s) \/ ActivationFails(s))
                        /\ WF_vars(HandleAck(s)) /\ WF_vars(HandleResult(s))
                        /\ WF_vars(HandleReconcileResult(s))
  /\ WF_vars(SendReturns \/ SendFails)
  /\ WF_vars(ReceiveWelcome) /\ WF_vars(ReceiveEarly) /\ WF_vars(ReceiveCommand)
  /\ WF_vars(ReceiveCancel) /\ WF_vars(ReceiveReconcile)
  /\ WF_vars(RejectDone) /\ WF_vars(Start) /\ WF_vars(Finish)

FairSpec == Spec /\ Fairness

-----------------------------------------------------------------------------
(* Safety. *)

\* The Host is asked to carry a job out at most once, through every
\* redelivery, reconnect and restart (ledger.py record_received, transition).
AtMostOneExecution == \A j \in Jobs : runs[j] <= 1

\* A job the Gateway reports as succeeded has its effect in the drawing:
\* no reordering of results, reconciles and restarts reports it early.
SucceededMeansDone == \A j \in Jobs : state[j] = "succeeded" => host[j] = "applied"

\* A job reported as cancelled was never begun and will never be: the cancel
\* that wins the race against the worker really stops it (_handle_cancel).
CancelledMeansUntouched == \A j \in Jobs : state[j] = "cancelled" => runs[j] = 0

\* A job goes back to the queue only while the Host has not seen it: a started
\* job is never retried blindly (handle_reconcile_result).
QueuedMeansUntouched == \A j \in Jobs : state[j] = "queued" => runs[j] = 0

\* What the Gateway believes accepted, the Agent's ledger remembers, across
\* any loss of the session or of either process (_handle_ack).
AcknowledgedMeansRecorded ==
  \A j \in Jobs : state[j] \in {"acknowledged", "running"} => ledger[j] \notin {"none", "received"}

\* A commit reported failed whose effect is in the drawing has one of the
\* causes the code knows of: its deadline passed, the Agent never heard from
\* the Host, or a receipt was not accepted.
FailedCommitExplained ==
  \A j \in Commits :
    state[j] = "failed" /\ host[j] = "applied" =>
      cause[j] = "deadline" \/ ledger[j] = "outcome_unknown" \/ j \in Unverified \cup Unproven

\* A write that is not over holds the document's lock, so no second write is
\* admitted next to it (create_action_job, finalize_program_job).
ActiveWriteHoldsLock ==
  \A j \in Writes :
    state[j] \notin {"absent", "succeeded", "failed", "cancelled"} => lock = j

\* Nothing left to do on either end of an open session.
Quiet ==
  /\ conn # NoSession /\ fresh /\ session = conn /\ handler[conn] = "open" /\ welcomed
  /\ down = <<>> /\ up[conn] = <<>> /\ sending = NotSending
  /\ queue = <<>> /\ work = Idle

\* When both ends are quiet, no job is left waiting for an answer that nobody
\* is going to send.
NothingForgotten == Quiet => \A j \in Jobs : state[j] \notin InFlight

\* So it is on the only session there has been: no full queue, failed send, stale
\* heartbeat or deadline loses a job there (handle_disconnect, _handle_result).
NothingForgottenAlone ==
  (\A s \in Session : handler[s] # "none" => s = conn) => NothingForgotten

\* What has come to an end is never reported otherwise (validate_transition).
TerminalIsFinal ==
  [][\A j \in Jobs : state[j] \in Terminal => state'[j] = state[j]]_state

\* A job whose outcome is unknown is never queued, run or sent again: it only
\* ever moves to an end.
UnknownIsNeverRetried ==
  [][\A j \in Jobs : state[j] = "outcome_unknown" =>
       state'[j] \in {"outcome_unknown"} \cup Terminal]_state

\* The Agent's memory of a command only grows and is frozen once it has ended.
LedgerOnlyGrows ==
  [][\A j \in Jobs : /\ Rank(ledger[j]) <= Rank(ledger'[j])
                     /\ ledger[j] \in LedgerTerminal => ledger'[j] = ledger[j]]_ledger

-----------------------------------------------------------------------------
(* Refinement: what the client is promised (JobOutcome). *)

Reported(j) == CASE state[j] = "absent"    -> "none"
                 [] state[j] \in Terminal -> state[j]
                 [] OTHER                  -> "pending"

Outcome == INSTANCE JobOutcome WITH
             report <- [j \in Jobs |-> Reported(j)],
             effect <- host

\* Every behaviour of the two ends is one the client was promised.
ImplementsOutcome == Outcome!Spec

-----------------------------------------------------------------------------
(* Liveness. *)

\* A command sent on an open session does not stay in flight for ever: its
\* result comes, or the loss of the session is noticed and the job is left to
\* reconciliation -- unless a newer session has taken the device over
\* (dispatch, handle_disconnect, _handle_result).
InFlightIsLeft ==
  \A j \in Jobs, s \in Session :
    sending.job = j /\ sending.to = s /\ handler[s] = "open" ~>
      state[j] \notin InFlight \/ \E t \in Session : t > s /\ handler[t] # "none"

\* A job whose deadline passes is over, or is a commit kept for reconciliation,
\* whatever the session and the Agent do (sweep_deadlines).
DeadlineSettles ==
  \A j \in Deadlines :
    expired[j] ~>
      state[j] \in Terminal \/ (j \in Commits /\ state[j] = "outcome_unknown")

-----------------------------------------------------------------------------
(* What the documents say and the code does not do. *)

\* docs/architecture/Phase-7.md: a write started without receipt proof remains
\* outcome_unknown.  The Agent's ledger says unknown, so the Gateway must not
\* say failed.
UnknownStaysUnknown ==
  \A j \in Commits : ledger[j] = "outcome_unknown" => state[j] # "failed"

\* docs/architecture/Phase-7.md: a receipt proves success, so a commit whose
\* effect and receipt are in the drawing is not reported failed.
FailedMeansUntouched ==
  \A j \in Commits : state[j] = "failed" => host[j] # "applied"
=============================================================================
