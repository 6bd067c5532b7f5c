----------------------------- MODULE GatewayJobs -----------------------------
(***************************************************************************)
(* The Gateway's half of job delivery: DurableJobService (job_service.py), *)
(* the repositories it writes through, the WebSocket endpoint and the      *)
(* connection registry, and the maintenance loop (durable_services.py).    *)
(*                                                                         *)
(* The Gateway is one asyncio process: a handler runs without interruption *)
(* until it awaits a socket write, so an action is the code between two    *)
(* writes that can suspend.                                                *)
(***************************************************************************)
EXTENDS Delivery

Move(j, target, word) ==
  /\ state' = [state EXCEPT ![j] = target]
  /\ cause' = [cause EXCEPT ![j] = word]

Release(j) == lock' = IF lock = j THEN NoJob ELSE lock

\* The recovery state a lost session leaves an in-flight job in.
Recovery(j, current) ==
  IF j \in Writes /\ current \in Started THEN "outcome_unknown" ELSE "reconnect_pending"

\* handle_disconnect: every in-flight job of the device, whatever its session.
Disconnected(rows) ==
  [j \in Jobs |-> IF rows[j] \in InFlight THEN Recovery(j, rows[j]) ELSE rows[j]]

-----------------------------------------------------------------------------
(* Client requests. *)

\* create_job, create_action_job: a write takes the document's lock, evicting
\* the lock of a job that is over; needs_attention still counts as active.
Create(j) ==
  /\ state[j] = "absent"
  /\ j \in Writes =>
       lock \in {NoJob} \cup {k \in Jobs : state[k] \in {"succeeded", "failed", "cancelled"}}
  /\ state' = [state EXCEPT ![j] = "queued"]
  /\ lock' = IF j \in Writes THEN j ELSE lock
  /\ UNCHANGED <<intent, cause, connVars, sending, wireVars, agentVars, ledger, hostVars, envVars>>

\* Mutant: a command already sent is cancelled without waiting for the Agent.
CancelTargetAtOnce(j) == IF state[j] \in {"queued"} \cup InFlight THEN "cancelled" ELSE state[j]

\* cancel: the intent is stored once; the message goes out on every call, if a
\* fresh session is there and the write succeeds.  Bound: one cancel message
\* per job in flight.
CancelTarget(j) ==
  IF intent[j] THEN state[j]
  ELSE CASE state[j] = "queued"                                    -> "cancelled"
         [] state[j] \in {"dispatched", "acknowledged", "running"} -> "cancel_requested"
         [] OTHER                                                  -> state[j]

Cancel(j) ==
  /\ state[j] \notin Terminal \cup {"absent"}
  /\ Down("cancel", {j}) \notin {down[i] : i \in 1..Len(down)}
  /\ intent' = [intent EXCEPT ![j] = TRUE]
  /\ Move(j, CancelTarget(j), IF CancelTarget(j) = "cancelled" THEN "gateway" ELSE cause[j])
  /\ \/ /\ CancelTarget(j) # "cancelled" /\ conn # NoSession /\ fresh
        /\ SendDown(conn, Down("cancel", {j}))
     \/ UNCHANGED down
  /\ UNCHANGED <<lock, connVars, sending, up, agentVars, ledger, hostVars, envVars>>

-----------------------------------------------------------------------------
(* dispatch, one at a time under the dispatch lock. *)

\* _require_dispatch_capability fails: the job fails before it is claimed.
DispatchRefused(j) ==
  /\ sending = NotSending /\ state[j] = "queued"
  /\ Move(j, "failed", "gateway")
  /\ IF j \in Previews \cup Commits THEN Release(j) ELSE UNCHANGED lock
  /\ UNCHANGED <<intent, connVars, sending, wireVars, agentVars, ledger, hostVars, envVars>>

\* Claimed, but the session is stale, or there is none (a Host command was refused above).
DispatchOffline(j) ==
  /\ sending = NotSending /\ state[j] = "queued"
  /\ IF conn = NoSession THEN j \in Observes ELSE ~fresh
  /\ state' = [state EXCEPT ![j] = "reconnect_pending"]
  /\ UNCHANGED <<intent, cause, lock, connVars, sending, wireVars, agentVars, ledger, hostVars, envVars>>

\* Claimed and handed to the socket; the write may never reach the wire.  While
\* a replaced socket is being closed the new one is registered, not yet welcomed.
DispatchClaimed(j) ==
  /\ sending = NotSending /\ state[j] = "queued"
  /\ conn # NoSession /\ fresh /\ handler[conn] \in {"replacing", "activating", "open"}
  /\ state' = [state EXCEPT ![j] = "dispatched"]
  /\ \E delivered \in BOOLEAN :
       /\ sending' = [job |-> j, to |-> conn, delivered |-> delivered]
       /\ IF delivered THEN SendDown(conn, Down("command", {j})) ELSE UNCHANGED down
  /\ UNCHANGED <<intent, cause, lock, connVars, up, agentVars, ledger, hostVars, envVars>>

SendReturns ==
  /\ sending # NotSending /\ sending.delivered
  /\ sending' = NotSending
  /\ UNCHANGED <<jobVars, connVars, wireVars, agentVars, ledger, hostVars, envVars>>

\* The write raises or times out, delivered or not: handle_disconnect for the
\* whole device, while the session stays registered.
SendFails ==
  /\ sending # NotSending
  /\ sending' = NotSending
  /\ state' = Disconnected(state)
  /\ UNCHANGED <<intent, cause, lock, connVars, wireVars, agentVars, ledger, hostVars, envVars>>

-----------------------------------------------------------------------------
(* Maintenance. *)

\* Time passes.  The Gateway, the Agent and the Host read one clock.
DeadlinePasses(j) ==
  /\ j \in Deadlines /\ state[j] # "absent" /\ ~expired[j]
  /\ expired' = [expired EXCEPT ![j] = TRUE]
  /\ UNCHANGED <<jobVars, connVars, sending, wireVars, agentVars, ledger, hostVars, restarts>>

\* Mutant: the sweep does not leave out what is over.
SweepOver(j) ==
  /\ expired[j]
  /\ state[j] # "absent" /\ ~(j \in Commits /\ state[j] = "outcome_unknown")
  /\ Move(j, IF state[j] = "outcome_unknown" THEN "needs_attention" ELSE "failed", "deadline")
  /\ UNCHANGED <<intent, lock, connVars, sending, wireVars, agentVars, ledger, hostVars, envVars>>

\* Mutant: what is left to reconciliation is left out by the sweep.
SweepSparesPending(j) ==
  /\ expired[j]
  /\ state[j] \notin Terminal \cup {"absent", "reconnect_pending", "outcome_unknown"}
  /\ Move(j, "failed", "deadline")
  /\ UNCHANGED <<intent, lock, connVars, sending, wireVars, agentVars, ledger, hostVars, envVars>>

\* sweep_deadlines, for a job whose deadline has passed.
Sweep(j) ==
  /\ expired[j]
  /\ state[j] \notin Terminal \cup {"absent"}
  /\ ~(j \in Commits /\ state[j] = "outcome_unknown")
  /\ Move(j, IF state[j] = "outcome_unknown" THEN "needs_attention" ELSE "failed", "deadline")
  /\ UNCHANGED <<intent, lock, connVars, sending, wireVars, agentVars, ledger, hostVars, envVars>>

GoStale ==
  /\ conn # NoSession /\ fresh
  /\ fresh' = FALSE
  /\ UNCHANGED <<jobVars, active, conn, handler, sending, wireVars, agentVars, ledger, hostVars, envVars>>

Heartbeat ==
  /\ conn # NoSession /\ ~fresh
  /\ session = conn /\ welcomed /\ handler[conn] = "open"
  /\ fresh' = TRUE
  /\ UNCHANGED <<jobVars, active, conn, handler, sending, wireVars, agentVars, ledger, hostVars, envVars>>

\* The maintenance loop finds the session stale; the socket stays registered.
MarkStale ==
  /\ conn # NoSession /\ ~fresh /\ active = conn
  /\ state' = Disconnected(state)
  /\ UNCHANGED <<intent, cause, lock, connVars, sending, wireVars, agentVars, ledger, hostVars, envVars>>

-----------------------------------------------------------------------------
(* The life of a session's WebSocket handler. *)

\* Mutant: the session is closed and its jobs stay as they were.
EndHandlerOnly(s) ==
  /\ handler' = [handler EXCEPT ![s] = "closed"]
  /\ up' = [up EXCEPT ![s] = <<>>]
  /\ active' = IF active = s THEN NoSession ELSE active
  /\ conn' = IF conn = s THEN NoSession ELSE conn
  /\ fresh' = (conn = s \/ fresh)
  /\ UNCHANGED state

\* on_agent_disconnected, then registry.remove: jobs move only if s is current.
EndHandler(s) ==
  /\ handler' = [handler EXCEPT ![s] = "closed"]
  /\ up' = [up EXCEPT ![s] = <<>>]
  /\ active' = IF active = s THEN NoSession ELSE active
  /\ conn' = IF conn = s THEN NoSession ELSE conn
  /\ fresh' = (conn = s \/ fresh)
  /\ state' = IF conn = s THEN Disconnected(state) ELSE state

\* hello accepted: registry.add replaces whatever session was there, and closes
\* its socket, before the new one is welcomed.
Connect(s) ==
  /\ session = NoSession
  /\ handler[s] = "none" /\ \A t \in Session : t < s => handler[t] # "none"
  /\ handler' = [handler EXCEPT ![s] = IF conn = NoSession THEN "registered" ELSE "replacing"]
  /\ conn' = s /\ fresh' = TRUE
  /\ session' = s
  /\ UNCHANGED <<jobVars, active, sending, wireVars, welcomed, queue, work, ledger, hostVars, envVars>>

\* The welcome, activate_session and handle_connected: cancel_requested jobs
\* become recovery jobs, and the Agent is asked about every recovery job.  Its
\* queued jobs are dispatched by the Dispatch actions.
Activate(s) ==
  LET rows == [j \in Jobs |-> IF state[j] = "cancel_requested"
                              THEN Recovery(j, state[j]) ELSE state[j]]
      lost == {j \in Jobs : rows[j] \in {"reconnect_pending", "outcome_unknown"}}
  IN /\ handler[s] \in {"registered", "replacing"}
     /\ handler' = [handler EXCEPT ![s] = "activating"]
     /\ active' = s
     /\ state' = rows
     /\ down' = IF session # s THEN down
                ELSE down \o <<Down("welcome", {})>> \o
                     (IF lost = {} THEN <<>> ELSE <<Down("reconcile", lost)>>)
     /\ UNCHANGED <<intent, cause, lock, conn, fresh, sending, up, agentVars, ledger, hostVars, envVars>>

Opened(s) ==
  /\ handler[s] = "activating"
  /\ handler' = [handler EXCEPT ![s] = "open"]
  /\ UNCHANGED <<jobVars, active, conn, fresh, sending, wireVars, agentVars, ledger, hostVars, envVars>>

\* on_connected raises: the session leaves the registry before the handler's
\* finally clause runs, so its jobs are not moved.
ActivationFails(s) ==
  /\ handler[s] \in {"registered", "replacing", "activating"}
  /\ handler' = [handler EXCEPT ![s] = "closed"]
  /\ up' = [up EXCEPT ![s] = <<>>]
  /\ active' = IF active = s THEN NoSession ELSE active
  /\ conn' = IF conn = s THEN NoSession ELSE conn
  /\ fresh' = (conn = s \/ fresh)
  /\ UNCHANGED <<jobVars, sending, down, agentVars, ledger, hostVars, envVars>>

\* The socket fails, the Agent leaves, or the session was replaced.
HandlerEnds(s) ==
  /\ handler[s] \in {"registered", "replacing", "open"}
  /\ EndHandler(s)
  /\ UNCHANGED <<intent, cause, lock, sending, down, agentVars, ledger, hostVars, envVars>>

-----------------------------------------------------------------------------
(* Messages from the Agent.  "invalid" is the code's invalid_message or      *)
(* InvalidJobTransition: the exception leaves the handler and ends the       *)
(* session, with every in-flight job of the device moved to recovery.        *)

Reading(s, type) ==
  /\ handler[s] = "open" /\ conn = s
  /\ up[s] # <<>> /\ Head(up[s]).type = type

\* Mutant: the move is stored without validate_transition.
StoreUnchecked(s, j, target, word) ==
  /\ Move(j, target, word)
  /\ up' = [up EXCEPT ![s] = Tail(@)]
  /\ UNCHANGED connVars
  /\ target = "invalid" => UNCHANGED lock

\* Take the message and store the move it asks for, or end the session.
Store(s, j, target, word) ==
  IF target = "invalid" THEN EndHandler(s) /\ UNCHANGED <<cause, lock>>
  ELSE /\ Move(j, target, IF target \in Terminal /\ state[j] \notin Terminal
                          THEN word ELSE cause[j])
       /\ up' = [up EXCEPT ![s] = Tail(@)]
       /\ UNCHANGED connVars

AckTarget(j, status) ==
  LET current == state[j]
  IN IF current \in Terminal THEN current
     ELSE CASE status = "accepted" ->
                 (CASE current = "dispatched" -> "acknowledged"
                    [] current \in Started    -> current
                    [] OTHER                  -> "invalid")
            [] status = "rejected" ->
                 IF ValidTransition(current, "failed", j \in Writes, current = "outcome_unknown")
                 THEN "failed" ELSE "invalid"
            [] OTHER ->
                 (CASE current = "dispatched" -> "reconnect_pending"
                    [] current \in Started /\ status = "already_terminal" -> Recovery(j, current)
                    [] OTHER -> current)

\* _handle_ack.  A command the ledger already knew is asked about again.
HandleAck(s) ==
  /\ Reading(s, "ack")
  /\ LET m == Head(up[s])
         j == m.job
         ignored == \/ state[j] \in Terminal
                    \/ m.status \in {"accepted", "rejected"}
                    \/ m.status = "duplicate" /\ state[j] \in Started
     IN /\ Store(s, j, AckTarget(j, m.status), "agent")
        /\ AckTarget(j, m.status) # "invalid" => UNCHANGED lock
        /\ IF ignored THEN UNCHANGED down ELSE SendDown(s, Down("reconcile", {j}))
  /\ UNCHANGED <<intent, sending, agentVars, ledger, hostVars, envVars>>

\* _handle_result and finalize_*: a terminal row accepts only the same outcome
\* again; otherwise the result is the evidence for the move.
ResultTarget(j, status) ==
  LET current == state[j]
      outcome == IF j \in Observes \cap Unproven /\ status = "succeeded" THEN "failed" ELSE status
      unproved == j \in Programs \cap Unproven /\ status = "succeeded"
      checked(target, evidence) ==
        IF ValidTransition(current, target, j \in Writes, evidence) THEN target ELSE "invalid"
  IN IF status = "outcome_unknown" THEN checked(status, FALSE)
     ELSE IF current \in Terminal
          THEN IF current = outcome /\ cause[j] = "agent" THEN current ELSE "invalid"
     ELSE IF ~unproved THEN checked(outcome, TRUE)
     ELSE IF j \in Commits /\ current \in Started \cup {"outcome_unknown"}
          THEN "outcome_unknown" ELSE checked("failed", FALSE)

\* Mutant: a result that leaves the outcome unknown frees the document too.
FinalizeReleases(s, j, status) ==
  LET target == ResultTarget(j, status)
  IN /\ Store(s, j, target, "agent")
     /\ target # "invalid" => Release(j)

\* A final result of a write deletes its lock row.
Finalize(s, j, status) ==
  LET target == ResultTarget(j, status)
  IN /\ Store(s, j, target, "agent")
     /\ target # "invalid" =>
          IF target \in Terminal /\ state[j] \notin Terminal THEN Release(j) ELSE UNCHANGED lock

HandleResult(s) ==
  /\ Reading(s, "result")
  /\ Finalize(s, Head(up[s]).job, Head(up[s]).status)
  /\ UNCHANGED <<intent, sending, down, agentVars, ledger, hostVars, envVars>>

\* Mutant: an unknown outcome the Agent has no record of is sent again.
ReconcileTargetRetries(j, status) ==
  IF status = "not_started" THEN IF intent[j] THEN "cancelled" ELSE "queued"
  ELSE IF state[j] = "reconnect_pending" /\ j \notin Writes
       THEN IF intent[j] THEN "cancel_requested" ELSE "running"
       ELSE "outcome_unknown"

\* Mutant: a started read is sent again, since it changes nothing.
ReconcileTargetRepeatsReads(j, status) ==
  IF state[j] = "reconnect_pending" /\ j \notin Writes THEN "queued" ELSE "outcome_unknown"

\* Mutant: the intent to cancel decides, whatever the Agent has begun.
ReconcileTargetCancels(j, status) ==
  IF intent[j] THEN "cancelled"
  ELSE IF state[j] = "reconnect_pending" /\ status = "not_started" THEN "queued"
  ELSE IF state[j] = "reconnect_pending" /\ j \notin Writes THEN "running" ELSE "outcome_unknown"

\* What the code does with a reconcile answer that is not terminal.
ReconcileTarget(j, status) ==
  CASE state[j] = "outcome_unknown" ->
         IF status = "started" THEN "outcome_unknown" ELSE "needs_attention"
    [] state[j] = "reconnect_pending" /\ status = "not_started" ->
         IF intent[j] THEN "cancelled" ELSE "queued"
    [] state[j] = "reconnect_pending" /\ status = "started" ->
         IF j \in Writes THEN "outcome_unknown"
         ELSE IF intent[j] THEN "cancel_requested" ELSE "running"
    [] OTHER -> "invalid"

\* handle_reconcile_result.  The Agent reports an outcome_unknown entry as
\* failed with that error code; only a write already in outcome_unknown stays so.
HandleReconcileResult(s) ==
  /\ Reading(s, "reconciled")
  /\ LET m == Head(up[s])
         j == m.job
         inconclusive == /\ m.status = "outcome_unknown" /\ state[j] = "outcome_unknown"
                         /\ j \in Commits \cup Rollbacks
         target == ReconcileTarget(j, m.status)
     IN IF m.status \in LedgerTerminal
        THEN /\ IF inconclusive
                THEN /\ up' = [up EXCEPT ![s] = Tail(@)]
                     /\ UNCHANGED <<state, cause, lock, connVars>>
                ELSE Finalize(s, j, IF m.status = "outcome_unknown" THEN "failed" ELSE m.status)
             /\ UNCHANGED down
        ELSE /\ Store(s, j, target, "gateway")
             /\ target # "invalid" => UNCHANGED lock
             /\ IF target # "invalid" /\ m.status = "started" /\ intent[j]
                THEN SendDown(s, Down("cancel", {j})) ELSE UNCHANGED down
  /\ UNCHANGED <<intent, sending, agentVars, ledger, hostVars, envVars>>

-----------------------------------------------------------------------------
\* The Gateway process stops and starts: initialize moves in-flight jobs to
\* recovery; every socket is gone.  Bound: MaxRestart.
GatewayRestart ==
  /\ restarts < MaxRestart
  /\ restarts' = restarts + 1
  /\ state' = Disconnected(state)
  /\ active' = NoSession /\ conn' = NoSession /\ fresh' = TRUE
  /\ handler' = [s \in Session |-> IF handler[s] = "none" THEN "none" ELSE "closed"]
  /\ sending' = NotSending
  /\ up' = [s \in Session |-> <<>>]
  /\ UNCHANGED <<intent, cause, lock, down, agentVars, ledger, hostVars, expired>>
=============================================================================
