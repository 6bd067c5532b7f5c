---------------------------- MODULE DesktopAgent -----------------------------
(***************************************************************************)
(* The Desktop Agent's half of job delivery (core.py over ledger.py): a    *)
(* receiver task that queues commands and answers cancels and reconciles,  *)
(* a worker task that records, acknowledges, runs and reports one command  *)
(* at a time, and the session around them.  Between two awaits of the      *)
(* worker the receiver may run.  The CAD Host is external.                 *)
(***************************************************************************)
EXTENDS Delivery

Record(j, entry) == ledger' = [ledger EXCEPT ![j] = entry]

\* The session's tasks stop; a command in execution is abandoned where it is,
\* and the next session starts with an empty queue.
LeaveSession ==
  /\ session' = NoSession /\ welcomed' = FALSE
  /\ down' = <<>> /\ queue' = <<>> /\ work' = Idle

\* The connection fails or a task raises.
Drop ==
  /\ session # NoSession
  /\ LeaveSession
  /\ UNCHANGED <<jobVars, connVars, sending, up, ledger, hostVars, envVars>>

-----------------------------------------------------------------------------
(* The receiver.                                                           *)

Receiving(type) == session # NoSession /\ down # <<>> /\ Head(down).type = type

ReceiveWelcome ==
  /\ Receiving("welcome") /\ ~welcomed
  /\ welcomed' = TRUE /\ down' = Tail(down)
  /\ UNCHANGED <<jobVars, connVars, sending, up, session, queue, work, ledger, hostVars, envVars>>

\* Anything else before the welcome raises, and the session is lost.
ReceiveEarly ==
  /\ session # NoSession /\ down # <<>> /\ ~welcomed /\ Head(down).type # "welcome"
  /\ LeaveSession
  /\ UNCHANGED <<jobVars, connVars, sending, up, ledger, hostVars, envVars>>

\* Mutant: a full queue drops the command in silence.
ReceiveCommandOrDrop ==
  /\ Receiving("command") /\ welcomed
  /\ down' = Tail(down)
  /\ \E j \in Head(down).jobs :
       queue' = IF Len(queue) < QueueSize THEN Append(queue, j) ELSE queue
  /\ UNCHANGED <<jobVars, connVars, sending, up, session, welcomed, work, ledger, hostVars, envVars>>

\* _receive_loop: a full queue rejects the command without a ledger entry.
ReceiveCommand ==
  /\ Receiving("command") /\ welcomed
  /\ down' = Tail(down)
  /\ \E j \in Head(down).jobs :
       IF Len(queue) < QueueSize
       THEN queue' = Append(queue, j) /\ UNCHANGED up
       ELSE SendUp(<<Up("ack", j, "rejected")>>) /\ UNCHANGED queue
  /\ UNCHANGED <<jobVars, connVars, sending, session, welcomed, work, ledger, hostVars, envVars>>

\* Mutant: a command that has started is cancelled as well.
ReceiveCancelStarted ==
  /\ Receiving("cancel") /\ welcomed
  /\ down' = Tail(down)
  /\ \E j \in Head(down).jobs :
       IF ledger[j] \in {"received", "accepted", "started"}
       THEN Record(j, "cancelled") /\ SendUp(<<Up("result", j, "cancelled")>>)
       ELSE UNCHANGED <<ledger, up>>
  /\ UNCHANGED <<jobVars, connVars, sending, session, welcomed, queue, work, hostVars, envVars>>

\* _handle_cancel: only an entry that has not started can still be cancelled.
ReceiveCancel ==
  /\ Receiving("cancel") /\ welcomed
  /\ down' = Tail(down)
  /\ \E j \in Head(down).jobs :
       IF ledger[j] \in {"received", "accepted"}
       THEN Record(j, "cancelled") /\ SendUp(<<Up("result", j, "cancelled")>>)
       ELSE UNCHANGED <<ledger, up>>
  /\ UNCHANGED <<jobVars, connVars, sending, session, welcomed, queue, work, hostVars, envVars>>

\* _handle_reconcile: one answer per command, each write an await.
ReceiveReconcile ==
  /\ Receiving("reconcile") /\ welcomed
  /\ \E j \in Head(down).jobs :
       /\ SendUp(<<Up("reconciled", j, ReconcileStatus(ledger[j]))>>)
       /\ down' = IF Head(down).jobs = {j} THEN Tail(down)
                  ELSE <<Down("reconcile", Head(down).jobs \ {j})>> \o Tail(down)
  /\ UNCHANGED <<jobVars, connVars, sending, session, welcomed, queue, work, ledger, hostVars, envVars>>

-----------------------------------------------------------------------------
(* The worker. *)

Take(j) == work.at = "idle" /\ queue # <<>> /\ Head(queue) = j /\ queue' = Tail(queue)

\* A command the ledger knows as started or terminal is not run again.
AnswerKnown(j) ==
  /\ Take(j)
  /\ ledger[j] \in {"started"} \cup LedgerTerminal
  /\ SendUp(IF ledger[j] = "started" THEN <<Up("ack", j, "duplicate")>>
            ELSE <<Up("ack", j, "already_terminal"), Up("result", j, ledger[j])>>)
  /\ UNCHANGED <<jobVars, connVars, sending, down, session, welcomed, work, ledger, hostVars, envVars>>

\* Paused, write lock off, or validate_command raises.  A Host command is
\* recorded as failed before it is rejected, a File IPC one only afterwards.
Refuse(j) ==
  /\ Take(j)
  /\ ledger[j] \in {"none", "received", "accepted"}
  /\ IF j \in Observes
     THEN /\ Record(j, IF ledger[j] = "none" THEN "received" ELSE ledger[j])
          /\ work' = [at |-> "rejecting", job |-> j]
          /\ SendUp(<<Up("ack", j, "rejected")>>)
     ELSE /\ Record(j, "failed")
          /\ UNCHANGED work
          /\ SendUp(<<Up("ack", j, "rejected"), Up("result", j, "failed")>>)
  /\ UNCHANGED <<jobVars, connVars, sending, down, session, welcomed, hostVars, envVars>>

\* The worker resumes after a write: transition() raises if a cancel came first.
Resume(entry) ==
  LET j == work.job
  IN IF CanMove(ledger[j], entry)
     THEN Record(j, entry)
     ELSE UNCHANGED ledger

\* Of a refused File IPC command only: a Host command was recorded before.
RejectDone ==
  \E j \in Observes :
    /\ work = [at |-> "rejecting", job |-> j]
    /\ Resume("failed")
    /\ IF CanMove(ledger[j], "failed")
       THEN work' = Idle /\ UNCHANGED <<session, welcomed, down, queue>>
       ELSE LeaveSession
    /\ UNCHANGED <<jobVars, connVars, sending, up, hostVars, envVars>>

\* Mutant: the ack goes out before the ledger knows.
AcceptUnrecorded(j) ==
  /\ Take(j) /\ ~expired[j]
  /\ ledger[j] \in {"none", "received", "accepted"}
  /\ SendUp(<<Up("ack", j, "accepted")>>)
  /\ work' = [at |-> "acking", job |-> j]
  /\ UNCHANGED <<jobVars, connVars, sending, down, session, welcomed, ledger, hostVars, envVars>>

Accept(j) ==
  /\ Take(j) /\ ~expired[j]
  /\ ledger[j] \in {"none", "received", "accepted"}
  /\ Record(j, "accepted")
  /\ SendUp(<<Up("ack", j, "accepted")>>)
  /\ work' = [at |-> "acking", job |-> j]
  /\ UNCHANGED <<jobVars, connVars, sending, down, session, welcomed, hostVars, envVars>>

\* Recorded as started, then handed to the Host unless the deadline came first.
Start ==
  LET j == work.job
  IN /\ work.at = "acking"
     /\ Resume("started")
     /\ IF CanMove(ledger[j], "started")
        THEN /\ work' = [at |-> "executing", job |-> j]
             /\ IF expired[j] THEN UNCHANGED hostVars
                ELSE /\ host' = [host EXCEPT ![j] = "running"]
                     /\ runs' = [runs EXCEPT ![j] = @ + 1]
             /\ UNCHANGED <<session, welcomed, down, queue>>
        ELSE LeaveSession /\ UNCHANGED hostVars
     /\ UNCHANGED <<jobVars, connVars, sending, up, envVars>>

\* Mutant: a reply counts as success without a look at result.ok.
EndingsOnAnyReply(j) ==
  CASE host[j] \in {"applied", "refused"} -> {"succeeded"}
    [] OTHER -> {"failed"}

\* Mutant: no answer is recorded as a failure, whatever the kind.
EndingsWithoutUnknown(j) ==
  IF host[j] = "applied" THEN {"succeeded", "failed"} ELSE {"failed"}

\* How execute() can end: with the Host's answer, or without it (a timeout, a
\* broken pipe, a bad reply), which only a commit or a rollback records as unknown.
Endings(j) ==
  LET lost == IF j \in Commits \cup Rollbacks THEN {"outcome_unknown"} ELSE {"failed"}
  IN CASE host[j] = "applied" -> (IF j \in Unverified THEN {"failed"} ELSE {"succeeded"}) \cup lost
       [] host[j] = "refused" -> {"failed"} \cup lost
       [] OTHER               -> lost

Finish ==
  /\ work.at = "executing"
  /\ \E entry \in Endings(work.job) :
       /\ Record(work.job, entry)
       /\ SendUp(<<Up("result", work.job, entry)>>)
  /\ work' = Idle
  /\ UNCHANGED <<jobVars, connVars, sending, down, session, welcomed, queue, hostVars, envVars>>

-----------------------------------------------------------------------------
\* Mutant: what was started is put back to be resumed.
RecoveredAsAccepted(j) == IF ledger[j] = "started" THEN "accepted" ELSE ledger[j]

\* The process stops and starts: recover_interrupted_programs settles what was
\* started, except a read over File IPC and a rollback.  Bound: MaxRestart.
Recovered(j) ==
  IF ledger[j] # "started" THEN ledger[j]
  ELSE CASE j \in Commits               -> "outcome_unknown"
         [] j \in Previews \cup Validates -> "failed"
         [] OTHER                       -> "started"

AgentRestart ==
  /\ restarts < MaxRestart
  /\ restarts' = restarts + 1
  /\ LeaveSession
  /\ ledger' = [j \in Jobs |-> Recovered(j)]
  /\ UNCHANGED <<jobVars, connVars, sending, up, hostVars, expired>>

-----------------------------------------------------------------------------
(* The CAD Host: it carries a command out or refuses it, whoever still waits. *)

HostEnds(j) ==
  /\ host[j] = "running"
  /\ \E outcome \in {"applied", "refused"} : host' = [host EXCEPT ![j] = outcome]
  /\ UNCHANGED <<jobVars, connVars, sending, wireVars, agentVars, ledger, runs, envVars>>
=============================================================================
