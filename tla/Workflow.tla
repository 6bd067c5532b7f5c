------------------------------ MODULE Workflow ------------------------------
(***************************************************************************)
(* Phase 9 workflows end to end: clients that start, answer and cancel     *)
(* runs, passes that resume them, the actions they dispatch, and the       *)
(* approval and the job behind a commit, over crashes of the Gateway and   *)
(* the withdrawal of the skill.                                            *)
(***************************************************************************)
EXTENDS WorkflowService

\* Trusted approval releases or closes the intent, whatever the run has become
\* (module Approval has the detail).
Decide(r) ==
  /\ serving /\ Quiet /\ intent[r] = "awaiting"
  /\ \/ /\ intent' = [intent EXCEPT ![r] = "released"]
        /\ job' = [job EXCEPT ![r] = "active"]
     \/ /\ intent' = [intent EXCEPT ![r] = "closed"]
        /\ UNCHANGED job
  /\ UNCHANGED <<dbVars, sent, procVars>>

\* The job goes its way (JobDelivery has the detail).
JobMoves(r) ==
  /\ serving /\ Quiet
  /\ \E word \in {"unknown", "succeeded", "failed"} :
       /\ \/ job[r] = "active"
          \/ job[r] = "unknown" /\ word # "unknown"
       /\ job' = [job EXCEPT ![r] = word]
  /\ UNCHANGED <<dbVars, intent, sent, procVars>>

\* The skill is withdrawn or security_revoked in the catalog.
Withdraw ==
  /\ Quiet /\ ~revoked /\ revoked' = TRUE
  /\ UNCHANGED <<run, stepped, review, commit, answered, act, lapsed, worldVars, procVars>>

\* The process stops, and initialize runs a pass before it serves anyone.
Crash ==
  /\ restarts < MaxRestart /\ restarts' = restarts + 1
  /\ task' = [h \in Handlers |-> IF h = "loop" THEN [Idle EXCEPT !.at = "reconcile"] ELSE Idle]
  /\ serving' = FALSE
  /\ UNCHANGED <<dbVars, worldVars, cast>>

\* What a handler does next, once it has the event loop.
Step(h) ==
  \/ Claim(h) \/ Begin(h) \/ Land(h) \/ Reconcile(h)
  \/ NextRun(h) \/ EndPass(h) \/ Resume(h) \/ NextRead(h) \/ ReadBack(h)
  \/ Report(h) \/ Review(h) \/ Close(h)
  \/ Commit(h) \/ CommitBack(h) \/ Asked(h) \/ After(h) \/ AfterTail(h)
  \/ Status(h) \/ Finish(h)

Next ==
  \/ \E h \in Handlers : Step(h) \/ ReadReturns(h) \/ CommitReturns(h) \/ BeginPass(h)
  \/ \E r \in Runs :
       \/ Start(r) \/ Submit(r) \/ Cancel(r) \/ ControlRevoked(r) \/ Decide(r) \/ JobMoves(r)
  \/ \E x \in Slots : Lapse(x)
  \/ Withdraw \/ Crash

Spec == Init /\ [][Next]_vars

\* One event loop, first come first served: a handler that is ready gets its
\* turn, also the loop's timer and the answer it waits for, though others run
\* in between.
Fairness ==
  /\ \A h \in Handlers : WF_vars(Step(h))
  /\ SF_vars(BeginPass("loop")) /\ SF_vars(ReadReturns("loop")) /\ SF_vars(CommitReturns("loop"))

FairSpec == Spec /\ Fairness

-----------------------------------------------------------------------------
(* Safety. *)

\* A commit is dispatched at most once in the life of a run: no lapsed lease,
\* no pass and no restart sends it again (claim_action, reclaim_expired_actions,
\* mark_dispatch_started).
NeverRedispatched == \A r \in Writes : sent[r] <= 1

\* A run that reports success has a job that succeeded, whichever handler put
\* it there and after whatever restart (_reconcile_commit_status).
SucceededMeansCommitted == \A r \in Writes : run[r] = "succeeded" => job[r] = "succeeded"

\* A run is not cancelled over a commit whose dispatch is under way or lost
\* (cancel_run).
StartedWriteNotCancelled ==
  [][\A r \in Writes :
       act[<<r, "commit">>] \in {"started", "outcome_unknown"} /\ run'[r] = "cancelled" =>
         run[r] = "cancelled"]_run

-----------------------------------------------------------------------------
(* Liveness. *)

\* The run of a commit whose job succeeded comes to an end, also when the
\* process stopped before the intent was recorded -- unless an exception has
\* ended the maintenance loop (maintenance_once, reconcile_restart).
SuccessIsReported ==
  \A r \in Writes :
    job[r] = "succeeded" ~> run[r] \in RunOver \/ task["loop"].at = "dead"

-----------------------------------------------------------------------------
(* What the documents say and the code does not do. *)

\* docs/architecture/Phase-9.md: waiting for the user's input is never completed
\* automatically.  So no commit is dispatched before the user has answered the
\* review (_resume_write_run).
ReviewIsAnswered == \A r \in Writes \cap Reviewed : sent[r] > 0 => r \in answered

\* docs/architecture/Phase-9.md: a started write is not considered cancelled; it
\* moves to recovery or needs attention.  So a run is not cancelled over a
\* commit whose job is under way, unknown or done (cancel_run).
CancelSparesWrites ==
  [][\A r \in Writes :
       job[r] \in {"active", "unknown", "succeeded"} /\ run'[r] = "cancelled" =>
         run[r] = "cancelled"]_run
=============================================================================
