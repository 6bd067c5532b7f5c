------------------------------ MODULE Approval ------------------------------
(***************************************************************************)
(* Trusted approval end to end: clients that commit, retry and roll back,  *)
(* the Gateway that asks for approval and releases at most one job per     *)
(* intent, the operator at the Agent or in the portal who decides, over    *)
(* sessions, pauses, revocation and crashes.                               *)
(***************************************************************************)
EXTENDS GatewayAdmission, AgentApprovals

\* Hello and welcome.  The gap between the two is in Delivery; a session is
\* one step here.  A replaced session's decisions are never read.
Connect ==
  /\ opened < MaxSession /\ opened + Cardinality(wanted) <= MaxLoad
  /\ session = NoSession /\ LoopFree /\ ~revoked
  /\ opened' = opened + 1
  /\ session' = opened' /\ cur' = opened'
  /\ Report
  /\ up' = IF cur = NoSession THEN up ELSE [up EXCEPT ![cur] = {}]
  /\ UNCHANGED <<dbVars, portal, rechecked, deciding, inbox, paused, withdrawing, arriving,
                 answering, down, moved, expired, wanted, restarts>>

\* Another hand edits the drawing.
Edit ==
  /\ ~moved /\ moved' = TRUE
  /\ UNCHANGED <<dbVars, procVars, agentVars, wireVars, expired, opened, wanted, restarts>>

Expire(k) ==
  /\ k \in wanted \ expired /\ expired' = expired \cup {k}
  /\ UNCHANGED <<dbVars, procVars, agentVars, wireVars, moved, opened, wanted, restarts>>

Commit(k) == Ask(k) \/ AskSealed(k) \/ AskAgain(k) \/ Retry(k) \/ LapsePreview(k)

Next ==
  \/ \E k \in Keys :
       \/ Commit(k) \/ AskCrashes(k)
       \/ PortalDecide(k) \/ DecideCrashes(k)
       \/ Recheck(k) \/ CommitRollback(k) \/ Vet(k) \/ ReleaseVetted(k)
       \/ JobEnds(k) \/ Expire(k)
       \/ Answer(k) \/ AnswerStale(k)
  \/ \E s \in Session : LocalDecide(s) \/ LocalRefused(s)
  \/ \E verdict \in Verdict : Answered(verdict)
  \/ Heartbeat \/ HandlerEnds \/ Revoke \/ GatewayRestart
  \/ ReceiveRequest \/ Shown \/ ExpirePending \/ Pause \/ Withdraw \/ Resume
  \/ LoseSession \/ AgentRestart \/ Connect \/ Edit

Spec == Init /\ [][Next]_vars

\* A client that wants a commit keeps calling it with the same key.
FairSpec == Spec /\ \A k \in Keys : WF_vars(Commit(k))

-----------------------------------------------------------------------------
(* Safety. *)

\* A verdict the Gateway attributes to the device is one the operator gave
\* there: the Agent has it on record, whatever was withdrawn, replaced or
\* repeated in between (record_decision, local_decide).
VerdictIsTheOperators ==
  \A k \in Keys :
    by[k] = "device" =>
      \E s \in Session :
        inbox[k][s] = IF consent[k] = "denied" THEN "denied" ELSE "approved"

\* No verdict is recorded after set_paused has returned, not even one whose
\* signature was under way when the operator paused (submit_approval_decision).
PauseStopsVerdicts ==
  [][paused /\ ~withdrawing =>
       \A k \in Keys, s \in Session :
         inbox'[k][s] \in Verdict => inbox[k][s] = inbox'[k][s]]_inbox

\* A revoked device is given no new work, not even by an approval it gave
\* before and whose recheck was under way (_revalidate_intent, revoke).
RevokedGetsNoJob ==
  [][revoked => \A k \in Keys : job'[k] = "active" => job[k] = "active"]_job

-----------------------------------------------------------------------------
(* Refinement: what approval promises (Grant). *)

Granted(k) ==
  CASE consent[k] = "requested"   -> "asked"
    [] consent[k] = "approved"    -> "granted"
    [] consent[k] = "denied"      -> "refused"
    [] consent[k] = "invalidated" -> "withdrawn"
    [] consent[k] = "consumed"    -> "spent"
    [] OTHER                      -> "none"

Promise == INSTANCE Grant WITH
             grant    <- [k \in Keys |-> Granted(k)],
             answered <- {k \in Keys : by[k] # "none"},
             work     <- job

\* Every behaviour of the two ends keeps what approval promises.
ImplementsGrant == Promise!Spec

-----------------------------------------------------------------------------
(* What the documents say and the code does not do. *)

\* docs/architecture/Phase-7.md: an exact retry returns the same intent and
\* consent, also after a fault between the two.  So a commit that is repeated
\* and admitted for ever does not stay on an intent without a consent
\* (_create_or_reuse_program_intent).
RetryFindsConsent ==
  \A k \in Programs :
    []<>(Admissible(k) /\ ~revoked /\ intent[k] = "awaiting" => consent[k] # "none")
=============================================================================
