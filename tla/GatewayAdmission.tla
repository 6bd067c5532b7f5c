-------------------------- MODULE GatewayAdmission --------------------------
(***************************************************************************)
(* The Gateway's half of trusted approval: Phase7AdmissionService          *)
(* (phase7_admission.py), the intent, consent and release transactions of  *)
(* phase7_repository.py, and the Phase 8 entry (durable_services.py).      *)
(*                                                                         *)
(* The repositories never suspend and the registry's lock is never held    *)
(* across an await, so a handler is one step up to a round trip to the     *)
(* device, which only a rollback makes.  A crash falls between any two of  *)
(* its transactions.                                                       *)
(***************************************************************************)
EXTENDS ApprovalState

\* A session whose heartbeats have stopped counts as none.
Online == cur # NoSession

\* What _revalidate_program and the pause check accept.
Fit == Online /\ ~seen /\ ~held

Store(k, i, c) ==
  /\ intent' = [intent EXCEPT ![k] = i]
  /\ consent' = [consent EXCEPT ![k] = c]

\* The session's handler is over: the registry forgets it, unread decisions are lost.
Closed ==
  /\ cur' = NoSession /\ held' = FALSE /\ seen' = FALSE
  /\ up' = IF cur = NoSession THEN up ELSE [up EXCEPT ![cur] = {}]

\* The process stops; the next one may run with another approval policy.
Crashed ==
  /\ restarts < MaxRestart /\ restarts' = restarts + 1
  /\ Closed
  /\ portal' \in BOOLEAN
  /\ rechecked' = {} /\ deciding' = [k \in Keys |-> "no"]
  /\ down' = [s \in Session |-> {}]

-----------------------------------------------------------------------------
(* Asking: an intent is created, then its consent, in two transactions. *)

Assurance == IF portal THEN "portal" ELSE "local"

NewIntent(k, word) ==
  /\ intent[k] = "none" /\ ~revoked
  /\ assurance' = [assurance EXCEPT ![k] = word]

\* dispatch_local_request: the write to the socket may fail or time out.
SendRequest(k) ==
  \/ down' = [down EXCEPT ![cur] = @ \cup {k}]
  \/ UNCHANGED down

\* cad_commit reaches the intent only past the receipt, the preview and the
\* session checks.
Admissible(k) ==
  /\ k \in wanted /\ k \notin expired
  /\ ~HasReceipt(SubjectOf[k]) /\ SubjectOf[k] \notin staled /\ Fit

\* commit: the first call with this key.
Ask(k) ==
  /\ k \in Programs /\ Admissible(k) /\ NewIntent(k, Assurance)
  /\ Store(k, "awaiting", "requested")
  /\ IF portal THEN UNCHANGED down ELSE SendRequest(k)
  /\ UNCHANGED <<by, bound, job, lock, staled, revoked, procVars, agentVars, up, worldVars>>

\* create_phase8_commit_intent: a sealed plan is bound to one intent for ever.
PlanTaken(k) == \E j \in bound : SubjectOf[j] = SubjectOf[k]

AskSealed(k) ==
  /\ k \in Sealed /\ k \in wanted /\ k \notin expired /\ Fit /\ NewIntent(k, Assurance)
  /\ IF PlanTaken(k)
     THEN Store(k, "awaiting", "none") /\ UNCHANGED <<bound, down>>
     ELSE /\ Store(k, "awaiting", "requested")
          /\ bound' = bound \cup {k}
          /\ IF portal THEN UNCHANGED down ELSE SendRequest(k)
  /\ UNCHANGED <<by, job, lock, staled, revoked, procVars, agentVars, up, worldVars>>

\* The process stops between the intent's transaction and the consent's.
AskCrashes(k) ==
  /\ \/ k \in Programs /\ Admissible(k) /\ NewIntent(k, Assurance) /\ UNCHANGED bound
     \/ /\ k \in Sealed /\ k \in wanted /\ k \notin expired /\ Fit
        /\ NewIntent(k, Assurance)
        /\ \/ UNCHANGED bound
           \/ ~PlanTaken(k) /\ bound' = bound \cup {k}
     \/ k \in rechecked /\ NewIntent(k, "portal") /\ UNCHANGED bound
  /\ Store(k, "awaiting", "none")
  /\ Crashed
  /\ UNCHANGED <<by, job, lock, staled, revoked, agentVars, moved, expired, opened, wanted>>

\* commit, on a preview that has expired or whose revision has been passed.
LapsePreview(k) ==
  /\ k \in Programs \cap wanted
  /\ ~HasReceipt(SubjectOf[k]) /\ SubjectOf[k] \notin staled
  /\ k \in expired \/ (Online /\ seen)
  /\ staled' = staled \cup {SubjectOf[k]}
  /\ UNCHANGED <<intent, consent, by, assurance, bound, job, lock, revoked,
                 procVars, agentVars, wireVars, worldVars>>

-----------------------------------------------------------------------------
(* Releasing. *)

\* The lock of a job that is over is evicted.
Free == lock = NoKey \/ ~Active(lock)

\* Mutant: the job is inserted and committed before the lock is looked at.
TryReleaseInSteps(k) ==
  /\ job' = [job EXCEPT ![k] = "active"]
  /\ IF Free THEN Store(k, "released", "consumed") /\ lock' = k
     ELSE Store(k, "awaiting", "approved") /\ UNCHANGED lock

\* release_intent: the job, the consumed consent, the lock and the intent in
\* one transaction, or document_write_busy and the approval stays.
TryRelease(k) ==
  IF Free
  THEN /\ Store(k, "released", "consumed")
       /\ job' = [job EXCEPT ![k] = "active"]
       /\ lock' = k
  ELSE Store(k, "awaiting", "approved") /\ UNCHANGED <<job, lock>>

\* Mutant: the approval is taken for granted.
RetryUnapproved(k) ==
  /\ k \in Programs /\ Admissible(k) /\ ~revoked
  /\ intent[k] = "awaiting" /\ consent[k] \in {"requested", "approved"}
  /\ TryRelease(k)
  /\ UNCHANGED <<by, assurance, bound, staled, revoked, procVars, agentVars, wireVars, worldVars>>

\* commit, called again on an approved consent that is not released yet.
Retry(k) ==
  /\ k \in Programs /\ Admissible(k) /\ ~revoked
  /\ intent[k] = "awaiting" /\ consent[k] = "approved"
  /\ TryRelease(k)
  /\ UNCHANGED <<by, assurance, bound, staled, revoked, procVars, agentVars, wireVars, worldVars>>

\* commit, called again while the operator is asked: the request is sent again.
AskAgain(k) ==
  /\ k \in Programs /\ Admissible(k)
  /\ intent[k] = "awaiting" /\ consent[k] = "requested" /\ assurance[k] = "local"
  /\ SendRequest(k)
  /\ UNCHANGED <<dbVars, procVars, agentVars, up, worldVars>>

\* _approve_and_release after the consent is approved.  A program that no longer
\* fits is invalidated; a sealed plan is not; a rollback first asks the device.
Approve(k) ==
  \/ /\ k \in Programs /\ ~Fit
     /\ Store(k, "invalidated", "invalidated")
     /\ staled' = IF Online /\ seen THEN staled \cup {SubjectOf[k]} ELSE staled
     /\ UNCHANGED <<job, lock, deciding>>
  \/ /\ k \in Programs \cup Sealed /\ Fit /\ ~revoked
     /\ TryRelease(k)
     /\ UNCHANGED <<staled, deciding>>
  \/ /\ \/ k \in Programs /\ Fit /\ revoked
        \/ k \in Sealed /\ (~Fit \/ revoked)
     /\ Store(k, "awaiting", "approved")
     /\ UNCHANGED <<job, lock, staled, deciding>>
  \/ /\ k \in Rollbacks
     /\ Store(k, "awaiting", "approved")
     /\ deciding' = [deciding EXCEPT ![k] = "waiting"]
     /\ UNCHANGED <<job, lock, staled>>

\* portal_decide and local_decide, once their own checks have passed.
Decide(k, verdict, source) ==
  /\ consent[k] = "requested" /\ k \notin expired
  /\ by' = [by EXCEPT ![k] = source]
  /\ IF verdict = "denied"
     THEN Store(k, "denied", "denied") /\ UNCHANGED <<job, lock, staled, deciding>>
     ELSE Approve(k)

PortalDecide(k) ==
  /\ portal
  /\ \E verdict \in Verdict : Decide(k, verdict, "portal")
  /\ UNCHANGED <<assurance, bound, revoked, portal, cur, held, seen, rechecked,
                 agentVars, wireVars, worldVars>>

\* local_decide, in the receive loop of session s.  A verdict that is accepted
\* but releases nothing raises like a refused one and ends the session.
LocalDecide(s) ==
  /\ cur = s /\ ~revoked
  /\ \E k \in Keys, verdict \in Verdict :
       /\ <<k, verdict>> \in up[s]
       /\ Decide(k, verdict, "device")
       /\ IF verdict = "denied" \/ intent'[k] = "released"
          THEN up' = [up EXCEPT ![s] = @ \ {<<k, verdict>>}] /\ UNCHANGED <<cur, held, seen>>
          ELSE Closed
  /\ UNCHANGED <<assurance, bound, revoked, portal, rechecked, agentVars, down, worldVars>>

\* Refused: replayed, expired, stale, revoked, or the request rebuilt from the
\* registry no longer has the digest the operator saw.
LocalRefused(s) ==
  /\ cur = s /\ up[s] # {}
  /\ Closed
  /\ UNCHANGED <<dbVars, portal, rechecked, deciding, agentVars, down, worldVars>>

\* The process stops between the verdict's transaction and what follows it.
DecideCrashes(k) ==
  /\ consent[k] = "requested" /\ k \notin expired
  /\ \E verdict \in Verdict :
       /\ \/ portal /\ by' = [by EXCEPT ![k] = "portal"]
          \/ /\ Online /\ ~revoked /\ <<k, verdict>> \in up[cur]
             /\ by' = [by EXCEPT ![k] = "device"]
       /\ Store(k, "awaiting", verdict)
  /\ Crashed
  /\ UNCHANGED <<assurance, bound, job, lock, staled, revoked, agentVars, moved, expired, opened, wanted>>

-----------------------------------------------------------------------------
(* Rollbacks: the device is asked for the document's revision first. *)

Recheck(k) ==
  /\ k \in Rollbacks \cap wanted /\ k \notin expired
  /\ Online /\ ~revoked /\ ~moved
  /\ rechecked' = rechecked \cup {k}
  /\ UNCHANGED <<dbVars, portal, cur, held, seen, deciding, agentVars, wireVars, worldVars>>

\* commit_rollback, once the recheck is back.
CommitRollback(k) ==
  /\ k \in rechecked /\ rechecked' = rechecked \ {k}
  /\ \/ /\ ~HasReceipt(SubjectOf[k]) /\ NewIntent(k, "portal")
        /\ Store(k, "awaiting", "requested")
        /\ UNCHANGED <<job, lock>>
     \/ /\ ~HasReceipt(SubjectOf[k]) /\ k \notin expired /\ ~revoked
        /\ intent[k] = "awaiting" /\ consent[k] = "approved"
        /\ TryRelease(k)
        /\ UNCHANGED assurance
     \/ /\ \/ HasReceipt(SubjectOf[k])
           \/ intent[k] = "none" /\ revoked
           \/ intent[k] # "none" /\ consent[k] # "approved"
           \/ consent[k] = "approved" /\ (k \in expired \/ revoked \/ intent[k] # "awaiting")
        /\ UNCHANGED <<intent, consent, assurance, job, lock>>
  /\ UNCHANGED <<by, bound, staled, revoked, portal, cur, held, seen, deciding,
                 agentVars, wireVars, worldVars>>

\* The approval's own recheck comes back, or fails and leaves the approval.
Vet(k) ==
  /\ deciding[k] = "waiting"
  /\ \/ Online /\ ~moved /\ deciding' = [deciding EXCEPT ![k] = "vetted"]
     \/ deciding' = [deciding EXCEPT ![k] = "no"]
  /\ UNCHANGED <<dbVars, portal, cur, held, seen, rechecked, agentVars, wireVars, worldVars>>

\* Mutant: the device's identity is not read again after the recheck.
ReleaseVettedRevoked(k) ==
  /\ deciding[k] = "vetted" /\ deciding' = [deciding EXCEPT ![k] = "no"]
  /\ IF intent[k] = "awaiting" /\ consent[k] = "approved" /\ k \notin expired
     THEN TryRelease(k)
     ELSE UNCHANGED <<intent, consent, job, lock>>
  /\ UNCHANGED <<by, assurance, bound, staled, revoked, portal, cur, held, seen,
                 rechecked, agentVars, wireVars, worldVars>>

\* _approve_and_release of a rollback, after its recheck: an exact commit may
\* have released the intent meanwhile.
ReleaseVetted(k) ==
  /\ deciding[k] = "vetted" /\ deciding' = [deciding EXCEPT ![k] = "no"]
  /\ IF intent[k] = "awaiting" /\ consent[k] = "approved" /\ k \notin expired /\ ~revoked
     THEN TryRelease(k)
     ELSE UNCHANGED <<intent, consent, job, lock>>
  /\ UNCHANGED <<by, assurance, bound, staled, revoked, portal, cur, held, seen,
                 rechecked, agentVars, wireVars, worldVars>>

-----------------------------------------------------------------------------
(* The rest of the Gateway, as far as approvals depend on it. *)

\* A released job ends (JobDelivery has the detail).  The Host refuses a commit
\* on another revision unless it already holds the receipt; the deadline sweep
\* fails a job without releasing its lock.
JobEnds(k) ==
  /\ Active(k)
  /\ \/ /\ ~moved \/ HasReceipt(SubjectOf[k])
        /\ job' = [job EXCEPT ![k] = "succeeded"]
        /\ moved' = TRUE /\ lock' = NoKey
     \/ /\ job' = [job EXCEPT ![k] = "failed"]
        /\ lock' \in {lock, NoKey} /\ UNCHANGED moved
  /\ UNCHANGED <<intent, consent, by, assurance, bound, staled, revoked, procVars, agentVars,
                 wireVars, expired, opened, wanted, restarts>>

\* Hello and heartbeats carry the pause flag and the revision.
Report == held' = paused /\ seen' = moved

Heartbeat ==
  /\ cur # NoSession /\ session = cur
  /\ Report
  /\ UNCHANGED <<dbVars, portal, cur, rechecked, deciding, agentVars, wireVars, worldVars>>

HandlerEnds ==
  /\ cur # NoSession
  /\ Closed
  /\ UNCHANGED <<dbVars, portal, rechecked, deciding, agentVars, down, worldVars>>

\* revoke commits first and closes the session later (HandlerEnds).
Revoke ==
  /\ ~revoked /\ revoked' = TRUE
  /\ UNCHANGED <<intent, consent, by, assurance, bound, job, lock, staled,
                 procVars, agentVars, wireVars, worldVars>>

GatewayRestart ==
  /\ Crashed
  /\ UNCHANGED <<dbVars, agentVars, moved, expired, opened, wanted>>
=============================================================================
