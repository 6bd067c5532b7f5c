------------------------------ MODULE JobStates ------------------------------
(***************************************************************************)
(* The durable job state machine of the Gateway (domain/jobs.py): the      *)
(* states a job row can hold, the moves the table allows, and the check    *)
(* every repository write makes before it stores a new state.              *)
(***************************************************************************)

JobState == {"queued", "dispatched", "acknowledged", "running", "cancel_requested",
             "reconnect_pending", "outcome_unknown",
             "succeeded", "failed", "cancelled", "needs_attention"}

Terminal == {"succeeded", "failed", "cancelled", "needs_attention"}

\* In flight on a session: what a lost session turns into a recovery state.
InFlight == {"dispatched", "acknowledged", "running", "cancel_requested"}

\* The in-flight states in which the Agent may already have begun the work.
Started == {"acknowledged", "running", "cancel_requested"}

Moves(current) ==
  CASE current = "queued"            -> {"dispatched", "cancelled", "failed"}
    [] current = "dispatched"        -> {"acknowledged", "cancel_requested",
                                         "reconnect_pending", "outcome_unknown", "failed"}
    [] current = "acknowledged"      -> {"running", "succeeded", "failed", "cancel_requested",
                                         "reconnect_pending", "outcome_unknown"}
    [] current = "running"           -> {"succeeded", "failed", "cancel_requested",
                                         "outcome_unknown", "reconnect_pending"}
    [] current = "cancel_requested"  -> {"cancelled", "succeeded", "failed",
                                         "outcome_unknown", "reconnect_pending"}
    [] current = "reconnect_pending" -> {"queued", "running", "outcome_unknown", "succeeded",
                                         "failed", "cancelled", "needs_attention"}
    [] current = "outcome_unknown"   -> {"succeeded", "failed", "cancelled", "needs_attention"}
    [] OTHER                         -> {}

\* Moves out of a recovery state that need evidence from the Agent.
NeedsEvidence(current, target) ==
  \/ current = "reconnect_pending" /\ target # "needs_attention"
  \/ current = "outcome_unknown"   /\ target \in {"succeeded", "failed", "cancelled"}

\* validate_transition: does the repository accept this move?
ValidTransition(current, target, isWrite, evidence) ==
  /\ target \in Moves(current)
  /\ NeedsEvidence(current, target) => evidence
  /\ isWrite => /\ ~(current \in Started /\ target = "reconnect_pending")
                /\ ~(current = "reconnect_pending" /\ target = "running")
=============================================================================
