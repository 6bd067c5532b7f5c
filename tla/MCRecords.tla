------------------------------ MODULE MCRecords ------------------------------
(***************************************************************************)
(* What three parties record of writes, for TLC: the two ends of delivery  *)
(* in the casts of MCJobDelivery, the drawing itself, and the Gateway in   *)
(* recovery.  Each behaviour is one of one of them, chosen at the start.   *)
(***************************************************************************)
EXTENDS MCJobDelivery, HostDrawing, Recovery, TLC

VARIABLE recorder     \* the party that is followed

\* Every rollback is one of the same plan, under a key of its own.
MCPlanOf == [r \in RollbackJobs |-> CHOOSE p \in Plans : TRUE]

MCRollbacks == Permutations(RollbackJobs)

\* The casts of delivery; in recovery a stop of the Gateway, or every rollback.
Casts == OneCast /\ (stopped' = 0 \/ \E r \in RollbackJobs : recoveryState'[r] = None)

RecordsInit ==
  /\ recorder \in {"delivery", "drawing", "recovery"}
  /\ Init /\ DrawingInit /\ RecoveryInit
  /\ recorder # "drawing" => family = "copy"
  /\ recorder # "recovery" => casesEnabled

DeliveryRuns ==
  /\ recorder = "delivery" /\ Next
  /\ UNCHANGED <<recorder, drawingVars, recoveryVars>>
DrawingRuns ==
  /\ recorder = "drawing" /\ DrawingNext
  /\ UNCHANGED <<recorder, vars, recoveryVars>>
RecoveryRuns ==
  /\ recorder = "recovery" /\ RecoveryNext
  /\ UNCHANGED <<recorder, vars, drawingVars>>

RecordsNext == DeliveryRuns \/ DrawingRuns \/ RecoveryRuns
RecordsSpec == RecordsInit /\ [][RecordsNext]_<<recorder, vars, drawingVars, recoveryVars>>
=============================================================================
