--------------------------- MODULE ProgramProofs ---------------------------
(***************************************************************************)
(* Proofs about what the Gateway keeps of programs, plans and scenes: the  *)
(* recovery of writes (Recovery), CAD programs (CadPrograms), sealed plans *)
(* (SealedPlans), dimension plans (DimensionPlans), the contract of the    *)
(* two ends (ProgramContract) and scenes (Scenes).  The components are     *)
(* proved one after the other; none depends on another.                    *)
(***************************************************************************)
EXTENDS Recovery, CadPrograms, SealedPlans, DimensionPlans, ProgramContract, Scenes,
        SequenceTheorems, FiniteSetTheorems, TLAPS

-----------------------------------------------------------------------------
(* Recovery cases.                                                         *)

\* What a step may do to the rows and cases: a write is left unknown, or needing
\* attention, with a case, or by a stop, or to be asked about, or as it was before
\* with no answer taken.
Accounted ==
  /\ casesEnabled' = casesEnabled
  /\ interrupted \subseteq interrupted'
  /\ \A k \in WriteJobs :
       /\ recoveryCase[k] # None => recoveryCase'[k] # None
       /\ recoveryState'[k] \in Unsettled /\ casesEnabled =>
            \/ recoveryState[k] \in Unsettled /\ (k \in unanswered => k \in unanswered')
            \/ k \in interrupted' \cup unanswered' \/ recoveryCase'[k] # None

RecoveryInv == RecoveryTypeOK /\ UnknownHasCase

LEMMA RecoveryInitially == RecoveryInit => RecoveryInv
<1> SUFFICES ASSUME RecoveryInit PROVE RecoveryInv
  OBVIOUS
<1> USE DEF RecoveryInit
<1>1. /\ recoveryState = [j \in WriteJobs |-> None] /\ agentRecord = [j \in WriteJobs |-> None]
      /\ recoveryCase = [j \in WriteJobs |-> None] /\ evidence = [j \in WriteJobs |-> None]
      /\ plan = [p \in Plans |-> None] /\ planReceipt = [p \in Plans |-> None]
  OBVIOUS
<1>2. RecoveryTypeOK
  <2>1. /\ recoveryState \in [WriteJobs -> RowStates]
        /\ agentRecord \in [WriteJobs -> {None, "started"} \cup Ended]
        /\ recoveryCase \in [WriteJobs -> {None, "open", "resolved"}]
        /\ evidence \in [WriteJobs -> {None, "committed", "rolled_back", "aborted"}]
    BY <1>1 DEF RowStates
  <2>2. /\ plan \in [Plans -> {None, "eligible", "conflict", "expired"}]
        /\ planReceipt \in [Plans -> RollbackJobs \cup {None}]
    BY <1>1
  <2>3. /\ proof \in [WriteJobs -> Proofs]
        /\ stopped \in 0 .. MaxStopped
    BY PlanOfAssumption DEF Proofs
  <2> QED
    BY <2>1, <2>2, <2>3 DEF RecoveryTypeOK
<1>3. UnknownHasCase
  BY <1>1 DEF UnknownHasCase, Unsettled, None
<1> QED
  BY <1>2, <1>3 DEF RecoveryInv

\* A row that is stored: the others stay.
LEMMA OneRow ==
  ASSUME RecoveryTypeOK, NEW j \in WriteJobs, NEW s
  PROVE  \A k \in WriteJobs : RowAs(j, s)[k] = IF k = j THEN s ELSE recoveryState[k]
  BY DEF RecoveryTypeOK, RowAs

LEMMA EscalateAccounted ==
  ASSUME RecoveryTypeOK, NEW states, NEW jobs, NEW about, Escalate(states, jobs, about),
         casesEnabled' = casesEnabled,
         \A k \in WriteJobs : states[k] \in Unsettled =>
           (recoveryState[k] \in Unsettled /\ k \notin about) \/ k \in jobs \/ ~casesEnabled
  PROVE  Accounted
<1>1. CASE StopsAt(states)
  BY <1>1 DEF StopsAt, Accounted, RecoveryTypeOK
<1>2. CASE /\ recoveryState' = states /\ recoveryCase' = CasesOpened(jobs)
           /\ unanswered' = unanswered \ about /\ UNCHANGED <<stopped, interrupted, recheckedJobs>>
  BY <1>2 DEF Accounted, CasesOpened, NewCase, RecoveryTypeOK, None
<1> QED
  BY <1>1, <1>2 DEF Escalate

LEMMA FrozenAccounted ==
  ASSUME RecoveryTypeOK, NEW j \in WriteJobs, Frozen(j)
  PROVE  Accounted
<1>0. casesEnabled' = casesEnabled
  BY DEF Frozen, beyondRows
<1>1. CASE casesEnabled /\ Escalate(RowAs(j, "needs_attention"), {j}, {j})
  BY <1>0, <1>1, OneRow, EscalateAccounted
<1>2. CASE StopsAt(RowAs(j, "outcome_unknown"))
  BY <1>0, <1>2 DEF StopsAt, Accounted, RecoveryTypeOK
<1>3. CASE ~casesEnabled /\ Escalate(recoveryState, {}, {j})
  BY <1>0, <1>3, EscalateAccounted
<1> QED
  BY <1>1, <1>2, <1>3 DEF Frozen

LEMMA SessionLostAccounted ==
  ASSUME RecoveryTypeOK, SessionLost
  PROVE  Accounted
<1>1. \A k \in WriteJobs : AllUnheard(recoveryState)[k] \in Unsettled =>
        \/ AllUnheard(recoveryState)[k] = recoveryState[k]
        \/ k \in BecameUnknown(AllUnheard(recoveryState))
  BY DEF AllUnheard, BecameUnknown, Unheard, Unsettled
<1>2. casesEnabled' = casesEnabled
  BY DEF SessionLost, beyondRows
<1> QED
  BY <1>1, <1>2, EscalateAccounted DEF SessionLost

LEMMA EndsAccounted ==
  ASSUME RecoveryTypeOK, NEW j \in WriteJobs, NEW s \in {"succeeded", "failed", "cancelled"}, Ends(j, s)
  PROVE  Accounted
  BY OneRow DEF Ends, Accounted, Unsettled

LEMMA ProvenAccounted ==
  ASSUME RecoveryTypeOK, NEW j \in WriteJobs,
         Proven(j) \/ Stands(j, "failed") \/ Stands(j, "cancelled")
  PROVE  Accounted
  BY EndsAccounted DEF Proven, Stands, Materialize, RecordRollback, WriteJobs

LEMMA UnprovenAccounted ==
  ASSUME RecoveryTypeOK, NEW j \in WriteJobs, UnprovenCommit(j)
  PROVE  Accounted
  BY FrozenAccounted, SessionLostAccounted, OneRow, EscalateAccounted DEF UnprovenCommit, beyondRows

LEMMA SettlesAccounted ==
  ASSUME RecoveryTypeOK, NEW j \in WriteJobs, Settles(j)
  PROVE  Accounted
  BY ProvenAccounted, UnprovenAccounted, SessionLostAccounted DEF Settles

LEMMA RowsAccounted ==
  ASSUME RecoveryTypeOK, [RecoveryNext]_recoveryVars
  PROVE  Accounted
<1>1. ASSUME UNCHANGED <<recoveryState, recoveryCase, interrupted, unanswered, casesEnabled>>
      PROVE  Accounted
  BY <1>1 DEF Accounted
<1>2. CASE UNCHANGED recoveryVars
  BY <1>1, <1>2 DEF recoveryVars
<1>3. ASSUME NEW j \in WriteJobs, ReleaseWrite(j) PROVE Accounted
  BY <1>3, OneRow DEF ReleaseWrite, RecordsKept, CasesKept, Accounted, Unsettled
<1>4. CASE ReleaseCommit
  BY <1>3, <1>4 DEF ReleaseCommit, WriteJobs
<1>5. CASE AlterEntities
  BY <1>1, <1>5 DEF AlterEntities, RecordsKept, CasesKept
<1>6. CASE SessionLost
  BY <1>6, SessionLostAccounted
<1>7. CASE GatewayStops
  BY <1>7 DEF GatewayStops, beyondRows, StopsAt, Accounted, RecoveryTypeOK
<1>8. ASSUME NEW p \in Plans, PlanRollback(p) \/ PlanExpires(p) PROVE Accounted
  BY <1>1, <1>8 DEF PlanRollback, PlanExpires, RecordsKept, CasesKept
<1>9. ASSUME NEW j \in RollbackJobs, Recheck(j) \/ ReleaseRollback(j) PROVE Accounted
  BY <1>1, <1>3, <1>9 DEF Recheck, ReleaseRollback, RecordsKept, CasesKept, WriteJobs
<1>10. ASSUME NEW j \in WriteJobs, StartsWrite(j) \/ AgentCancels(j) PROVE Accounted
  BY <1>1, <1>10 DEF StartsWrite, AgentCancels, RecordsKept, CasesKept
<1>11. ASSUME NEW j \in WriteJobs, WriteAcknowledged(j) PROVE Accounted
  BY <1>11, OneRow DEF WriteAcknowledged, RecordsKept, CasesKept, Accounted, Unsettled
<1>12. ASSUME NEW j \in WriteJobs, ResolveCase(j) PROVE Accounted
  BY <1>12 DEF ResolveCase, Accounted, RecoveryTypeOK, None
<1>13. ASSUME NEW j \in WriteJobs, NEW word \in {"succeeded", "failed", "unknown"}, HostFinishes(j, word)
       PROVE  Accounted
  BY <1>1, <1>13 DEF HostFinishes, RecordsKept, CasesKept
<1>14. ASSUME NEW j \in WriteJobs, Inconclusive(j) PROVE Accounted
  BY <1>14, OneRow, EscalateAccounted DEF Inconclusive, beyondRows
<1>15. ASSUME NEW j \in WriteJobs, WriteResult(j) PROVE Accounted
  BY <1>14, <1>15, SettlesAccounted, SessionLostAccounted DEF WriteResult
<1>16. ASSUME NEW j \in WriteJobs, ReconcileNotStarted(j) PROVE Accounted
  <2>1. CASE recoveryState[j] = "reconnect_pending"
    <3>1. \A k \in WriteJobs : k # j => recoveryState'[k] = recoveryState[k]
      BY <1>16, <2>1, OneRow DEF ReconcileNotStarted
    <3>2. recoveryState'[j] \in {"cancelled", "dispatched"}
      BY <1>16, <2>1, OneRow DEF ReconcileNotStarted
    <3>3. UNCHANGED <<recoveryCase, interrupted, unanswered, casesEnabled>>
      BY <1>16, <2>1 DEF ReconcileNotStarted, RecordsKept, CasesKept
    <3> QED
      BY <3>1, <3>2, <3>3 DEF Accounted, Unsettled
  <2>2. CASE recoveryState[j] = "outcome_unknown"
    BY <1>16, <2>2, OneRow, EscalateAccounted DEF ReconcileNotStarted, beyondRows
  <2> QED
    BY <1>16, <2>1, <2>2 DEF ReconcileNotStarted
<1>17. ASSUME NEW j \in WriteJobs, ReconcileUnsettled(j) PROVE Accounted
  BY <1>14, <1>17, ProvenAccounted DEF ReconcileUnsettled
<1>18. ASSUME NEW j \in WriteJobs, ReconcileTerminal(j) PROVE Accounted
  BY <1>18, SettlesAccounted, FrozenAccounted DEF ReconcileTerminal
<1>19. ASSUME NEW j \in WriteJobs, SweepOverdue(j) PROVE Accounted
  <2>1. casesEnabled' = casesEnabled
    BY <1>19 DEF SweepOverdue, beyondRows
  <2>2. CASE Escalate(recoveryState, {j}, {j})
    BY <2>1, <2>2, EscalateAccounted
  <2>3. CASE recoveryState[j] = "outcome_unknown" /\ Escalate(RowAs(j, "needs_attention"), {}, {})
    BY <2>1, <2>3, OneRow, EscalateAccounted DEF Unsettled
  <2>4. CASE Escalate(RowAs(j, "failed"), {}, {})
    BY <2>1, <2>4, OneRow, EscalateAccounted DEF Unsettled
  <2> QED
    BY <1>19, <2>2, <2>3, <2>4 DEF SweepOverdue
<1>20. ASSUME NEW j \in WriteJobs, RequestCancel(j) PROVE Accounted
  BY <1>20, OneRow DEF RequestCancel, CasesKept, Accounted, Unsettled
<1>21. ASSUME NEW j \in WriteJobs, WriteRejected(j) PROVE Accounted
  BY <1>21, OneRow, SessionLostAccounted DEF WriteRejected, RecordsKept, CasesKept, Accounted, Unsettled
<1>22. ASSUME NEW j \in WriteJobs, LedgerAcknowledged(j) PROVE Accounted
  BY <1>22, OneRow DEF LedgerAcknowledged, CasesKept, Accounted, Unsettled
<1>23. CASE SessionOpens
  BY <1>23 DEF SessionOpens, CasesKept, Accounted
<1>24. ASSUME NEW j \in WriteJobs, WrongPayload(j) PROVE Accounted
  <2>1. \A k \in WriteJobs : k # j => recoveryState'[k] = recoveryState[k]
    BY <1>24, OneRow DEF WrongPayload
  <2>2. recoveryState'[j] \in Unsettled => recoveryState[j] \in Unsettled
    BY <1>24, OneRow DEF WrongPayload, Unsettled
  <2>3. UNCHANGED <<recoveryCase, interrupted, unanswered, casesEnabled>>
    BY <1>24 DEF WrongPayload, RecordsKept, CasesKept
  <2> QED
    BY <2>1, <2>2, <2>3 DEF Accounted
<1> QED
  BY <1>2, <1>4, <1>5, <1>6, <1>7, <1>8, <1>9, <1>10, <1>11, <1>12, <1>13, <1>15, <1>16, <1>17,
     <1>18, <1>19, <1>20, <1>21, <1>22, <1>23, <1>24 DEF RecoveryNext

\* The rows of a lost session, and what is stored of them.
LEMMA EscalateTypes ==
  ASSUME RecoveryTypeOK, NEW states, NEW jobs, NEW about, Escalate(states, jobs, about),
         UNCHANGED beyondRows, states \in [WriteJobs -> RowStates]
  PROVE  RecoveryTypeOK'
<1> USE PlanOfAssumption DEF RecoveryTypeOK, beyondRows
<1>1. ASSUME NEW t \in RowStates
      PROVE  Unheard(t) \in RowStates
  BY DEF Unheard, RowStates, InDoubt
<1>2. CASE StopsAt(states)
  BY <1>1, <1>2 DEF StopsAt, AllUnheard
<1>3. CASE /\ recoveryState' = states /\ recoveryCase' = CasesOpened(jobs)
           /\ unanswered' = unanswered \ about /\ UNCHANGED <<stopped, interrupted, recheckedJobs>>
  BY <1>3 DEF CasesOpened, NewCase
<1> QED
  BY <1>2, <1>3 DEF Escalate

LEMMA RowAsTyped ==
  ASSUME RecoveryTypeOK, NEW j \in WriteJobs,
         NEW s \in RowStates
  PROVE  RowAs(j, s) \in [WriteJobs -> RowStates]
  BY DEF RecoveryTypeOK, RowAs

LEMMA AllUnheardTyped ==
  ASSUME RecoveryTypeOK
  PROVE  AllUnheard(recoveryState) \in [WriteJobs -> RowStates]
  BY DEF RecoveryTypeOK, AllUnheard, Unheard, RowStates, InDoubt

LEMMA SessionLostTypes ==
  ASSUME RecoveryTypeOK, SessionLost
  PROVE  RecoveryTypeOK'
  BY AllUnheardTyped, EscalateTypes DEF SessionLost

LEMMA UnsettledIsRow == Unsettled \subseteq RowStates
  BY DEF Unsettled, RowStates, InDoubt, Over

LEMMA FrozenTypes ==
  ASSUME RecoveryTypeOK, NEW j \in WriteJobs, Frozen(j) \/ UnprovenCommit(j) \/ Inconclusive(j)
  PROVE  RecoveryTypeOK'
<1>1. ASSUME NEW s \in Unsettled PROVE RowAs(j, s) \in [WriteJobs -> RowStates]
  BY RowAsTyped, UnsettledIsRow
<1>2. \A states, jobs, about : StopsAt(states) => Escalate(states, jobs, about)
  BY DEF Escalate
<1>3. recoveryState \in [WriteJobs -> RowStates]
  BY DEF RecoveryTypeOK
<1>4. "outcome_unknown" \in Unsettled /\ "needs_attention" \in Unsettled
  BY DEF Unsettled
<1>5. CASE Frozen(j)
  <2>1. \E states \in [WriteJobs -> RowStates], jobs \in SUBSET WriteJobs :
           Escalate(states, jobs, {j})
    BY <1>1, <1>2, <1>3, <1>4, <1>5 DEF Frozen
  <2> QED
    BY <1>5, <2>1, EscalateTypes DEF Frozen
<1>6. CASE Inconclusive(j)
  BY <1>1, <1>4, <1>6, EscalateTypes DEF Inconclusive
<1>7. CASE UnprovenCommit(j)
  BY <1>1, <1>4, <1>5, <1>7, EscalateTypes, SessionLostTypes DEF UnprovenCommit
<1> QED
  BY <1>5, <1>6, <1>7

LEMMA EndsTypes ==
  ASSUME RecoveryTypeOK, NEW j \in WriteJobs,
         Proven(j) \/ Stands(j, "failed") \/ Stands(j, "cancelled")
  PROVE  RecoveryTypeOK'
<1> USE PlanOfAssumption DEF RecoveryTypeOK
<1>1. ASSUME NEW s \in {"succeeded", "failed", "cancelled"}, Ends(j, s)
      PROVE  /\ recoveryState' \in [WriteJobs -> RowStates]
             /\ evidence' \in [WriteJobs -> {None, "committed", "rolled_back", "aborted"}]
             /\ documentLock' \in WriteJobs \cup {None}
             /\ unanswered' = unanswered \ {j}
             /\ UNCHANGED <<recoveryCase, stopped, interrupted, agentReports, planVars, casesEnabled,
                            cancelAsked>>
  <2>1. recoveryState' = RowAs(j, s) /\ s \in RowStates
    BY <1>1 DEF Ends, Over, RowStates
  <2>2. evidence' = [evidence EXCEPT ![j] = IF @ = None THEN TerminalOutcome(j, s) ELSE @]
        /\ TerminalOutcome(j, s) \in {"committed", "rolled_back", "aborted"}
    BY <1>1 DEF Ends, Witnessed, TerminalOutcome
  <2> QED
    BY <1>1, <2>1, <2>2, RowAsTyped DEF Ends, Freed
<1>2. CASE Stands(j, "failed") \/ Stands(j, "cancelled")
  BY <1>1, <1>2 DEF Stands, agentReports, planVars
<1>3. CASE j = TheCommit /\ Materialize
  BY <1>1, <1>3 DEF Materialize, Checkpoint, agentReports, planVars
<1>4. CASE j # TheCommit /\ RecordRollback(j)
  BY <1>1, <1>4 DEF RecordRollback, agentReports, planVars, WriteJobs
<1> QED
  BY <1>2, <1>3, <1>4 DEF Proven

LEMMA RecoveryTypes ==
  ASSUME RecoveryTypeOK, [RecoveryNext]_recoveryVars
  PROVE  RecoveryTypeOK'
<1> USE PlanOfAssumption
<1>2. CASE UNCHANGED recoveryVars
  BY <1>2 DEF recoveryVars, RecoveryTypeOK
<1>1. \A j \in WriteJobs, st \in {"dispatched", "acknowledged", "cancel_requested", "reconnect_pending",
                                   "outcome_unknown", "failed", "cancelled", "needs_attention"} :
        RowAs(j, st) \in [WriteJobs -> RowStates]
  BY RowAsTyped DEF RowStates, InHand, InDoubt, Over
<1>3. ASSUME NEW j \in WriteJobs, ReleaseWrite(j), UNCHANGED recheckedJobs \/ recheckedJobs' = recheckedJobs \ {j}
      PROVE RecoveryTypeOK'
  BY <1>1, <1>3 DEF ReleaseWrite, RecordsKept, CasesKept, storedVars, agentReports, RecoveryTypeOK
<1>4. CASE ReleaseCommit
  BY <1>3, <1>4 DEF ReleaseCommit, WriteJobs
<1>5. CASE AlterEntities
  BY <1>5 DEF AlterEntities, RecordsKept, CasesKept, storedVars, planVars, RecoveryTypeOK
<1>6. CASE SessionLost
  BY <1>6, SessionLostTypes
<1>7. CASE GatewayStops
  <2>1. recoveryState \in [WriteJobs -> RowStates]
    BY DEF RecoveryTypeOK
  <2>2. Escalate(recoveryState, {}, {}) /\ UNCHANGED beyondRows
    BY <1>7 DEF GatewayStops, Escalate
  <2> QED
    BY <2>1, <2>2, EscalateTypes
<1>8. ASSUME NEW p \in Plans, PlanRollback(p) \/ PlanExpires(p) PROVE RecoveryTypeOK'
  <2>1. plan' \in [Plans -> {None, "eligible", "conflict", "expired"}]
    BY <1>8 DEF PlanRollback, PlanExpires, PlanStored, RecoveryTypeOK
  <2>2. UNCHANGED <<recoveryState, agentReports, documentLock, recheckedJobs>> /\ RecordsKept
    BY <1>8 DEF PlanRollback, PlanExpires
  <2> QED
    BY <2>1, <2>2 DEF RecordsKept, CasesKept, storedVars, agentReports, RecoveryTypeOK
<1>9. ASSUME NEW j \in RollbackJobs, Recheck(j) \/ ReleaseRollback(j) PROVE RecoveryTypeOK'
  <2>1. CASE Recheck(j)
    BY <2>1 DEF Recheck, RecordsKept, CasesKept, storedVars, agentReports, RecoveryTypeOK
  <2>2. CASE ReleaseRollback(j)
    BY <1>3, <2>2 DEF ReleaseRollback, WriteJobs
  <2> QED
    BY <1>9, <2>1, <2>2
<1>10. ASSUME NEW j \in WriteJobs, StartsWrite(j) \/ AgentCancels(j) PROVE RecoveryTypeOK'
  BY <1>10 DEF StartsWrite, AgentCancels, Ended, RecordsKept, CasesKept, storedVars, planVars, RecoveryTypeOK
<1>11. ASSUME NEW j \in WriteJobs, WriteAcknowledged(j) PROVE RecoveryTypeOK'
  BY <1>1, <1>11 DEF WriteAcknowledged, RecordsKept, CasesKept, storedVars, planVars, agentReports, RecoveryTypeOK
<1>12. ASSUME NEW j \in WriteJobs, ResolveCase(j) PROVE RecoveryTypeOK'
  BY <1>12 DEF ResolveCase, storedVars, planVars, agentReports, RecoveryTypeOK
<1>13. ASSUME NEW j \in WriteJobs, NEW word \in {"succeeded", "failed", "unknown"}, HostFinishes(j, word)
       PROVE  RecoveryTypeOK'
  <2>1. UNCHANGED <<recoveryState, documentLock, planVars>> /\ RecordsKept
    BY <1>13 DEF HostFinishes
  <2>2. agentRecord' = [agentRecord EXCEPT ![j] = word]
        /\ \E q \in Proofs : proof' = [proof EXCEPT ![j] = q] /\ word \in Ended
    BY <1>13 DEF HostFinishes, Ended
  <2>3. entities' \in {"absent", "made", "altered", "removed"} /\ undoneBy' \in Plans \cup {None}
    BY <1>13 DEF HostFinishes, WriteJobs, RecoveryTypeOK
  <2> QED
    BY <2>1, <2>2, <2>3 DEF RecordsKept, CasesKept, storedVars, planVars, RecoveryTypeOK
<1>14. ASSUME NEW j \in WriteJobs, NEW s \in Unsettled, NEW jobs, NEW about,
              Escalate(RowAs(j, s), jobs, about), UNCHANGED beyondRows
       PROVE  RecoveryTypeOK'
  BY <1>14, RowAsTyped, UnsettledIsRow, EscalateTypes
<1>25. ASSUME NEW j \in WriteJobs, Settles(j) PROVE RecoveryTypeOK'
  BY <1>25, EndsTypes, FrozenTypes, SessionLostTypes DEF Settles
<1>15. ASSUME NEW j \in WriteJobs, WriteResult(j) PROVE RecoveryTypeOK'
  BY <1>15, <1>25, FrozenTypes, SessionLostTypes DEF WriteResult
<1>16. ASSUME NEW j \in WriteJobs, ReconcileNotStarted(j) PROVE RecoveryTypeOK'
  <2>1. CASE recoveryState[j] = "reconnect_pending"
    BY <1>1, <1>16, <2>1 DEF ReconcileNotStarted, RecordsKept, CasesKept, storedVars, planVars, agentReports, RecoveryTypeOK
  <2>2. CASE recoveryState[j] = "outcome_unknown"
    BY <1>14, <1>16, <2>2 DEF ReconcileNotStarted, Unsettled
  <2> QED
    BY <1>16, <2>1, <2>2 DEF ReconcileNotStarted
<1>17. ASSUME NEW j \in WriteJobs, ReconcileUnsettled(j) PROVE RecoveryTypeOK'
  BY <1>17, EndsTypes, FrozenTypes DEF ReconcileUnsettled
<1>18. ASSUME NEW j \in WriteJobs, ReconcileTerminal(j) PROVE RecoveryTypeOK'
  BY <1>18, <1>25, FrozenTypes DEF ReconcileTerminal
<1>19. ASSUME NEW j \in WriteJobs, SweepOverdue(j) PROVE RecoveryTypeOK'
  <2>1. recoveryState \in [WriteJobs -> RowStates]
    BY DEF RecoveryTypeOK
  <2>2. RowAs(j, "failed") \in [WriteJobs -> RowStates] /\ RowAs(j, "needs_attention") \in [WriteJobs -> RowStates]
    BY <1>1
  <2>3. UNCHANGED beyondRows
    BY <1>19 DEF SweepOverdue
  <2> QED
    BY <1>19, <2>1, <2>2, <2>3, EscalateTypes DEF SweepOverdue
<1>20. ASSUME NEW j \in WriteJobs, RequestCancel(j) PROVE RecoveryTypeOK'
  BY <1>1, <1>20 DEF RequestCancel, CasesKept, storedVars, planVars, agentReports, RecoveryTypeOK
<1>21. ASSUME NEW j \in WriteJobs, WriteRejected(j) PROVE RecoveryTypeOK'
  BY <1>1, <1>21, SessionLostTypes
  DEF WriteRejected, RecordsKept, CasesKept, storedVars, planVars, agentReports, RecoveryTypeOK
<1>22. ASSUME NEW j \in WriteJobs, LedgerAcknowledged(j) PROVE RecoveryTypeOK'
  BY <1>1, <1>22 DEF LedgerAcknowledged, CasesKept, storedVars, planVars, agentReports, RecoveryTypeOK
<1>23. CASE SessionOpens
  <2>1. recoveryState' \in [WriteJobs -> RowStates] /\ unanswered' \subseteq WriteJobs
    BY <1>23 DEF SessionOpens, RecoveryTypeOK, RowStates, InDoubt
  <2>2. UNCHANGED <<agentReports, documentLock, planVars, cancelAsked>> /\ CasesKept
    BY <1>23 DEF SessionOpens
  <2> QED
    BY <2>1, <2>2 DEF CasesKept, storedVars, planVars, agentReports, RecoveryTypeOK
<1>24. ASSUME NEW j \in WriteJobs, WrongPayload(j) PROVE RecoveryTypeOK'
  <2>1. recoveryState' \in [WriteJobs -> RowStates] /\ documentLock' \in WriteJobs \cup {None}
    BY <1>1, <1>24 DEF WrongPayload, Freed, RecoveryTypeOK
  <2>2. UNCHANGED <<agentReports, planVars>> /\ RecordsKept
    BY <1>24 DEF WrongPayload
  <2> QED
    BY <2>1, <2>2 DEF RecordsKept, CasesKept, storedVars, planVars, agentReports, RecoveryTypeOK
<1> QED
  BY <1>2, <1>4, <1>5, <1>6, <1>7, <1>8, <1>9, <1>10, <1>11, <1>12, <1>13, <1>15, <1>16, <1>17,
     <1>18, <1>19, <1>20, <1>21, <1>22, <1>23, <1>24 DEF RecoveryNext

LEMMA RecoveryStep == RecoveryInv /\ [RecoveryNext]_recoveryVars => RecoveryInv'
<1> SUFFICES ASSUME RecoveryInv, [RecoveryNext]_recoveryVars PROVE RecoveryInv'
  OBVIOUS
<1>1. RecoveryTypeOK' /\ Accounted
  BY RecoveryTypes, RowsAccounted DEF RecoveryInv
<1>2. UnknownHasCase'
  BY <1>1 DEF RecoveryInv, UnknownHasCase, Accounted
<1> QED
  BY <1>1, <1>2 DEF RecoveryInv

\* With recovery cases on, a write that is left unknown or needing attention has a
\* recovery case, unless the process stopped between the transition and the case, or
\* the Agent was asked about the write and has given no answer since: every answer,
\* lost session, frozen conflict and deadline of an unknown commit sees to the case,
\* and what makes a write unknown without one asks the Agent (ensure_recovery_case,
\* handle_disconnect, handle_connected, _handle_ack, _freeze_for_conflict,
\* sweep_deadlines).
THEOREM UnknownIsNoticed == RecoverySpec => []UnknownHasCase
<1>1. RecoveryInv => UnknownHasCase
  BY DEF RecoveryInv
<1> QED
  BY <1>1, RecoveryInitially, RecoveryStep, PTL DEF RecoverySpec


-----------------------------------------------------------------------------
(* CAD programs.                                                           *)

ProgramRevisions == 0 .. MaxRevision
RunRecords == [before : ProgramRevisions, after : ProgramRevisions, pins : Pins]
SealedRecords == [revision : ProgramRevisions, pins : Pins]
JobRecords ==
  [action : Actions, program : Programs, of : Nat,
   state : ActiveStates \cup {"succeeded", "failed"},
   command : {"none", "held", "done", "refused"}, ran : RunRecords \cup {Unrun},
   row : {"none", "stored", "invalid"}, lapsed : BOOLEAN]

\* Type correctness, with the shape of every record.
ProgramTypes ==
  /\ session \in {Offline} \cup [pins : Pins, revision : ProgramRevisions, mode : Modes]
  /\ host \in Pins \cup {Absent} /\ drawingNow \in ProgramRevisions
  /\ programs \in [Programs -> SealedRecords \cup {Absent}]
  /\ actions \in Seq(JobRecords)

Carried(j) == actions[j].command = "done"

\* A row and what the Gateway says of it come after the run; a job not sent has no
\* command.
RowAfterRun ==
  \A j \in Jobs : /\ actions[j].row # "none" => Carried(j)
                  /\ actions[j].state = "queued" => actions[j].command = "none"

\* A commit follows a preview of its program that ran, a validation a commit.
OriginInv ==
  \A j \in Jobs :
    /\ programs[actions[j].program] # Absent
    /\ actions[j].action # "preview" =>
         /\ actions[j].of \in 1 .. j - 1 /\ Carried(actions[j].of)
         /\ actions[actions[j].of].program = actions[j].program
         /\ actions[actions[j].of].action =
              IF actions[j].action = "commit" THEN "preview" ELSE "commit"

\* What ran, ran on the pins of its program and on the revision it was bound to.
RunInv ==
  \A j \in Jobs : Carried(j) =>
    /\ actions[j].ran \in RunRecords
    /\ actions[j].ran.pins = programs[actions[j].program].pins
    /\ actions[j].ran.before = BoundRevision(j)

\* A commit leaves the revision of its program behind for ever.
LeftBehind ==
  \A j \in Ran("commit") : programs[actions[j].program].revision < drawingNow

CommittedOnce ==
  \A j, k \in Ran("commit") : actions[j].program = actions[k].program => j = k

CadInv ==
  ProgramTypes /\ RowAfterRun /\ OriginInv /\ RunInv /\ LeftBehind /\ CommittedOnce

LEMMA CadInitially == ProgramsInit => CadInv
<1> SUFFICES ASSUME ProgramsInit PROVE CadInv
  OBVIOUS
<1>1. Jobs = {} /\ actions = <<>>
  BY DEF ProgramsInit, Jobs
<1>2. ProgramTypes
  BY <1>1, ProgramsAssumption DEF ProgramsInit, ProgramTypes, ProgramRevisions
<1> QED
  BY <1>1, <1>2 DEF CadInv, RowAfterRun, OriginInv, RunInv, LeftBehind, CommittedOnce, Ran

\* One job of the table replaced.
LEMMA OneJob ==
  ASSUME actions \in Seq(JobRecords), NEW j \in Jobs, NEW r \in JobRecords
  PROVE  LET new == [actions EXCEPT ![j] = r]
         IN /\ new \in Seq(JobRecords) /\ Len(new) = Len(actions)
            /\ \A k \in Jobs : new[k] = IF k = j THEN r ELSE actions[k]
  BY DEF Jobs

\* What every step but a run and a new job does: no job becomes another, none is
\* run, and programs, once sealed, stay.
Marked ==
  /\ actions' \in Seq(JobRecords) /\ Len(actions') = Len(actions)
  /\ \A k \in Jobs :
       /\ actions'[k].action = actions[k].action
       /\ actions'[k].program = actions[k].program
       /\ actions'[k].of = actions[k].of
       /\ actions'[k].ran = actions[k].ran
       /\ actions'[k].command = "done" <=> actions[k].command = "done"
       /\ actions'[k].row # "none" => actions'[k].command = "done"
       /\ actions'[k].state = "queued" => actions'[k].command = "none"
  /\ drawingNow \in ProgramRevisions /\ drawingNow' \in ProgramRevisions /\ drawingNow <= drawingNow'
  /\ \A g \in Programs : programs[g] # Absent => programs'[g] = programs[g]

LEMMA MarkedKeeps ==
  ASSUME CadInv, Marked, ProgramTypes'
  PROVE  CadInv'
<1>1. Jobs' = Jobs
  BY DEF Marked, Jobs
<1>2. \A k \in Jobs : actions[k] \in JobRecords
  BY DEF CadInv, ProgramTypes, Jobs
<1>3. \A k \in Jobs : /\ programs[actions[k].program] # Absent
                      /\ programs'[actions[k].program] = programs[actions[k].program]
                      /\ programs[actions[k].program] \in SealedRecords
  BY <1>2 DEF CadInv, ProgramTypes, OriginInv, Marked, JobRecords
<1>4. RowAfterRun'
  BY <1>1 DEF Marked, RowAfterRun, Carried
<1>5. \A k \in Jobs : actions[k].action # "preview" => actions[k].of \in Jobs
  BY DEF CadInv, OriginInv, Jobs
<1>6. OriginInv'
  BY <1>1, <1>3, <1>5 DEF Marked, CadInv, OriginInv, Carried
<1>7. \A k \in Jobs : BoundRevision(k)' = BoundRevision(k)
  BY <1>3, <1>5 DEF Marked, BoundRevision
<1>8. RunInv'
  BY <1>1, <1>3, <1>7 DEF Marked, CadInv, RunInv, Carried
<1>9. Ran("commit")' = Ran("commit")
  BY <1>1 DEF Marked, Ran
<1>10. LeftBehind'
  BY <1>3, <1>9 DEF Marked, CadInv, LeftBehind, SealedRecords, ProgramRevisions, Ran
<1>11. CommittedOnce'
  BY <1>9 DEF Marked, CadInv, CommittedOnce, Ran
<1> QED
  BY <1>4, <1>6, <1>8, <1>10, <1>11 DEF CadInv

\* A job marked at j: what a handler makes of one row.
LEMMA MarkedAt ==
  ASSUME CadInv, NEW j \in Jobs, NEW r \in JobRecords,
         actions' = [actions EXCEPT ![j] = r], UNCHANGED <<programs, drawingNow>>,
         r.action = actions[j].action, r.program = actions[j].program, r.of = actions[j].of,
         r.ran = actions[j].ran, r.command = "done" <=> actions[j].command = "done",
         r.row # "none" => r.command = "done", r.state = "queued" => r.command = "none"
  PROVE  Marked
<1> USE DEF CadInv, ProgramTypes
<1>1. /\ actions' \in Seq(JobRecords) /\ Len(actions') = Len(actions)
      /\ \A k \in Jobs : actions'[k] = IF k = j THEN r ELSE actions[k]
  BY OneJob
<1>2. drawingNow <= drawingNow'
  BY DEF ProgramRevisions
<1> QED
  BY <1>1, <1>2 DEF Marked, RowAfterRun, Carried

\* No job is touched.
LEMMA MarkedNone ==
  ASSUME CadInv, UNCHANGED actions, drawingNow' \in ProgramRevisions, drawingNow <= drawingNow',
         \A g \in Programs : programs[g] # Absent => programs'[g] = programs[g]
  PROVE  Marked
<1> USE DEF CadInv, ProgramTypes
<1> QED
  BY DEF Marked, RowAfterRun, Carried
\* The steps of the session, the drawing and AutoCAD.
LEMMA SessionSteps ==
  ASSUME CadInv, Connect \/ Heartbeat \/ Disconnect \/ EditDrawing \/ Upgrade
  PROVE  CadInv'
<1> USE ProgramsAssumption DEF CadInv, ProgramTypes, ProgramRevisions
<1>1. CASE Connect
  <2>1. host \in Pins
    BY <1>1 DEF Connect
  <2>2. session' \in {Offline} \cup [pins : Pins, revision : ProgramRevisions, mode : Modes]
    BY <1>1, <2>1 DEF Connect
  <2> QED
    BY <1>1, <2>2, MarkedNone, MarkedKeeps DEF Connect
<1>2. CASE Heartbeat
  <2>1. session' \in {Offline} \cup [pins : Pins, revision : ProgramRevisions, mode : Modes]
    BY <1>2 DEF Heartbeat
  <2> QED
    BY <1>2, <2>1, MarkedNone, MarkedKeeps DEF Heartbeat
<1>3. CASE Disconnect
  <2>1. \A k \in Jobs : actions[k] \in JobRecords
    BY DEF Jobs
  <2> DEFINE lost(k) == IF actions[k].state = "sent"
                        THEN [actions[k] EXCEPT !.state = "unknown"] ELSE actions[k]
  <2>2. \A k \in Jobs : lost(k) \in JobRecords
    BY <2>1 DEF JobRecords, ActiveStates
  <2>3. actions' = [k \in 1 .. Len(actions) |-> lost(k)]
    BY <1>3 DEF Disconnect, Jobs
  <2>4. actions' \in Seq(JobRecords) /\ Len(actions') = Len(actions)
    BY <2>2, <2>3 DEF Jobs
  <2>5. \A k \in Jobs : actions'[k] = lost(k)
    BY <2>3 DEF Jobs
  <2>6. \A k \in Jobs :
          /\ lost(k).action = actions[k].action /\ lost(k).program = actions[k].program
          /\ lost(k).of = actions[k].of /\ lost(k).ran = actions[k].ran
          /\ lost(k).command = actions[k].command /\ lost(k).row = actions[k].row
          /\ lost(k).state = "queued" => actions[k].state = "queued"
    BY <2>1 DEF JobRecords
  <2>7. UNCHANGED <<host, drawingNow, programs>> /\ session' = Offline
    BY <1>3 DEF Disconnect
  <2> HIDE DEF lost
  <2>8. drawingNow <= drawingNow'
    BY <2>7
  <2>9. Marked
    BY <2>4, <2>5, <2>6, <2>7, <2>8 DEF Marked, RowAfterRun, Carried
  <2> QED
    BY <2>4, <2>7, <2>9, MarkedKeeps
<1>4. CASE EditDrawing
  <2>1. drawingNow' \in ProgramRevisions /\ drawingNow <= drawingNow'
    BY <1>4 DEF EditDrawing
  <2> QED
    BY <1>4, <2>1, MarkedNone, MarkedKeeps DEF EditDrawing
<1>5. CASE Upgrade
  BY <1>5, MarkedNone, MarkedKeeps DEF Upgrade
<1> QED
  BY <1>1, <1>2, <1>3, <1>4, <1>5

LEMMA PrepareStep == ASSUME CadInv, NEW g \in Programs, Prepare(g) PROVE CadInv'
<1> USE DEF CadInv, ProgramTypes
<1>1. SealedProgram \in SealedRecords
  BY DEF Prepare, SealedProgram, CurrentPins, SealedRecords
<1>2. \A h \in Programs : programs[h] # Absent => programs'[h] = programs[h]
  BY DEF Prepare
<1>3. programs' \in [Programs -> SealedRecords \cup {Absent}]
  BY <1>1 DEF Prepare
<1> QED
  BY <1>2, <1>3, MarkedNone, MarkedKeeps DEF Prepare, ProgramRevisions

\* Steps that replace one job's record, and it is not run by them.
LEMMA RefuseCommitStep == ASSUME CadInv, NEW p \in Jobs, RefuseCommit(p) PROVE CadInv'
<1> DEFINE r == [actions[p] EXCEPT !.row = "invalid"]
<1>1. actions[p] \in JobRecords
  BY DEF CadInv, ProgramTypes, Jobs
<1>2. r \in JobRecords
  BY <1>1 DEF JobRecords
<1>3. /\ r.action = actions[p].action /\ r.program = actions[p].program
      /\ r.of = actions[p].of /\ r.ran = actions[p].ran
      /\ r.command = "done" <=> actions[p].command = "done"
      /\ r.row # "none" => r.command = "done"
      /\ r.state = "queued" => r.command = "none"
  BY <1>1 DEF RefuseCommit, Previews, CadInv, RowAfterRun, Carried, JobRecords
<1>4. actions' = [actions EXCEPT ![p] = r] /\ UNCHANGED <<session, host, drawingNow, programs>>
  BY DEF RefuseCommit
<1> HIDE DEF r
<1>5. Marked
  BY <1>2, <1>3, <1>4, MarkedAt
<1> QED
  BY <1>4, <1>5, MarkedKeeps DEF CadInv, ProgramTypes, Marked

LEMMA RefuseCommandStep == ASSUME CadInv, NEW j \in Jobs, RefuseCommand(j) PROVE CadInv'
<1> DEFINE r == [actions[j] EXCEPT !.command = "refused"]
<1>1. actions[j] \in JobRecords
  BY DEF CadInv, ProgramTypes, Jobs
<1>2. r \in JobRecords
  BY <1>1 DEF JobRecords
<1>3. /\ r.action = actions[j].action /\ r.program = actions[j].program
      /\ r.of = actions[j].of /\ r.ran = actions[j].ran
      /\ r.command = "done" <=> actions[j].command = "done"
      /\ r.row # "none" => r.command = "done"
      /\ r.state = "queued" => r.command = "none"
  BY <1>1 DEF RefuseCommand, CadInv, RowAfterRun, Carried, JobRecords
<1>4. actions' = [actions EXCEPT ![j] = r] /\ UNCHANGED <<session, host, drawingNow, programs>>
  BY DEF RefuseCommand
<1> HIDE DEF r
<1>5. Marked
  BY <1>2, <1>3, <1>4, MarkedAt
<1> QED
  BY <1>4, <1>5, MarkedKeeps DEF CadInv, ProgramTypes, Marked

LEMMA LapseStep == ASSUME CadInv, NEW j \in Jobs, Lapse(j) PROVE CadInv'
<1> DEFINE r == [actions[j] EXCEPT !.lapsed = TRUE]
<1>1. actions[j] \in JobRecords
  BY DEF CadInv, ProgramTypes, Jobs
<1>2. r \in JobRecords
  BY <1>1 DEF JobRecords
<1>3. /\ r.action = actions[j].action /\ r.program = actions[j].program
      /\ r.of = actions[j].of /\ r.ran = actions[j].ran
      /\ r.command = "done" <=> actions[j].command = "done"
      /\ r.row # "none" => r.command = "done"
      /\ r.state = "queued" => r.command = "none"
  BY <1>1 DEF Lapse, CadInv, RowAfterRun, Carried, JobRecords
<1>4. actions' = [actions EXCEPT ![j] = r] /\ UNCHANGED <<session, host, drawingNow, programs>>
  BY DEF Lapse
<1> HIDE DEF r
<1>5. Marked
  BY <1>2, <1>3, <1>4, MarkedAt
<1> QED
  BY <1>4, <1>5, MarkedKeeps DEF CadInv, ProgramTypes, Marked

\* A job that gets another state, and is not queued by that.
LEMMA MovedTo ==
  ASSUME CadInv, NEW j \in Jobs, NEW r \in JobRecords, actions' = [actions EXCEPT ![j] = r],
         r.action = actions[j].action, r.program = actions[j].program, r.of = actions[j].of,
         r.ran = actions[j].ran, r.command = "done" <=> Carried(j), r.row # "none" => Carried(j),
         r.state # "queued", UNCHANGED <<session, host, drawingNow, programs>>
  PROVE  CadInv'
<1>1. Marked
  BY MarkedAt DEF Carried
<1> QED
  BY <1>1, MarkedKeeps DEF CadInv, ProgramTypes, Marked

LEMMA JobSteps ==
  ASSUME CadInv, NEW j \in Jobs, Dispatch(j) \/ FinalizeProgramJob(j) \/ SweepProgram(j)
  PROVE  CadInv'
<1> DEFINE sent == [actions[j] EXCEPT !.state = "sent", !.command = "held"]
           stored == [actions[j] EXCEPT !.state = "succeeded", !.row = "stored"]
           moved(s) == [actions[j] EXCEPT !.state = s]
           States == ActiveStates \cup {"succeeded", "failed"}
<1>1. /\ actions[j] \in JobRecords
      /\ actions[j].row # "none" => Carried(j)
      /\ actions[j].state = "queued" => actions[j].command = "none"
  BY DEF CadInv, RowAfterRun, ProgramTypes, Jobs
<1>2. ASSUME NEW s \in States, s # "queued", actions' = To(j, s),
             UNCHANGED <<session, host, drawingNow, programs>>
      PROVE  CadInv'
  <2>1. moved(s) \in JobRecords
    BY <1>1, <1>2 DEF JobRecords
  <2>2. /\ moved(s).action = actions[j].action /\ moved(s).program = actions[j].program
        /\ moved(s).of = actions[j].of /\ moved(s).ran = actions[j].ran
        /\ moved(s).command = actions[j].command /\ moved(s).row = actions[j].row
        /\ moved(s).state = s
    BY <1>1 DEF JobRecords
  <2>3. actions' = [actions EXCEPT ![j] = moved(s)]
    BY <1>2 DEF To
  <2> HIDE DEF moved
  <2> QED
    BY <1>1, <1>2, <2>1, <2>2, <2>3, MovedTo DEF Carried
<1>3. CASE Dispatch(j)
  <2>1. CASE Dispatchable(j)
    <3>1. sent \in JobRecords
      BY <1>1 DEF JobRecords, ActiveStates
    <3>2. /\ sent.action = actions[j].action /\ sent.program = actions[j].program
          /\ sent.of = actions[j].of /\ sent.ran = actions[j].ran
          /\ sent.command = "held" /\ sent.row = actions[j].row /\ sent.state = "sent"
      BY <1>1 DEF JobRecords
    <3>3. actions' = [actions EXCEPT ![j] = sent] /\ UNCHANGED <<session, host, drawingNow, programs>>
      BY <1>3, <2>1 DEF Dispatch
    <3>4. ~Carried(j)
      BY <1>1, <1>3 DEF Dispatch, Carried
    <3> HIDE DEF sent
    <3> QED
      BY <1>1, <3>1, <3>2, <3>3, <3>4, MovedTo
  <2>2. CASE ~Dispatchable(j)
    BY <1>2, <1>3, <2>2 DEF Dispatch
  <2> QED
    BY <2>1, <2>2
<1>4. CASE FinalizeProgramJob(j)
  <2>1. CASE actions' = To(j, "failed")
    BY <1>2, <1>4, <2>1 DEF FinalizeProgramJob
  <2>2. CASE actions' # To(j, "failed")
    <3>1. stored \in JobRecords
      BY <1>1 DEF JobRecords
    <3>2. /\ stored.action = actions[j].action /\ stored.program = actions[j].program
          /\ stored.of = actions[j].of /\ stored.ran = actions[j].ran
          /\ stored.command = actions[j].command /\ stored.state = "succeeded"
      BY <1>1 DEF JobRecords
    <3>3. /\ Carried(j) /\ actions' = [actions EXCEPT ![j] = stored]
          /\ UNCHANGED <<session, host, drawingNow, programs>>
      BY <1>4, <2>2 DEF FinalizeProgramJob, Carried
    <3> HIDE DEF stored
    <3> QED
      BY <3>1, <3>2, <3>3, MovedTo DEF Carried
  <2> QED
    BY <2>1, <2>2
<1>5. CASE SweepProgram(j)
  BY <1>2, <1>5 DEF SweepProgram, ActiveStates
<1> QED
  BY <1>3, <1>4, <1>5

\* A new job: of a program on record, after what it refers to.
LEMMA CreateStep ==
  ASSUME CadInv, NEW action \in Actions, NEW g \in Programs, NEW of \in Nat, NEW key,
         CreateJob(action, g, of, key), programs[g] # Absent,
         UNCHANGED <<session, host, drawingNow, programs>>,
         action # "preview" =>
           /\ of \in Jobs /\ Carried(of) /\ actions[of].program = g
           /\ actions[of].action = IF action = "commit" THEN "preview" ELSE "commit"
  PROVE  CadInv'
<1> DEFINE n == Len(actions) + 1
<1>1. actions \in Seq(JobRecords) /\ NewJob(action, g, of) \in JobRecords
  BY DEF CadInv, ProgramTypes, NewJob, JobRecords, ActiveStates
<1>2. /\ actions' \in Seq(JobRecords) /\ Jobs' = Jobs \cup {n} /\ n \notin Jobs
      /\ \A k \in Jobs : actions'[k] = actions[k]
      /\ actions'[n] = NewJob(action, g, of)
  BY <1>1 DEF CreateJob, Jobs
<1>3. ProgramTypes'
  BY <1>2 DEF CadInv, ProgramTypes
<1>4. /\ actions'[n].action = action /\ actions'[n].program = g /\ actions'[n].of = of
      /\ actions'[n].command = "none" /\ actions'[n].row = "none"
  BY <1>2 DEF NewJob
<1> HIDE DEF n
<1>5. \A k \in Jobs : Carried(k)' = Carried(k)
  BY <1>2 DEF Carried
<1>6. RowAfterRun'
  BY <1>2, <1>4, <1>5 DEF CadInv, RowAfterRun, Carried
<1>7. \A k \in Jobs : actions[k].action # "preview" => actions[k].of \in Jobs /\ actions[k].of \in 1 .. k - 1
  BY DEF CadInv, OriginInv, Jobs
<1>8. of \in Jobs => of \in 1 .. n - 1
  BY DEF Jobs, n
<1>9. OriginInv'
  <2> DEFINE sound(k) ==
        /\ programs'[actions'[k].program] # Absent
        /\ actions'[k].action # "preview" =>
             /\ actions'[k].of \in 1 .. k - 1 /\ actions'[actions'[k].of].command = "done"
             /\ actions'[actions'[k].of].program = actions'[k].program
             /\ actions'[actions'[k].of].action =
                  IF actions'[k].action = "commit" THEN "preview" ELSE "commit"
  <2>1. \A k \in Jobs : sound(k)
    BY <1>2, <1>5, <1>7 DEF CadInv, OriginInv, Carried
  <2>2. sound(n)
    <3>1. programs'[actions'[n].program] # Absent
      BY <1>4
    <3>2. ASSUME action # "preview"
          PROVE  /\ of \in 1 .. n - 1 /\ actions'[of].command = "done" /\ actions'[of].program = g
                 /\ actions'[of].action = IF action = "commit" THEN "preview" ELSE "commit"
      BY <1>2, <1>5, <1>8, <3>2 DEF Carried
    <3> QED
      BY <1>4, <3>1, <3>2
  <2>3. \A k \in Jobs' : sound(k)
    BY <1>2, <2>1, <2>2
  <2> QED
    BY <2>3 DEF OriginInv, Carried
<1>10. \A k \in Jobs : BoundRevision(k)' = BoundRevision(k)
  BY <1>2, <1>7 DEF BoundRevision
<1>11. RunInv'
  BY <1>2, <1>4, <1>5, <1>10 DEF CadInv, RunInv, Carried
<1>12. Ran("commit")' = Ran("commit")
  BY <1>2, <1>4 DEF Ran
<1>13. LeftBehind' /\ CommittedOnce'
  BY <1>2, <1>12 DEF CadInv, LeftBehind, CommittedOnce, Ran
<1> QED
  BY <1>3, <1>6, <1>9, <1>11, <1>13 DEF CadInv

LEMMA RequestSteps ==
  ASSUME CadInv, NEW key
  PROVE  /\ \A g \in Programs : RequestPreview(g, key) => CadInv'
         /\ \A p \in Jobs :
              RequestCommit(p, key) \/ RepeatCommit(p, key) \/ RequestValidate(p, key) => CadInv'
<1>1. ASSUME NEW g \in Programs, RequestPreview(g, key) PROVE CadInv'
  BY <1>1, CreateStep DEF RequestPreview, Actions
<1>2. \A k \in Jobs : actions[k].program \in Programs /\ programs[actions[k].program] # Absent
                      /\ (actions[k].row # "none" => Carried(k)) /\ k \in Nat
  <2>1. \A k \in Jobs : actions[k] \in JobRecords /\ k \in Nat
    BY DEF CadInv, ProgramTypes, Jobs
  <2>2. \A k \in Jobs : actions[k].program \in Programs
    BY <2>1 DEF JobRecords
  <2> QED
    BY <2>1, <2>2 DEF CadInv, OriginInv, RowAfterRun
<1>3. ASSUME NEW p \in Jobs, RequestCommit(p, key) PROVE CadInv'
  BY <1>2, <1>3, CreateStep DEF RequestCommit, Previews, Actions
<1>4. ASSUME NEW p \in Jobs, RequestValidate(p, key) PROVE CadInv'
  BY <1>2, <1>4, CreateStep DEF RequestValidate, Actions
<1>5. ASSUME NEW p \in Jobs, RepeatCommit(p, key) PROVE CadInv'
  BY <1>5, MarkedNone, MarkedKeeps DEF RepeatCommit, CadInv, ProgramTypes, ProgramRevisions
<1> QED
  BY <1>1, <1>3, <1>4, <1>5

\* The Host runs a command: on the revision and the pins of its program, and a
\* commit of that program cannot have run, for it would have left the revision.
LEMMA RunStep == ASSUME CadInv, NEW j \in Jobs, RunAsBound(j) PROVE CadInv'
<1> DEFINE commits == actions[j].action = "commit"
           after == IF commits THEN drawingNow + 1 ELSE drawingNow
           r == [actions[j] EXCEPT !.command = "done", !.ran = RunResult(after)]
           g == actions[j].program
<1>1. actions[j] \in JobRecords /\ drawingNow \in 0 .. MaxRevision
  BY DEF CadInv, ProgramTypes, Jobs, ProgramRevisions
<1>2. /\ ~Carried(j) /\ actions[j].command = "held" /\ after \in 0 .. MaxRevision /\ drawingNow' = after
      /\ host = programs[g].pins /\ drawingNow = BoundRevision(j)
      /\ UNCHANGED <<session, host, programs>>
  BY <1>1, ProgramsAssumption DEF RunAsBound, AsBound, Carried
<1>3. programs[g] \in SealedRecords
  BY <1>1 DEF CadInv, ProgramTypes, OriginInv, JobRecords
<1>4. RunResult(after) \in RunRecords
  BY <1>1, <1>2, <1>3 DEF RunResult, RunRecords, SealedRecords, ProgramRevisions
<1>5. r \in JobRecords
  BY <1>1, <1>4 DEF JobRecords
<1>6. actions' = [actions EXCEPT ![j] = r]
  <2>1. actions' = [actions EXCEPT ![j].command = "done", ![j].ran = RunResult(after)]
    BY DEF RunAsBound
  <2> QED
    BY <1>1, <2>1 DEF CadInv, ProgramTypes, JobRecords, Jobs
<1>7. /\ r.action = actions[j].action /\ r.program = g /\ r.of = actions[j].of
      /\ r.command = "done" /\ r.ran = RunResult(after) /\ r.row = actions[j].row
      /\ r.state = actions[j].state
  BY <1>1 DEF JobRecords
<1>8. RunResult(after).before = drawingNow /\ RunResult(after).after = after /\ RunResult(after).pins = host
  BY DEF RunResult
<1> HIDE DEF r
<1>9. /\ actions' \in Seq(JobRecords) /\ Jobs' = Jobs
      /\ \A k \in Jobs : actions'[k] = IF k = j THEN r ELSE actions[k]
  BY <1>5, <1>6, OneJob DEF CadInv, ProgramTypes, Jobs
<1>10. ProgramTypes'
  BY <1>2, <1>9 DEF CadInv, ProgramTypes, ProgramRevisions
<1>11. \A k \in Jobs : /\ actions'[k].action = actions[k].action
                       /\ actions'[k].program = actions[k].program
                       /\ actions'[k].of = actions[k].of
                       /\ (Carried(k)' <=> Carried(k) \/ k = j)
                       /\ k # j => actions'[k] = actions[k]
  BY <1>7, <1>9 DEF Carried
<1>12. RowAfterRun'
  BY <1>1, <1>2, <1>7, <1>9, <1>11 DEF CadInv, RowAfterRun, Carried
<1>13. \A k \in Jobs : actions[k].action # "preview" => actions[k].of \in Jobs /\ Carried(actions[k].of)
  BY DEF CadInv, OriginInv, Jobs
<1>14. OriginInv'
  BY <1>2, <1>9, <1>11, <1>13 DEF CadInv, OriginInv, Carried
<1>15. \A k \in Jobs : BoundRevision(k)' = BoundRevision(k)
  BY <1>2, <1>9, <1>11, <1>13 DEF BoundRevision
<1>16. RunInv'
  <2>1. \A k \in Jobs : k # j /\ Carried(k) =>
          /\ actions'[k].ran \in RunRecords
          /\ actions'[k].ran.pins = programs'[actions'[k].program].pins
          /\ actions'[k].ran.before = BoundRevision(k)'
    BY <1>2, <1>11, <1>15 DEF CadInv, RunInv
  <2>2. /\ actions'[j].ran \in RunRecords
        /\ actions'[j].ran.pins = programs'[actions'[j].program].pins
        /\ actions'[j].ran.before = BoundRevision(j)'
    BY <1>2, <1>4, <1>7, <1>8, <1>9, <1>11, <1>15
  <2> QED
    BY <1>9, <1>11, <2>1, <2>2 DEF RunInv
<1>17. \A k \in Ran("commit")' : k \in Jobs /\ (k \in Ran("commit") \/ (k = j /\ commits))
  BY <1>9, <1>11 DEF Ran, Carried
<1>18. commits => programs[g].revision = drawingNow /\ after = drawingNow + 1
  BY <1>2 DEF BoundRevision
<1>19. \A k \in Ran("commit") : /\ programs[actions[k].program].revision < drawingNow
                                /\ programs[actions[k].program].revision \in Nat
  <2>1. \A k \in Ran("commit") : programs[actions[k].program] \in SealedRecords
    <3>1. \A k \in Jobs : actions[k] \in JobRecords
      BY DEF CadInv, ProgramTypes, Jobs
    <3>2. \A k \in Jobs : actions[k].program \in Programs
      BY <3>1 DEF JobRecords
    <3> QED
      BY <3>2 DEF CadInv, ProgramTypes, OriginInv, Ran
  <2> QED
    BY <2>1 DEF CadInv, LeftBehind, SealedRecords, ProgramRevisions
<1>20. LeftBehind'
  BY <1>1, <1>2, <1>11, <1>17, <1>18, <1>19 DEF LeftBehind
<1>21. CommittedOnce'
  BY <1>1, <1>11, <1>17, <1>18, <1>19 DEF CadInv, CommittedOnce
<1> QED
  BY <1>10, <1>12, <1>14, <1>16, <1>20, <1>21 DEF CadInv

LEMMA CadStep == CadInv /\ [ProgramsNext]_programVars => CadInv'
<1> SUFFICES ASSUME CadInv, [ProgramsNext]_programVars PROVE CadInv'
  OBVIOUS
<1>1. CASE UNCHANGED programVars
  BY <1>1, MarkedNone, MarkedKeeps DEF programVars, CadInv, ProgramTypes, ProgramRevisions
<1>2. CASE ProgramsNext
  BY <1>2, SessionSteps, PrepareStep, RequestSteps, RefuseCommitStep, JobSteps, RunStep,
     RefuseCommandStep, LapseStep DEF ProgramsNext
<1> QED
  BY <1>1, <1>2

\* What an execution says against the program, whatever happened between: a commit
\* ran on the revision and under the pins its program was sealed for, after a
\* preview that did; a validation on what its commit left (execute, dispatch,
\* _revalidate_program).
LEMMA CadPrepared == CadInv => ExecutedAsPrepared
<1> SUFFICES ASSUME CadInv PROVE ExecutedAsPrepared
  OBVIOUS
<1>1. ASSUME NEW j \in Ran("commit")
      PROVE  \A run \in {actions[j].ran, actions[actions[j].of].ran} :
               /\ run.before = programs[actions[j].program].revision
               /\ run.pins = programs[actions[j].program].pins
  <2>1. j \in Jobs /\ actions[j].action = "commit" /\ Carried(j)
    BY <1>1 DEF Ran, Carried
  <2>2. /\ actions[j].of \in Jobs /\ Carried(actions[j].of)
        /\ actions[actions[j].of].program = actions[j].program
        /\ actions[actions[j].of].action = "preview"
    BY <2>1 DEF CadInv, OriginInv, Jobs
  <2> QED
    BY <2>1, <2>2 DEF CadInv, RunInv, BoundRevision
<1>2. ASSUME NEW j \in Ran("validate")
      PROVE  /\ actions[j].ran.before = actions[actions[j].of].ran.after
             /\ actions[j].ran.pins = actions[actions[j].of].ran.pins
  <2>1. j \in Jobs /\ actions[j].action = "validate" /\ Carried(j)
    BY <1>2 DEF Ran, Carried
  <2>2. /\ actions[j].of \in Jobs /\ Carried(actions[j].of)
        /\ actions[actions[j].of].program = actions[j].program
    BY <2>1 DEF CadInv, OriginInv, Jobs
  <2> QED
    BY <2>1, <2>2 DEF CadInv, RunInv, BoundRevision
<1> QED
  BY <1>1, <1>2 DEF ExecutedAsPrepared

\* A CAD program changes the drawing on the revision and under the pins it was
\* sealed for, after a preview on the same, and is validated on what its commit left
\* (commit, validate, _revalidate_program, _program_dispatch_failure, execute).
THEOREM ProgramsAsPrepared == ProgramsSpec => []ExecutedAsPrepared
  BY CadInitially, CadStep, CadPrepared, PTL DEF ProgramsSpec

\* A program changes the drawing once, under whatever keys its previews are
\* committed, and a stored receipt is of a commit that ran (create_action_job,
\* _materialize).
THEOREM ProgramsOnce == ProgramsSpec => []ProgramRunsOnce
<1>1. CadInv => ProgramRunsOnce
  BY DEF CadInv, CommittedOnce, RowAfterRun, ProgramRunsOnce, ReceiptOf, Ran, Carried
<1> QED
  BY <1>1, CadInitially, CadStep, PTL DEF ProgramsSpec
-----------------------------------------------------------------------------
(* Sealed plans.                                                           *)

PlanRows ==
  [parent : Nat, base : Nat, epoch : Nat, open : BOOLEAN, pack : Packs, build : Builds,
   released : BOOLEAN]
TaskRuns == [revision : Nat, build : Builds]
TaskRecords ==
  [kind : {"preview", "commit"}, plan : Nat, of : Nat,
   at : {"awaiting", "approved", "queued", "sent", "ran", "refused"},
   told : {"none", "succeeded", "failed"}, stale : BOOLEAN, support : Supports \cup {"none"},
   epoch : Nat, overdue : BOOLEAN, ran : TaskRuns \cup {NotRun}]

\* Type correctness, with the shape of every record.
SealTypes ==
  /\ rollout \in [epoch : Nat, packs : SUBSET Packs]
  /\ runtime \in [build : Builds, packs : SUBSET Packs]
  /\ heard \in [build : Builds, revision : Nat] /\ drawn \in Nat
  /\ certified \in [Builds -> [support : Supports \cup {"none"}]]
  /\ lineage \in Seq(PlanRows) /\ tasks \in Seq(TaskRecords)

\* What is so of a task for good: it is of a sealed plan; a commit is of a preview of
\* that plan that succeeded; what ran, ran on what the plan was sealed for; and a
\* commit is released under the policy of its plan.
TaskSound(t) ==
  /\ tasks[t].plan \in RevisionIds /\ lineage[tasks[t].plan].epoch # Unsealed
  /\ tasks[t].kind = "commit" =>
       /\ tasks[t].of \in Tasks /\ tasks[tasks[t].of].told = "succeeded"
       /\ tasks[tasks[t].of].plan = tasks[t].plan
  /\ tasks[t].told = "succeeded" => tasks[t].at = "ran"
  /\ tasks[t].at = "ran" => /\ tasks[t].ran.revision = lineage[tasks[t].plan].base
                            /\ tasks[t].ran.build = lineage[tasks[t].plan].build
  /\ tasks[t].kind = "commit" /\ tasks[t].at \in {"queued", "sent", "ran"} =>
       tasks[t].epoch = lineage[tasks[t].plan].epoch

SealInv == SealTypes /\ \A t \in Tasks : TaskSound(t)

LEMMA SealInitially == PlansInit => SealInv
<1> SUFFICES ASSUME PlansInit PROVE SealInv
  OBVIOUS
<1>1. FirstBuild \in Builds
  BY SealedPlansAssumption DEF FirstBuild
<1>2. certified \in [Builds -> [support : Supports \cup {"none"}]]
  BY DEF PlansInit
<1>3. SealTypes
  BY <1>1, <1>2 DEF PlansInit, SealTypes
<1>4. Tasks = {}
  BY DEF PlansInit, Tasks
<1> QED
  BY <1>3, <1>4 DEF SealInv

\* A row with a plan is not changed any more, but for having been released.
RowsKept ==
  /\ Len(lineage) <= Len(lineage')
  /\ \A r \in RevisionIds : lineage[r].epoch # Unsealed =>
       /\ lineage'[r].base = lineage[r].base /\ lineage'[r].build = lineage[r].build
       /\ lineage'[r].epoch = lineage[r].epoch

\* What every step does that makes no new task.
TasksKept ==
  /\ RowsKept /\ Len(tasks') = Len(tasks)
  /\ \A t \in Tasks :
       /\ tasks'[t].kind = tasks[t].kind /\ tasks'[t].plan = tasks[t].plan
       /\ tasks'[t].of = tasks[t].of
       /\ tasks[t].told = "succeeded" => tasks'[t].told = "succeeded"
       /\ tasks'[t].told = "succeeded" => tasks'[t].at = "ran"
       /\ tasks'[t].at = "ran" => /\ tasks'[t].ran.revision = lineage[tasks[t].plan].base
                                  /\ tasks'[t].ran.build = lineage[tasks[t].plan].build
       /\ tasks'[t].kind = "commit" /\ tasks'[t].at \in {"queued", "sent", "ran"} =>
            tasks'[t].epoch = lineage[tasks[t].plan].epoch

LEMMA KeptSound ==
  ASSUME SealInv, TasksKept, SealTypes'
  PROVE  SealInv'
<1>1. Tasks' = Tasks /\ \A r \in RevisionIds : r \in RevisionIds'
  BY DEF TasksKept, RowsKept, Tasks, RevisionIds, SealInv, SealTypes
<1>2. ASSUME NEW t \in Tasks PROVE TaskSound(t)'
  <2>1. TaskSound(t) /\ tasks[t].plan \in RevisionIds /\ lineage[tasks[t].plan].epoch # Unsealed
    BY DEF SealInv, TaskSound
  <2>2. /\ lineage'[tasks[t].plan].base = lineage[tasks[t].plan].base
        /\ lineage'[tasks[t].plan].build = lineage[tasks[t].plan].build
        /\ lineage'[tasks[t].plan].epoch = lineage[tasks[t].plan].epoch
    BY <2>1 DEF TasksKept, RowsKept
  <2> QED
    BY <1>1, <2>1, <2>2 DEF TasksKept, TaskSound
<1> QED
  BY <1>1, <1>2 DEF SealInv

\* A step that leaves the tasks alone.
LEMMA RowsOnly ==
  ASSUME SealInv, RowsKept, UNCHANGED tasks
  PROVE  TasksKept
<1>1. \A t \in Tasks : TaskSound(t)
  BY DEF SealInv
<1> QED
  BY <1>1 DEF TasksKept, TaskSound

LEMMA SameRows == ASSUME SealTypes, UNCHANGED lineage PROVE RowsKept
  BY DEF RowsKept, SealTypes

\* One task replaced.
LEMMA OneTask ==
  ASSUME SealInv, RowsKept, NEW t \in Tasks, NEW r \in TaskRecords, tasks' = [tasks EXCEPT ![t] = r],
         r.kind = tasks[t].kind, r.plan = tasks[t].plan, r.of = tasks[t].of,
         tasks[t].told = "succeeded" => r.told = "succeeded",
         r.told = "succeeded" => r.at = "ran",
         r.at = "ran" => /\ r.ran.revision = lineage[tasks[t].plan].base
                         /\ r.ran.build = lineage[tasks[t].plan].build,
         r.kind = "commit" /\ r.at \in {"queued", "sent", "ran"} =>
           r.epoch = lineage[tasks[t].plan].epoch
  PROVE  TasksKept /\ tasks' \in Seq(TaskRecords)
<1>1. \A k \in Tasks : TaskSound(k)
  BY DEF SealInv
<1>2. /\ tasks' \in Seq(TaskRecords) /\ Len(tasks') = Len(tasks)
      /\ \A k \in Tasks : tasks'[k] = IF k = t THEN r ELSE tasks[k]
  BY DEF SealInv, SealTypes, Tasks
<1> QED
  BY <1>1, <1>2 DEF TasksKept, TaskSound

\* Steps behind the back of the plans.
LEMMA UpsetSteps ==
  ASSUME SealInv, EditByHand \/ Report \/ ReplaceRuntime \/ ChangePolicy
                  \/ \E b \in Builds, support \in Supports : Certify(b, support)
  PROVE  SealInv'
<1> USE DEF SealTypes
<1>1. SealTypes /\ UNCHANGED <<lineage, tasks>>
  BY DEF SealInv, EditByHand, Report, ReplaceRuntime, ChangePolicy, Certify
<1>2. TasksKept
  BY <1>1, SameRows, RowsOnly
<1>3. CASE EditByHand
  BY <1>1, <1>2, <1>3, KeptSound DEF EditByHand
<1>4. CASE Report
  <2>1. heard' \in [build : Builds, revision : Nat]
    BY <1>1, <1>4 DEF Report
  <2> QED
    BY <1>1, <1>2, <1>4, <2>1, KeptSound DEF Report
<1>5. CASE ReplaceRuntime
  <2>1. runtime' \in [build : Builds, packs : SUBSET Packs]
    BY <1>5 DEF ReplaceRuntime
  <2> QED
    BY <1>1, <1>2, <1>5, <2>1, KeptSound DEF ReplaceRuntime
<1>6. CASE ChangePolicy
  <2>1. rollout' \in [epoch : Nat, packs : SUBSET Packs]
    BY <1>1, <1>6 DEF ChangePolicy
  <2> QED
    BY <1>1, <1>2, <1>6, <2>1, KeptSound DEF ChangePolicy
<1>7. ASSUME NEW b \in Builds, NEW support \in Supports, Certify(b, support) PROVE SealInv'
  <2>1. certified' \in [Builds -> [support : Supports \cup {"none"}]]
    BY <1>1, <1>7 DEF Certify
  <2> QED
    BY <1>1, <1>2, <1>7, <2>1, KeptSound DEF Certify
<1> QED
  BY <1>3, <1>4, <1>5, <1>6, <1>7

LEMMA LapseEvidenceStep == ASSUME SealInv, NEW b \in Builds, LapseEvidence(b) PROVE SealInv'
<1>1. SealTypes /\ (\A t \in Tasks : TaskSound(t) /\ tasks[t] \in TaskRecords)
  BY DEF SealInv, SealTypes, Tasks
<1> DEFINE lapsed(t) == IF lineage[tasks[t].plan].build = b
                        THEN [tasks[t] EXCEPT !.stale = TRUE] ELSE tasks[t]
<1>2. \A t \in Tasks : lapsed(t) \in TaskRecords
  BY <1>1 DEF TaskRecords
<1>3. tasks' = [t \in 1 .. Len(tasks) |-> lapsed(t)]
  BY DEF LapseEvidence, Tasks
<1>4. tasks' \in Seq(TaskRecords) /\ Len(tasks') = Len(tasks) /\ \A t \in Tasks : tasks'[t] = lapsed(t)
  <2>1. Len(tasks) \in Nat
    BY <1>1 DEF SealTypes
  <2>2. tasks' \in [1 .. Len(tasks) -> TaskRecords] /\ \A t \in Tasks : tasks'[t] = lapsed(t)
    BY <1>2, <1>3 DEF Tasks
  <2> QED
    BY <2>1, <2>2
<1>5. \A t \in Tasks :
        /\ lapsed(t).kind = tasks[t].kind /\ lapsed(t).plan = tasks[t].plan
        /\ lapsed(t).of = tasks[t].of /\ lapsed(t).told = tasks[t].told
        /\ lapsed(t).at = tasks[t].at /\ lapsed(t).ran = tasks[t].ran
        /\ lapsed(t).epoch = tasks[t].epoch
  BY <1>1 DEF TaskRecords
<1> HIDE DEF lapsed
<1>6. UNCHANGED <<rollout, runtime, drawn, heard, lineage>>
  BY DEF LapseEvidence
<1>7. certified' \in [Builds -> [support : Supports \cup {"none"}]]
  BY <1>1 DEF LapseEvidence, SealTypes, Unsupported
<1>8. TasksKept
  BY <1>1, <1>4, <1>5, <1>6, SameRows DEF TasksKept, TaskSound
<1> QED
  BY <1>1, <1>4, <1>6, <1>7, <1>8, KeptSound DEF SealTypes

\* Steps that write a row of the lineage.
LEMMA RevisedRow ==
  ASSUME SealInv, NEW parent \in Nat, NEW base \in Nat, NEW epoch \in Nat, NEW open \in BOOLEAN,
         NEW pack \in Packs, NEW build \in Builds,
         lineage' = Revised(parent, base, epoch, open, pack, build),
         UNCHANGED <<rollout, runtime, drawn, heard, certified, tasks>>
  PROVE  SealInv'
<1> DEFINE row == [parent |-> parent, base |-> base, epoch |-> epoch, open |-> open,
                   pack |-> pack, build |-> build, released |-> FALSE]
<1>1. SealTypes /\ row \in PlanRows
  BY DEF SealInv, PlanRows
<1>2. lineage' = Append(lineage, row)
  BY DEF Revised
<1> HIDE DEF row
<1>3. lineage' \in Seq(PlanRows) /\ RowsKept
  BY <1>1, <1>2 DEF SealTypes, RowsKept, RevisionIds
<1> QED
  BY <1>1, <1>3, RowsOnly, KeptSound DEF SealTypes

LEMMA RevisionSteps ==
  ASSUME SealInv, PrepareRoot \/ PrepareRootAgain \/ \E r \in RevisionIds : Patch(r) \/ Rebase(r)
  PROVE  SealInv'
<1>1. /\ SealTypes /\ rollout.epoch \in Nat /\ heard.revision \in Nat /\ heard.build \in Builds
      /\ Root \in Nat /\ Unsealed \in Nat
      /\ \A r \in RevisionIds : lineage[r] \in PlanRows /\ r \in Nat
  BY DEF SealInv, SealTypes, RevisionIds, Root, Unsealed
<1>2. CASE PrepareRoot
  BY <1>1, <1>2, RevisedRow DEF PrepareRoot, PolicyDigest
<1>3. CASE PrepareRootAgain
  <2> DEFINE row == [lineage[1] EXCEPT !.epoch = PolicyDigest]
  <2>1. 1 \in RevisionIds
    BY <1>1, <1>3 DEF PrepareRootAgain, SealTypes, RevisionIds
  <2>2. row \in PlanRows
    BY <1>1, <2>1 DEF PlanRows, PolicyDigest
  <2>3. lineage' = [lineage EXCEPT ![1] = row] /\ lineage[1].epoch = Unsealed
    BY <1>3 DEF PrepareRootAgain
  <2> HIDE DEF row
  <2>4. lineage' \in Seq(PlanRows) /\ RowsKept
    BY <1>1, <2>1, <2>2, <2>3 DEF SealTypes, RowsKept, RevisionIds
  <2> QED
    BY <1>1, <1>3, <2>4, RowsOnly, KeptSound DEF PrepareRootAgain, SealTypes
<1>4. \A o \in Revisings : o.epoch \in Nat /\ o.open \in BOOLEAN
  <2> SUFFICES ASSUME NEW o \in Revisings PROVE o.epoch \in Nat /\ o.open \in BOOLEAN
    OBVIOUS
  <2>1. o.epoch \in {PolicyDigest, Unsealed} /\ o.open \in BOOLEAN
    <3>1. \/ o = [epoch |-> PolicyDigest, open |-> FALSE]
          \/ o = [epoch |-> Unsealed, open |-> TRUE]
          \/ o = [epoch |-> Unsealed, open |-> FALSE]
      BY DEF Revisings
    <3>2. o.epoch \in {PolicyDigest, Unsealed}
      BY <3>1
    <3>3. o.open = FALSE \/ o.open = TRUE
      BY <3>1
    <3> QED
      BY <3>2, <3>3
  <2> QED
    BY <1>1, <2>1 DEF PolicyDigest
<1>5. \A r \in RevisionIds : lineage[r].base \in Nat /\ lineage[r].pack \in Packs /\ lineage[r].build \in Builds
  BY <1>1 DEF PlanRows
<1>6. ASSUME NEW r \in RevisionIds, Patch(r) PROVE SealInv'
  BY <1>1, <1>4, <1>5, <1>6, RevisedRow DEF Patch
<1>7. ASSUME NEW r \in RevisionIds, Rebase(r) PROVE SealInv'
  BY <1>1, <1>4, <1>5, <1>7, RevisedRow DEF Rebase
<1> QED
  BY <1>2, <1>3, <1>6, <1>7

\* Steps of one task.
LEMMA ConsentedStep == ASSUME SealInv, NEW c \in Tasks, Consented(c) PROVE SealInv'
<1> DEFINE r == [tasks[c] EXCEPT !.at = "approved"]
<1>1. SealTypes /\ tasks[c] \in TaskRecords /\ TaskSound(c)
  BY DEF SealInv, SealTypes, Tasks
<1>2. r \in TaskRecords
  BY <1>1 DEF TaskRecords
<1>3. /\ r.kind = tasks[c].kind /\ r.plan = tasks[c].plan /\ r.of = tasks[c].of
      /\ r.ran = tasks[c].ran /\ r.epoch = tasks[c].epoch
      /\ r.told = tasks[c].told /\ r.at = "approved"
  BY <1>1 DEF TaskRecords
<1>4. tasks' = [tasks EXCEPT ![c] = r] /\ UNCHANGED <<rollout, runtime, drawn, heard, certified, lineage>>
  BY DEF Consented
<1>5. tasks[c].at = "awaiting" /\ tasks[c].told # "succeeded"
  BY <1>1 DEF Consented, TaskSound
<1> HIDE DEF r
<1>6. TasksKept /\ tasks' \in Seq(TaskRecords)
  BY <1>1, <1>2, <1>3, <1>4, <1>5, SameRows, OneTask DEF TaskSound
<1> QED
  BY <1>1, <1>4, <1>6, KeptSound DEF SealTypes

LEMMA SendTaskStep == ASSUME SealInv, NEW t \in Tasks, SendTask(t) PROVE SealInv'
<1> DEFINE r == [tasks[t] EXCEPT !.at = "sent"]
<1>1. SealTypes /\ tasks[t] \in TaskRecords /\ TaskSound(t)
  BY DEF SealInv, SealTypes, Tasks
<1>2. r \in TaskRecords
  BY <1>1 DEF TaskRecords
<1>3. /\ r.kind = tasks[t].kind /\ r.plan = tasks[t].plan /\ r.of = tasks[t].of
      /\ r.ran = tasks[t].ran /\ r.epoch = tasks[t].epoch
      /\ r.told = tasks[t].told /\ r.at = "sent"
  BY <1>1 DEF TaskRecords
<1>4. tasks' = [tasks EXCEPT ![t] = r] /\ UNCHANGED <<rollout, runtime, drawn, heard, certified, lineage>>
  BY DEF SendTask
<1>5. tasks[t].at = "queued" /\ tasks[t].told # "succeeded"
  BY <1>1 DEF SendTask, TaskSound
<1> HIDE DEF r
<1>6. TasksKept /\ tasks' \in Seq(TaskRecords)
  BY <1>1, <1>2, <1>3, <1>4, <1>5, SameRows, OneTask DEF TaskSound
<1> QED
  BY <1>1, <1>4, <1>6, KeptSound DEF SealTypes

LEMMA PreviewLapsesStep == ASSUME SealInv, NEW p \in Tasks, PreviewLapses(p) PROVE SealInv'
<1> DEFINE r == [tasks[p] EXCEPT !.overdue = TRUE]
<1>1. SealTypes /\ tasks[p] \in TaskRecords /\ TaskSound(p)
  BY DEF SealInv, SealTypes, Tasks
<1>2. r \in TaskRecords
  BY <1>1 DEF TaskRecords
<1>3. /\ r.kind = tasks[p].kind /\ r.plan = tasks[p].plan /\ r.of = tasks[p].of
      /\ r.ran = tasks[p].ran /\ r.epoch = tasks[p].epoch
      /\ r.told = tasks[p].told /\ r.at = tasks[p].at
  BY <1>1 DEF TaskRecords
<1>4. tasks' = [tasks EXCEPT ![p] = r] /\ UNCHANGED <<rollout, runtime, drawn, heard, certified, lineage>>
  BY DEF PreviewLapses
<1>5. tasks[p].told = "succeeded" => tasks[p].at = "ran"
  BY <1>1 DEF PreviewLapses, TaskSound
<1> HIDE DEF r
<1>6. TasksKept /\ tasks' \in Seq(TaskRecords)
  BY <1>1, <1>2, <1>3, <1>4, <1>5, SameRows, OneTask DEF TaskSound
<1> QED
  BY <1>1, <1>4, <1>6, KeptSound DEF SealTypes

LEMMA RefuseTaskStep == ASSUME SealInv, NEW t \in Tasks, RefuseTask(t) PROVE SealInv'
<1> DEFINE r == [tasks[t] EXCEPT !.at = "refused", !.told = "failed"]
<1>1. SealTypes /\ tasks[t] \in TaskRecords /\ TaskSound(t)
  BY DEF SealInv, SealTypes, Tasks
<1>2. r \in TaskRecords
  BY <1>1 DEF TaskRecords
<1>3. /\ r.kind = tasks[t].kind /\ r.plan = tasks[t].plan /\ r.of = tasks[t].of
      /\ r.ran = tasks[t].ran /\ r.epoch = tasks[t].epoch
      /\ r.told = "failed" /\ r.at = "refused"
  BY <1>1 DEF TaskRecords
<1>4. tasks' = [tasks EXCEPT ![t] = r] /\ UNCHANGED <<rollout, runtime, drawn, heard, certified, lineage>>
  BY DEF RefuseTask
<1>5. tasks[t].told # "succeeded"
  BY <1>1 DEF RefuseTask, TaskSound
<1> HIDE DEF r
<1>6. TasksKept /\ tasks' \in Seq(TaskRecords)
  BY <1>1, <1>2, <1>3, <1>4, <1>5, SameRows, OneTask DEF TaskSound
<1> QED
  BY <1>1, <1>4, <1>6, KeptSound DEF SealTypes

\* A release: under the policy of the plan, which has just been looked at.
LEMMA ReleaseStep == ASSUME SealInv, NEW c \in Tasks, ReleasePlan(c) PROVE SealInv'
<1> DEFINE plan_ == tasks[c].plan
           support == certified[lineage[plan_].build].support
           r == [tasks[c] EXCEPT !.at = "queued", !.stale = FALSE, !.epoch = PolicyDigest,
                                 !.support = support]
           row == [lineage[plan_] EXCEPT !.released = TRUE]
<1>1. /\ SealTypes /\ tasks[c] \in TaskRecords /\ TaskSound(c) /\ plan_ \in RevisionIds
      /\ lineage[plan_] \in PlanRows
  BY DEF SealInv, SealTypes, Tasks, TaskSound, RevisionIds
<1>2. support \in Supports \cup {"none"} /\ PolicyDigest \in Nat
  BY <1>1 DEF SealTypes, PlanRows, PolicyDigest
<1>3. r \in TaskRecords
  BY <1>1, <1>2 DEF TaskRecords
<1>4. /\ r.kind = tasks[c].kind /\ r.plan = plan_ /\ r.of = tasks[c].of /\ r.told = tasks[c].told
      /\ r.at = "queued" /\ r.epoch = PolicyDigest
  BY <1>1 DEF TaskRecords
<1>5. /\ row \in PlanRows /\ row.base = lineage[plan_].base /\ row.build = lineage[plan_].build
      /\ row.epoch = lineage[plan_].epoch
  BY <1>1 DEF PlanRows
<1>6. tasks' = [tasks EXCEPT ![c] = r] /\ lineage' = [lineage EXCEPT ![plan_] = row]
  BY DEF ReleasePlan, Released
<1>7. /\ tasks[c].told # "succeeded" /\ lineage[plan_].epoch = PolicyDigest
      /\ UNCHANGED <<rollout, runtime, drawn, heard, certified>>
  BY <1>1 DEF ReleasePlan, TaskSound, Admit, PolicyHolds
<1> HIDE DEF r, row, support
<1>8. lineage' \in Seq(PlanRows) /\ RowsKept
  BY <1>1, <1>5, <1>6 DEF SealTypes, RowsKept, RevisionIds
<1>9. TasksKept /\ tasks' \in Seq(TaskRecords)
  BY <1>1, <1>3, <1>4, <1>6, <1>7, <1>8, OneTask
<1> QED
  BY <1>1, <1>7, <1>8, <1>9, KeptSound DEF SealTypes

\* A run: on the revision and the build the plan was sealed for.
LEMMA ExecuteStep == ASSUME SealInv, NEW t \in Tasks, ExecuteTask(t) PROVE SealInv'
<1> DEFINE run == [revision |-> drawn, build |-> runtime.build]
           r == [tasks[t] EXCEPT !.at = "ran", !.told = VerifyResult(t), !.ran = run]
<1>1. SealTypes /\ tasks[t] \in TaskRecords /\ TaskSound(t)
  BY DEF SealInv, SealTypes, Tasks
<1>2. VerifyResult(t) \in {"succeeded", "failed"} /\ run \in TaskRuns
  BY <1>1 DEF VerifyResult, SealTypes, TaskRuns
<1>3. r \in TaskRecords
  BY <1>1, <1>2 DEF TaskRecords
<1>4. /\ r.kind = tasks[t].kind /\ r.plan = tasks[t].plan /\ r.of = tasks[t].of
      /\ r.epoch = tasks[t].epoch /\ r.told = VerifyResult(t) /\ r.at = "ran" /\ r.ran = run
  BY <1>1 DEF TaskRecords
<1>5. /\ run.revision = lineage[tasks[t].plan].base /\ run.build = lineage[tasks[t].plan].build
      /\ tasks[t].at = "sent"
  BY DEF ExecuteTask, Executable, RevisionIs, HostFits
<1>6. tasks[t].told # "succeeded"
  BY <1>1, <1>5 DEF TaskSound
<1>7. tasks' = [tasks EXCEPT ![t] = r] /\ UNCHANGED <<rollout, runtime, heard, certified, lineage>>
  BY DEF ExecuteTask
<1>8. drawn' \in Nat
  BY <1>1 DEF ExecuteTask, SealTypes
<1>9. r.kind = "commit" => r.epoch = lineage[tasks[t].plan].epoch
  BY <1>1, <1>4, <1>5 DEF TaskSound
<1> HIDE DEF r, run
<1>10. TasksKept /\ tasks' \in Seq(TaskRecords)
  BY <1>1, <1>3, <1>4, <1>5, <1>6, <1>7, <1>9, SameRows, OneTask
<1> QED
  BY <1>1, <1>7, <1>8, <1>10, KeptSound DEF SealTypes

\* A new task, of a plan that is admitted.
LEMMA NewTask ==
  ASSUME SealInv, NEW kind \in {"preview", "commit"}, NEW r, NEW of \in Nat,
         NEW at \in {"awaiting", "queued"}, Admit(r, kind), at = "queued" => kind = "preview",
         kind = "commit" => /\ of \in Tasks /\ tasks[of].told = "succeeded" /\ tasks[of].plan = r,
         tasks' = Append(tasks, Task(kind, r, of, at)),
         UNCHANGED <<rollout, runtime, drawn, heard, certified, lineage>>
  PROVE  SealInv'
<1> DEFINE new == Task(kind, r, of, at)
           n == Len(tasks) + 1
<1>1. /\ SealTypes /\ r \in RevisionIds /\ lineage[r].epoch # Unsealed /\ lineage[r] \in PlanRows
      /\ r \in Nat
  BY DEF SealInv, SealTypes, RevisionIds, Admit
<1>2. certified[lineage[r].build].support \in Supports \cup {"none"} /\ PolicyDigest \in Nat
  BY <1>1 DEF SealTypes, PlanRows, PolicyDigest
<1>3. new \in TaskRecords
  BY <1>1, <1>2 DEF Task, TaskRecords
<1>4. /\ new.kind = kind /\ new.plan = r /\ new.of = of /\ new.at = at /\ new.told = "none"
  BY DEF Task
<1> HIDE DEF new
<1>5. /\ tasks' \in Seq(TaskRecords) /\ Tasks' = Tasks \cup {n} /\ tasks'[n] = new
      /\ \A t \in Tasks : tasks'[t] = tasks[t]
  BY <1>1, <1>3 DEF SealTypes, Tasks, new
<1> HIDE DEF n
<1>6. ASSUME NEW t \in Tasks PROVE TaskSound(t)'
  <2>1. TaskSound(t)
    BY DEF SealInv
  <2>2. tasks[t].kind = "commit" => tasks'[tasks[t].of] = tasks[tasks[t].of]
    BY <1>5, <2>1 DEF TaskSound
  <2> QED
    BY <1>5, <2>1, <2>2 DEF TaskSound, RevisionIds
<1>7. ASSUME NEW t, t = n PROVE TaskSound(t)'
  <2>1. /\ tasks'[t].kind = kind /\ tasks'[t].plan = r /\ tasks'[t].of = of /\ tasks'[t].at = at
        /\ tasks'[t].told = "none" /\ r \in RevisionIds' /\ lineage' = lineage
    BY <1>1, <1>4, <1>5, <1>7 DEF RevisionIds
  <2>2. kind = "commit" => of \in Tasks' /\ tasks'[of] = tasks[of] /\ at = "awaiting"
    BY <1>5
  <2> QED
    BY <1>1, <2>1, <2>2 DEF TaskSound
<1>8. \A t \in Tasks' : TaskSound(t)'
  BY <1>5, <1>6, <1>7
<1> QED
  BY <1>1, <1>5, <1>8 DEF SealInv, SealTypes

LEMMA AskSteps ==
  ASSUME SealInv
  PROVE  /\ \A r \in RevisionIds : AskPreview(r) => SealInv'
         /\ \A p \in Tasks : AskCommit(p) => SealInv'
<1>1. ASSUME NEW r \in RevisionIds, AskPreview(r) PROVE SealInv'
  BY <1>1, NewTask DEF AskPreview
<1>2. ASSUME NEW p \in Tasks, AskCommit(p) PROVE SealInv'
  <2>1. p \in Nat /\ tasks[p].told = "succeeded"
    BY <1>2 DEF AskCommit, PreviewResult, Tasks
  <2> QED
    BY <1>2, <2>1, NewTask DEF AskCommit
<1> QED
  BY <1>1, <1>2

LEMMA SealStep == SealInv /\ [PlansNext]_sealedVars => SealInv'
<1> SUFFICES ASSUME SealInv, [PlansNext]_sealedVars PROVE SealInv'
  OBVIOUS
<1>1. CASE UNCHANGED sealedVars
  BY <1>1, SameRows, RowsOnly, KeptSound DEF sealedVars, SealInv, SealTypes
<1>2. CASE PlansNext
  BY <1>2, UpsetSteps, LapseEvidenceStep, RevisionSteps, AskSteps, ConsentedStep, ReleaseStep,
     SendTaskStep, PreviewLapsesStep, ExecuteStep, RefuseTaskStep DEF PlansNext
<1> QED
  BY <1>1, <1>2

\* A sealed plan changes the drawing only on the revision and the build it was sealed
\* for and its preview ran on, released under the policy it was sealed under (admit,
\* _phase8_commit_payload_provider, verify, Parse).
THEOREM PlansAsSealed == PlansSpec => []CommittedAsSealed
<1>1. SealInv => CommittedAsSealed
  <2> SUFFICES ASSUME SealInv, NEW c \in CommitsRun
               PROVE  LET sealed == lineage[tasks[c].plan]
                          preview == tasks[tasks[c].of]
                      IN /\ \A run \in {tasks[c].ran, preview.ran} :
                              run.revision = sealed.base /\ run.build = sealed.build
                         /\ preview.plan = tasks[c].plan /\ tasks[c].epoch = sealed.epoch
    BY DEF CommittedAsSealed
  <2>1. c \in Tasks /\ tasks[c].kind = "commit" /\ tasks[c].at = "ran" /\ TaskSound(c)
    BY DEF CommitsRun, SealInv
  <2>2. tasks[c].of \in Tasks /\ TaskSound(tasks[c].of)
    BY <2>1 DEF SealInv, TaskSound
  <2> QED
    BY <2>1, <2>2 DEF TaskSound
<1> QED
  BY <1>1, SealInitially, SealStep, PTL DEF PlansSpec
-----------------------------------------------------------------------------
(* Dimension plans.                                                        *)

PlanRecords ==
  [status : {"draft", "committing", "committed", "gone"}, revision : 1 .. LastRevision,
   drawing : Drawings, geometry : Geometries, cached : BOOLEAN]
GatheringCalls ==
  [stage : {"collected"}, tool : {"detect", "plan", "auto", "batch"}, geometry : Geometries,
   cached : BOOLEAN]
CommitCalls ==
  [stage : {"checking", "locking", "locked", "drawing"}, plan : DimPlans, asked : 1 .. LastRevision]
DrawingWork ==
  [plan : DimPlans, call : ToolCalls, revision : 1 .. LastRevision, asked : 1 .. LastRevision,
   drawing : Drawings, started : BOOLEAN]

\* Type correctness, with the shape of every record; the geometry of a drawing is no
\* newer than the changes made.
DimTypes ==
  /\ plans \in [DimPlans -> {NoPlan} \cup PlanRecords]
  /\ shown \subseteq DimPlans /\ snapshot \in {NoGeometry} \cup [of : Drawings, geometry : Geometries]
  /\ tools \in [ToolCalls -> {NotCalled, CallEnded} \cup GatheringCalls \cup CommitCalls]
  /\ current \in Drawings /\ shapes \in [Drawings -> Nat] /\ changes \in 0 .. MaxUserSteps
  /\ \A d \in Drawings : shapes[d] <= changes
  /\ inHand \in {NoWork} \cup DrawingWork
  /\ reports \in [ToolCalls -> {NoReport, "drawn", "undone"}]
  /\ timesDrawn \in [DimPlans -> Nat] /\ unheard \in [DimPlans -> Nat]

HasLock(c) == tools[c].stage \in {"locked", "drawing"}

\* The commit lock: one call has it, and its plan is being committed at the revision
\* the call asked for.
DimLockInv ==
  /\ \A c, d \in ToolCalls : HasLock(c) /\ HasLock(d) => c = d
  /\ \A c \in ToolCalls : HasLock(c) =>
       /\ tools[c] \in CommitCalls
       /\ plans[tools[c].plan].status = "committing"
       /\ plans[tools[c].plan].revision = tools[c].asked

\* A call that waits for AutoCAD has its plan in hand there, or a report.
DrawingInv ==
  \A c \in ToolCalls :
    /\ tools[c].stage = "drawing" =>
         \/ /\ inHand \in DrawingWork /\ inHand.call = c /\ inHand.plan = tools[c].plan
            /\ inHand.asked = tools[c].asked /\ reports[c] = NoReport
         \/ inHand = NoWork /\ reports[c] # NoReport
    /\ reports[c] # NoReport => tools[c].stage = "drawing"
    /\ reports[c] = "drawn" =>
         \E d \in drawnAs : d.plan = tools[c].plan /\ d.revision = tools[c].asked

AskedInv ==
  /\ inHand \in DrawingWork => inHand.revision = inHand.asked
  /\ DrawnAsApproved

\* What AutoCAD has in hand of a plan, and whether a call may still hear of it.
InHandOf(p) == IF inHand \in DrawingWork /\ inHand.plan = p THEN 1 ELSE 0
MayHear(p) ==
  \/ plans[p].status \in {"committed", "gone"}
  \/ \E c \in ToolCalls :
       tools[c].stage = "drawing" /\ tools[c].plan = p /\ reports[c] # "undone"
Allowed(p) == IF MayHear(p) THEN 1 ELSE 0

\* Times drawn, and work in hand that will draw it, are accounted for.
CountInv == \A p \in DimPlans : timesDrawn[p] + InHandOf(p) <= Allowed(p) + unheard[p]

DimInv == DimTypes /\ DimLockInv /\ DrawingInv /\ AskedInv /\ CountInv

LEMMA NoWorkIsNone == NoWork \notin DrawingWork
<1> SUFFICES ASSUME NoWork \in DrawingWork PROVE FALSE
  OBVIOUS
<1>1. DOMAIN NoWork = {"started"}
  BY DEF NoWork
<1>2. "plan" \in DOMAIN NoWork
  BY DEF DrawingWork
<1> QED
  BY <1>1, <1>2

LEMMA DimInitially == DimInit => DimInv
<1> SUFFICES ASSUME DimInit PROVE DimInv
  OBVIOUS
<1> USE DEF DimInit
<1>1. /\ plans \in [DimPlans -> {NoPlan} \cup PlanRecords]
      /\ tools \in [ToolCalls -> {NotCalled, CallEnded} \cup GatheringCalls \cup CommitCalls]
      /\ shapes \in [Drawings -> Nat] /\ \A d \in Drawings : shapes[d] <= changes
  OBVIOUS
<1>2. timesDrawn = [p \in DimPlans |-> 0] /\ unheard = [p \in DimPlans |-> 0]
  OBVIOUS
<1>3. reports = [c \in ToolCalls |-> NoReport] /\ inHand = NoWork
  OBVIOUS
<1>4. DimTypes
  BY <1>1, <1>2, <1>3, DimensionPlansAssumption DEF DimTypes
<1>5. \A c \in ToolCalls : tools[c].stage = "new"
  BY DEF NotCalled
<1>6. \A p \in DimPlans : plans[p].status = "none"
  BY DEF NoPlan
<1>7. DimLockInv /\ DrawingInv
  BY <1>3, <1>5 DEF DimLockInv, DrawingInv, HasLock, NoReport
<1>8. AskedInv
  BY <1>3, <1>6, NoWorkIsNone DEF AskedInv, DrawnAsApproved
<1>9. CountInv
  BY <1>2, <1>3, NoWorkIsNone DEF CountInv, InHandOf, Allowed
<1> QED
  BY <1>4, <1>7, <1>8, <1>9 DEF DimInv

\* What a step does that has nothing to do with the lock or with AutoCAD's drawing:
\* plans are made, revised and dropped, calls move before the lock and work starts.
PlanQuiet(p) ==
  \/ plans'[p] = plans[p]
  \/ /\ plans[p].status \in {"none", "draft"} /\ plans'[p].status \in {"draft", "gone"}
  \/ plans[p].status = "committed" /\ plans'[p].status = "gone"
DimQuiet ==
  /\ UNCHANGED <<reports, drawnVars>>
  /\ \A p \in DimPlans : PlanQuiet(p)
  /\ \A c \in ToolCalls : tools'[c] = tools[c] \/ (~HasLock(c) /\ ~HasLock(c)')
  /\ \/ inHand' = inHand
     \/ /\ inHand \in DrawingWork /\ inHand' \in DrawingWork
        /\ inHand'.call = inHand.call /\ inHand'.plan = inHand.plan
        /\ inHand'.revision = inHand.revision /\ inHand'.asked = inHand.asked

LEMMA QuietKeeps ==
  ASSUME DimInv, DimQuiet, DimTypes'
  PROVE  DimInv'
<1> USE DEF DimInv
<1>1. UNCHANGED <<reports, timesDrawn, unheard, drawnAs>>
  BY DEF DimQuiet, drawnVars
<1>2. \A c \in ToolCalls : /\ HasLock(c)' <=> HasLock(c)
                           /\ HasLock(c) => tools'[c] = tools[c]
                           /\ tools'[c].stage = "drawing" <=> tools[c].stage = "drawing"
  BY DEF DimQuiet, HasLock
<1>3. \A p \in DimPlans : plans[p].status \in {"committing"} => plans'[p] = plans[p]
  BY DEF DimQuiet, PlanQuiet
<1>4. DimLockInv'
  <2>1. \A c \in ToolCalls : HasLock(c) => tools[c].plan \in DimPlans
    BY DEF DimLockInv, CommitCalls
  <2> QED
    BY <1>2, <1>3, <2>1 DEF DimLockInv
<1>5. DrawingInv'
  <2>1. \A c \in ToolCalls : tools[c].stage = "drawing" => tools'[c] = tools[c]
    BY <1>2 DEF HasLock
  <2>2. inHand = NoWork => inHand' = NoWork
    BY NoWorkIsNone DEF DimQuiet
  <2>3. ASSUME NEW c \in ToolCalls, tools'[c].stage = "drawing"
        PROVE  \/ /\ inHand' \in DrawingWork /\ inHand'.call = c /\ inHand'.plan = tools'[c].plan
                  /\ inHand'.asked = tools'[c].asked /\ reports'[c] = NoReport
               \/ inHand' = NoWork /\ reports'[c] # NoReport
    <3>1. tools[c].stage = "drawing" /\ tools'[c] = tools[c] /\ reports'[c] = reports[c]
      BY <1>1, <1>2, <2>1, <2>3
    <3>2. CASE inHand = NoWork
      BY <2>2, <3>1, <3>2, NoWorkIsNone DEF DrawingInv
    <3>3. CASE inHand # NoWork
      BY <3>1, <3>3 DEF DrawingInv, DimQuiet
    <3> QED
      BY <3>2, <3>3
  <2>4. ASSUME NEW c \in ToolCalls, reports'[c] # NoReport
        PROVE  /\ tools'[c].stage = "drawing"
               /\ reports'[c] = "drawn" =>
                    \E d \in drawnAs' : d.plan = tools'[c].plan /\ d.revision = tools'[c].asked
    BY <1>1, <2>1, <2>4 DEF DrawingInv
  <2> QED
    BY <2>3, <2>4 DEF DrawingInv, NoReport
<1>6. AskedInv'
  <2>1. \A p \in DimPlans : plans'[p].status = "committed" => plans'[p] = plans[p]
    BY DEF DimQuiet, PlanQuiet
  <2> QED
    BY <1>1, <2>1 DEF AskedInv, DimQuiet, DrawnAsApproved
<1>7. CountInv'
  <2> SUFFICES ASSUME NEW p \in DimPlans
               PROVE  timesDrawn[p] + InHandOf(p)' <= Allowed(p)' + unheard[p]
    BY <1>1 DEF CountInv
  <2>1. InHandOf(p)' = InHandOf(p) /\ InHandOf(p) \in {0, 1}
    BY DEF InHandOf, DimQuiet
  <2>2. MayHear(p) => MayHear(p)'
    <3>1. plans[p].status \in {"committed", "gone"} => plans'[p].status \in {"committed", "gone"}
      BY DEF DimQuiet, PlanQuiet
    <3>2. \A c \in ToolCalls : tools[c].stage = "drawing" => tools'[c] = tools[c]
      BY <1>2 DEF HasLock
    <3> QED
      BY <1>1, <3>1, <3>2 DEF MayHear
  <2>3. Allowed(p) \in {0, 1} /\ Allowed(p)' \in {0, 1} /\ Allowed(p) <= Allowed(p)'
    BY <2>2 DEF Allowed
  <2> QED
    BY <2>1, <2>3 DEF CountInv, DimTypes
<1> QED
  BY <1>4, <1>5, <1>6, <1>7

\* The geometry that is exported, and calls that move before the lock.
LEMMA ExportedTyped == DimTypes => Exported \in Geometries
<1> SUFFICES ASSUME DimTypes PROVE Exported \in Geometries
  OBVIOUS
<1>1. shapes[current] \in 0 .. MaxUserSteps
  BY DimensionPlansAssumption DEF DimTypes
<1> QED
  BY <1>1 DEF DimTypes, Exported, Geometries

LEMMA CallMoves ==
  ASSUME DimInv, NEW c \in ToolCalls, ~HasLock(c),
         NEW r \in {NotCalled, CallEnded} \cup GatheringCalls \cup CommitCalls,
         r.stage \notin {"locked", "drawing"}, tools' = [tools EXCEPT ![c] = r]
  PROVE  /\ tools' \in [ToolCalls -> {NotCalled, CallEnded} \cup GatheringCalls \cup CommitCalls]
         /\ \A d \in ToolCalls : tools'[d] = tools[d] \/ (~HasLock(d) /\ ~HasLock(d)')
  BY DEF DimInv, DimTypes, HasLock

LEMMA GatheringSteps ==
  ASSUME DimInv, NEW c \in ToolCalls,
         \/ \E tool \in {"detect", "plan", "auto"}, fromCache \in BOOLEAN, g \in Geometries :
              Collect(c, tool, g, fromCache)
         \/ StartBatch(c) \/ KeepSnapshot(c) \/ NoRoom(c)
  PROVE  DimInv'
<1>1. DimTypes /\ Exported \in Geometries
  BY ExportedTyped DEF DimInv
<1>2. CallEnded.stage \notin {"locked", "drawing"}
  BY DEF CallEnded
<1>3. ASSUME NEW tool \in {"detect", "plan", "auto"}, NEW fromCache \in BOOLEAN, NEW g \in Geometries,
             Collect(c, tool, g, fromCache)
      PROVE  DimInv'
  <2> DEFINE r == [stage |-> "collected", tool |-> tool, geometry |-> g, cached |-> fromCache]
  <2>1. r \in GatheringCalls /\ r.stage = "collected"
    BY DEF GatheringCalls
  <2>2. tools' = [tools EXCEPT ![c] = r] /\ ~HasLock(c)
    BY <1>3 DEF Collect, At, HasLock
  <2> HIDE DEF r
  <2>3. /\ tools' \in [ToolCalls -> {NotCalled, CallEnded} \cup GatheringCalls \cup CommitCalls]
        /\ \A d \in ToolCalls : tools'[d] = tools[d] \/ (~HasLock(d) /\ ~HasLock(d)')
    BY <2>1, <2>2, CallMoves
  <2> QED
    BY <1>1, <1>3, <2>3, QuietKeeps DEF Collect, DimQuiet, PlanQuiet, DimTypes, autocad, drawnVars
<1>4. CASE StartBatch(c)
  <2> DEFINE r == [stage |-> "collected", tool |-> "batch", geometry |-> Exported, cached |-> FALSE]
  <2>1. r \in GatheringCalls /\ r.stage = "collected"
    BY <1>1 DEF GatheringCalls
  <2>2. tools' = [tools EXCEPT ![c] = r] /\ ~HasLock(c)
    BY <1>4 DEF StartBatch, At, HasLock
  <2> HIDE DEF r
  <2>3. /\ tools' \in [ToolCalls -> {NotCalled, CallEnded} \cup GatheringCalls \cup CommitCalls]
        /\ \A d \in ToolCalls : tools'[d] = tools[d] \/ (~HasLock(d) /\ ~HasLock(d)')
    BY <2>1, <2>2, CallMoves
  <2> QED
    BY <1>1, <1>4, <2>3, QuietKeeps DEF StartBatch, DimQuiet, PlanQuiet, DimTypes, autocad, drawnVars
<1>5. CASE KeepSnapshot(c)
  <2>1. tools[c] \in GatheringCalls
    BY <1>1, <1>5 DEF KeepSnapshot, At, DimTypes, NotCalled, CallEnded, CommitCalls
  <2>2. snapshot' \in {NoGeometry} \cup [of : Drawings, geometry : Geometries]
    BY <1>1, <1>5, <2>1 DEF KeepSnapshot, DimTypes, GatheringCalls
  <2>3. /\ tools' \in [ToolCalls -> {NotCalled, CallEnded} \cup GatheringCalls \cup CommitCalls]
        /\ \A d \in ToolCalls : tools'[d] = tools[d] \/ (~HasLock(d) /\ ~HasLock(d)')
    BY <1>2, <1>5, CallMoves DEF KeepSnapshot, At, HasLock, EndCall
  <2> QED
    BY <1>1, <1>5, <2>2, <2>3, QuietKeeps DEF KeepSnapshot, DimQuiet, PlanQuiet, DimTypes, autocad, drawnVars
<1>6. CASE NoRoom(c)
  <2>1. /\ tools' \in [ToolCalls -> {NotCalled, CallEnded} \cup GatheringCalls \cup CommitCalls]
        /\ \A d \in ToolCalls : tools'[d] = tools[d] \/ (~HasLock(d) /\ ~HasLock(d)')
    BY <1>2, <1>6, CallMoves DEF NoRoom, At, HasLock, EndCall
  <2> QED
    BY <1>1, <1>6, <2>1, QuietKeeps DEF NoRoom, DimQuiet, PlanQuiet, DimTypes, autocad, drawnVars
<1> QED
  BY <1>3, <1>4, <1>5, <1>6

\* One plan whose status changes.
LEMMA StatusWritten ==
  ASSUME DimTypes, NEW p \in DimPlans, NEW status \in {"draft", "committing", "committed", "gone"},
         plans[p].status # "none"
  PROVE  /\ plans[p] \in PlanRecords
         /\ WithStatus(p, status) \in [DimPlans -> {NoPlan} \cup PlanRecords]
         /\ WithStatus(p, status)[p].status = status
         /\ WithStatus(p, status)[p].revision = plans[p].revision
         /\ \A q \in DimPlans : q # p => WithStatus(p, status)[q] = plans[q]
<1>1. plans[p] \in PlanRecords
  BY DEF DimTypes, NoPlan
<1>2. [plans[p] EXCEPT !.status = status] \in PlanRecords
  BY <1>1 DEF PlanRecords
<1>3. WithStatus(p, status) = [plans EXCEPT ![p] = [plans[p] EXCEPT !.status = status]]
  BY DEF WithStatus
<1> QED
  BY <1>1, <1>2, <1>3 DEF DimTypes, PlanRecords

LEMMA CreatePlanStep ==
  ASSUME DimInv, NEW c \in ToolCalls, NEW p \in DimPlans, CreatePlan(c, p)
  PROVE  DimInv'
<1> DEFINE new == [status |-> "draft", revision |-> 1, drawing |-> current,
                   geometry |-> tools[c].geometry, cached |-> tools[c].cached]
           next == [stage |-> IF tools[c].cached THEN "checking" ELSE "locking", plan |-> p, asked |-> 1]
<1>1. DimTypes /\ tools[c].stage = "collected" /\ plans[p].status = "none"
  BY DEF DimInv, CreatePlan, At, Unused
<1>2. tools[c] \in GatheringCalls /\ ~HasLock(c)
  BY <1>1 DEF DimTypes, NotCalled, CallEnded, CommitCalls, HasLock
<1>3. 1 \in 1 .. LastRevision
  BY DimensionPlansAssumption
<1>4. new \in PlanRecords /\ new.status = "draft"
  BY <1>1, <1>2, <1>3 DEF DimTypes, PlanRecords, GatheringCalls
<1>5. next \in CommitCalls /\ next.stage \in {"checking", "locking"}
  BY <1>3 DEF CommitCalls
<1>6. PICK kept : Room(kept) /\ plans' = [kept EXCEPT ![p] = new]
  BY DEF CreatePlan
<1>7. /\ kept \in [DimPlans -> {NoPlan} \cup PlanRecords]
      /\ \A q \in DimPlans :
           kept[q] = plans[q] \/ (plans[q].status = "committed" /\ kept[q].status = "gone")
  <2>1. CASE kept = plans
    BY <1>1, <2>1 DEF DimTypes
  <2>2. CASE kept # plans
    <3>1. PICK q \in DimPlans : plans[q].status = "committed" /\ kept = WithStatus(q, "gone")
      BY <1>6, <2>2 DEF Room, OldestCommitted
    <3> QED
      BY <1>1, <3>1, StatusWritten
  <2> QED
    BY <2>1, <2>2
<1> HIDE DEF new, next
<1>8. plans' \in [DimPlans -> {NoPlan} \cup PlanRecords] /\ \A q \in DimPlans : PlanQuiet(q)
  BY <1>1, <1>4, <1>6, <1>7 DEF PlanQuiet
<1>9. \/ tools' = [tools EXCEPT ![c] = CallEnded] /\ shown' \subseteq DimPlans
      \/ tools' = [tools EXCEPT ![c] = next] /\ shown' = shown
  BY <1>1 DEF CreatePlan, EndCall, DimTypes, next
<1>10. /\ tools' \in [ToolCalls -> {NotCalled, CallEnded} \cup GatheringCalls \cup CommitCalls]
       /\ \A d \in ToolCalls : tools'[d] = tools[d] \/ (~HasLock(d) /\ ~HasLock(d)')
  BY <1>2, <1>5, <1>9, CallMoves DEF CallEnded
<1> QED
  BY <1>1, <1>8, <1>9, <1>10, QuietKeeps DEF CreatePlan, DimQuiet, DimTypes, autocad, drawnVars
LEMMA CommitCallSteps ==
  ASSUME DimInv, NEW c \in ToolCalls,
         \/ CheckGeometry(c)
         \/ \E p \in DimPlans, r \in 1 .. LastRevision : CallCommit(c, p, r)
  PROVE  DimInv'
<1>1. DimTypes /\ CallEnded.stage = "over"
  BY DEF DimInv, CallEnded
<1>2. ASSUME NEW p \in DimPlans, NEW r \in 1 .. LastRevision, CallCommit(c, p, r) PROVE DimInv'
  <2> DEFINE next == [stage |-> IF plans[p].status = "draft" THEN "checking" ELSE "locking",
                      plan |-> p, asked |-> r]
  <2>1. next \in CommitCalls /\ next.stage \in {"checking", "locking"}
    BY DEF CommitCalls
  <2>2. tools' = [tools EXCEPT ![c] = next] /\ ~HasLock(c)
    BY <1>2 DEF CallCommit, At, HasLock
  <2> HIDE DEF next
  <2>3. /\ tools' \in [ToolCalls -> {NotCalled, CallEnded} \cup GatheringCalls \cup CommitCalls]
        /\ \A d \in ToolCalls : tools'[d] = tools[d] \/ (~HasLock(d) /\ ~HasLock(d)')
    BY <2>1, <2>2, CallMoves
  <2> QED
    BY <1>1, <1>2, <2>3, QuietKeeps DEF CallCommit, DimQuiet, PlanQuiet, DimTypes, autocad, drawnVars
<1>3. CASE CheckGeometry(c)
  <2> DEFINE next == [tools[c] EXCEPT !.stage = "locking"]
  <2>1. tools[c] \in CommitCalls /\ ~HasLock(c)
    BY <1>1, <1>3 DEF CheckGeometry, At, DimTypes, NotCalled, CallEnded, GatheringCalls, HasLock
  <2>2. next \in CommitCalls /\ next.stage = "locking"
    BY <2>1 DEF CommitCalls
  <2>3. tools' = [tools EXCEPT ![c] = next] \/ tools' = [tools EXCEPT ![c] = CallEnded]
    BY <1>3 DEF CheckGeometry, Goto, EndCall
  <2> HIDE DEF next
  <2>4. /\ tools' \in [ToolCalls -> {NotCalled, CallEnded} \cup GatheringCalls \cup CommitCalls]
        /\ \A d \in ToolCalls : tools'[d] = tools[d] \/ (~HasLock(d) /\ ~HasLock(d)')
    BY <1>1, <2>1, <2>2, <2>3, CallMoves
  <2> QED
    BY <1>1, <1>3, <2>4, QuietKeeps DEF CheckGeometry, DimQuiet, PlanQuiet, DimTypes, autocad, drawnVars
<1> QED
  BY <1>2, <1>3

LEMMA DraftSteps ==
  ASSUME DimInv, NEW p \in DimPlans, Revise(p) \/ Discard(p)
  PROVE  DimInv'
<1>1. DimTypes /\ plans[p].status = "draft"
  BY DEF DimInv, Revise, Discard
<1>2. plans' \in [DimPlans -> {NoPlan} \cup PlanRecords] /\ \A q \in DimPlans : PlanQuiet(q)
  <2>1. plans[p] \in PlanRecords
    BY <1>1 DEF DimTypes, NoPlan
  <2>2. CASE Discard(p)
    BY <1>1, <2>2, StatusWritten DEF Discard, PlanQuiet
  <2>3. CASE Revise(p)
    <3> DEFINE new == [plans[p] EXCEPT !.revision = plans[p].revision + 1]
    <3>1. plans[p].revision + 1 \in 1 .. LastRevision
      BY <2>1, <2>3, DimensionPlansAssumption DEF Revise, PlanRecords
    <3>2. new \in PlanRecords /\ new.status = "draft"
      BY <1>1, <2>1, <3>1 DEF PlanRecords
    <3>3. plans' = [plans EXCEPT ![p] = new]
      BY <2>3 DEF Revise
    <3> HIDE DEF new
    <3> QED
      BY <1>1, <3>2, <3>3 DEF DimTypes, PlanQuiet
  <2> QED
    BY <2>2, <2>3
<1> QED
  BY <1>1, <1>2, QuietKeeps DEF Revise, Discard, DimQuiet, DimTypes, autocad, drawnVars

LEMMA AutocadSteps ==
  ASSUME DimInv, SnapshotExpires \/ StartDrawing \/ UserChanges
  PROVE  DimInv'
<1>1. DimTypes
  BY DEF DimInv
<1>2. CASE SnapshotExpires
  BY <1>1, <1>2, QuietKeeps DEF SnapshotExpires, DimQuiet, PlanQuiet, DimTypes, autocad, drawnVars
<1>3. CASE StartDrawing
  <2>1. inHand \in DrawingWork
    BY <1>1, <1>3 DEF StartDrawing, DimTypes
  <2>2. /\ inHand' \in DrawingWork
        /\ inHand'.call = inHand.call /\ inHand'.plan = inHand.plan
        /\ inHand'.revision = inHand.revision /\ inHand'.asked = inHand.asked
    BY <1>3, <2>1 DEF StartDrawing, DrawingWork
  <2> QED
    BY <1>1, <1>3, <2>1, <2>2, QuietKeeps DEF StartDrawing, DimQuiet, PlanQuiet, DimTypes, autocad, drawnVars
<1>4. CASE UserChanges
  <2>1. /\ current' \in Drawings /\ shapes' \in [Drawings -> Nat] /\ changes' \in 0 .. MaxUserSteps
        /\ \A d \in Drawings : shapes'[d] <= changes'
    BY <1>1, <1>4, DimensionPlansAssumption DEF UserChanges, DimTypes
  <2> QED
    BY <1>1, <1>4, <2>1, QuietKeeps DEF UserChanges, DimQuiet, PlanQuiet, DimTypes, drawnVars
<1> QED
  BY <1>2, <1>3, <1>4

\* The lock is taken: the plan was a draft, so that nothing in AutoCAD or to be heard
\* counts for it that is not owed to a commit that ended unheard.
LEMMA TakeLockStep == ASSUME DimInv, NEW c \in ToolCalls, TakeLock(c) PROVE DimInv'
<1> DEFINE p == tools[c].plan
           next == [tools[c] EXCEPT !.stage = "locked"]
<1>1. DimTypes /\ tools[c].stage = "locking" /\ ~HasLock(c) /\ CallEnded.stage = "over"
  BY DEF DimInv, TakeLock, At, HasLock, CallEnded
<1>2. tools[c] \in CommitCalls /\ p \in DimPlans
  BY <1>1 DEF DimTypes, NotCalled, CallEnded, GatheringCalls, CommitCalls
<1>3. UNCHANGED <<shown, snapshot, current, shapes, changes, inHand, reports, timesDrawn, unheard, drawnAs>>
  BY DEF TakeLock, autocad, drawnVars
<1>4. CASE ~ToDraw(p, tools[c].asked)
  <2>1. tools' = [tools EXCEPT ![c] = CallEnded] /\ plans' = plans
    BY <1>4 DEF TakeLock, EndCall
  <2>2. /\ tools' \in [ToolCalls -> {NotCalled, CallEnded} \cup GatheringCalls \cup CommitCalls]
        /\ \A d \in ToolCalls : tools'[d] = tools[d] \/ (~HasLock(d) /\ ~HasLock(d)')
    BY <1>1, <2>1, CallMoves
  <2> QED
    BY <1>1, <1>3, <2>1, <2>2, QuietKeeps DEF DimQuiet, PlanQuiet, DimTypes, drawnVars
<1>5. CASE ToDraw(p, tools[c].asked)
  <2>1. next \in CommitCalls /\ next.stage = "locked" /\ next.plan = p /\ next.asked = tools[c].asked
    BY <1>2 DEF CommitCalls
  <2>2. tools' = [tools EXCEPT ![c] = next] /\ plans' = WithStatus(p, "committing")
    BY <1>5 DEF TakeLock, Goto
  <2>3. plans[p].status = "draft" /\ plans[p].revision = tools[c].asked
    BY <1>5 DEF ToDraw
  <2> HIDE DEF next
  <2>4. /\ plans' \in [DimPlans -> {NoPlan} \cup PlanRecords] /\ plans'[p].status = "committing"
        /\ plans'[p].revision = plans[p].revision
        /\ \A q \in DimPlans : q # p => plans'[q] = plans[q]
    BY <1>1, <1>2, <2>2, <2>3, StatusWritten
  <2>5. /\ tools' \in [ToolCalls -> {NotCalled, CallEnded} \cup GatheringCalls \cup CommitCalls]
        /\ tools'[c] = next /\ \A d \in ToolCalls : d # c => tools'[d] = tools[d]
    BY <1>1, <2>1, <2>2 DEF DimTypes
  <2>6. \A d \in ToolCalls : ~HasLock(d) /\ tools[d].stage # "drawing"
    BY DEF TakeLock, CommitLockFree, HasLock
  <2>7. DimTypes'
    BY <1>1, <1>3, <2>4, <2>5 DEF DimTypes
  <2>8. DimLockInv'
    BY <1>2, <2>1, <2>3, <2>4, <2>5, <2>6 DEF DimLockInv, HasLock
  <2>9. \A d \in ToolCalls : tools'[d].stage # "drawing" /\ reports[d] = NoReport
    BY <2>1, <2>5, <2>6 DEF DimInv, DrawingInv
  <2>10. DrawingInv'
    BY <1>3, <2>9 DEF DrawingInv, NoReport
  <2>11. AskedInv'
    BY <1>3, <2>4 DEF DimInv, AskedInv, DrawnAsApproved
  <2>12. \A q \in DimPlans : MayHear(q)' = MayHear(q) /\ InHandOf(q)' = InHandOf(q)
    BY <1>3, <2>3, <2>4, <2>6, <2>9 DEF MayHear, InHandOf
  <2>13. CountInv'
    BY <1>3, <2>12 DEF DimInv, CountInv, Allowed
  <2> QED
    BY <2>7, <2>8, <2>10, <2>11, <2>13 DEF DimInv
<1> QED
  BY <1>4, <1>5

LEMMA SendPlanStep == ASSUME DimInv, NEW c \in ToolCalls, SendPlan(c) PROVE DimInv'
<1> DEFINE p == tools[c].plan
           next == [tools[c] EXCEPT !.stage = "drawing"]
           work == [plan |-> p, call |-> c, revision |-> plans[p].revision, asked |-> tools[c].asked,
                    drawing |-> current, started |-> FALSE]
<1>1. DimTypes /\ tools[c].stage = "locked" /\ HasLock(c) /\ inHand = NoWork
  BY DEF DimInv, SendPlan, At, HasLock, AutocadFree
<1>2. /\ tools[c] \in CommitCalls /\ p \in DimPlans /\ plans[p].revision = tools[c].asked
      /\ plans[p].status = "committing" /\ tools[c].asked \in 1 .. LastRevision
  BY <1>1 DEF DimInv, DimLockInv, CommitCalls
<1>3. UNCHANGED <<plans, shown, snapshot, current, shapes, changes, reports, timesDrawn, unheard, drawnAs>>
  BY DEF SendPlan, autocad, drawnVars
<1>4. work \in DrawingWork
  BY <1>1, <1>2 DEF DrawingWork, DimTypes
<1>5. /\ work.plan = p /\ work.call = c /\ work.revision = tools[c].asked /\ work.asked = tools[c].asked
      /\ inHand' = work
  BY <1>2 DEF SendPlan
<1>6. next \in CommitCalls /\ next.stage = "drawing" /\ next.plan = p /\ next.asked = tools[c].asked
  BY <1>2 DEF CommitCalls
<1>7. tools' = [tools EXCEPT ![c] = next]
  BY DEF SendPlan, Goto
<1> HIDE DEF next, work
<1>8. /\ tools' \in [ToolCalls -> {NotCalled, CallEnded} \cup GatheringCalls \cup CommitCalls]
      /\ tools'[c] = next /\ \A d \in ToolCalls : d # c => tools'[d] = tools[d]
  BY <1>1, <1>6, <1>7 DEF DimTypes
<1>9. \A d \in ToolCalls : d # c => ~HasLock(d) /\ tools[d].stage # "drawing"
  BY <1>1 DEF DimInv, DimLockInv, HasLock
<1>10. \A d \in ToolCalls : reports[d] = NoReport
  BY <1>1, <1>9 DEF DimInv, DrawingInv
<1>11. DimTypes'
  BY <1>1, <1>3, <1>4, <1>5, <1>8 DEF DimTypes
<1>12. DimLockInv'
  BY <1>2, <1>3, <1>6, <1>8, <1>9 DEF DimLockInv, HasLock
<1>13. DrawingInv'
  BY <1>3, <1>4, <1>5, <1>6, <1>8, <1>9, <1>10 DEF DrawingInv, NoReport
<1>14. AskedInv'
  BY <1>3, <1>5 DEF DimInv, AskedInv, DrawnAsApproved
<1>15. CountInv'
  <2> SUFFICES ASSUME NEW q \in DimPlans
               PROVE  timesDrawn[q] + InHandOf(q)' <= Allowed(q)' + unheard[q]
    BY <1>3 DEF CountInv
  <2>1. InHandOf(q) = 0 /\ InHandOf(q)' = IF q = p THEN 1 ELSE 0
    BY <1>1, <1>4, <1>5, NoWorkIsNone DEF InHandOf
  <2>2. timesDrawn[q] + InHandOf(q) <= Allowed(q) + unheard[q]
    BY DEF DimInv, CountInv
  <2>3. CASE q = p
    <3>1. ~MayHear(q)
      BY <1>1, <1>2, <1>9, <2>3 DEF MayHear
    <3>2. MayHear(q)'
      BY <1>3, <1>6, <1>8, <1>10, <2>3 DEF MayHear, NoReport
    <3> QED
      <4>1. Allowed(q) = 0 /\ Allowed(q)' = 1
        BY <3>1, <3>2 DEF Allowed
      <4> QED
        BY <1>1, <2>1, <2>2, <2>3, <4>1 DEF DimTypes
  <2>4. CASE q # p
    <3>1. MayHear(q)' = MayHear(q)
      BY <1>1, <1>3, <1>6, <1>8, <2>4 DEF MayHear
    <3> QED
      BY <2>1, <2>2, <2>4, <3>1 DEF Allowed
  <2> QED
    BY <2>3, <2>4
<1> QED
  BY <1>11, <1>12, <1>13, <1>14, <1>15 DEF DimInv

\* What a call leaves behind that ends while it has the lock.
LEMMA LockLeft ==
  ASSUME DimInv, NEW c \in ToolCalls, HasLock(c), tools' = [tools EXCEPT ![c] = CallEnded],
         reports' = [reports EXCEPT ![c] = NoReport]
  PROVE  /\ tools' \in [ToolCalls -> {NotCalled, CallEnded} \cup GatheringCalls \cup CommitCalls]
         /\ reports' \in [ToolCalls -> {NoReport, "drawn", "undone"}]
         /\ tools[c].plan \in DimPlans /\ plans[tools[c].plan].status = "committing"
         /\ plans[tools[c].plan].revision = tools[c].asked
         /\ \A d \in ToolCalls : /\ tools'[d].stage \notin {"locked", "drawing"}
                                 /\ reports'[d] = NoReport
                                 /\ d # c => tools[d].stage \notin {"locked", "drawing"}
<1>1. DimTypes /\ CallEnded.stage = "over"
  BY DEF DimInv, CallEnded
<1>2. tools[c].plan \in DimPlans /\ plans[tools[c].plan].status = "committing"
      /\ plans[tools[c].plan].revision = tools[c].asked
  BY DEF DimInv, DimLockInv, CommitCalls
<1>3. \A d \in ToolCalls : d # c => tools[d].stage \notin {"locked", "drawing"}
  BY DEF DimInv, DimLockInv, HasLock
<1>4. \A d \in ToolCalls : d # c => reports[d] = NoReport
  BY <1>3 DEF DimInv, DrawingInv
<1> QED
  BY <1>1, <1>2, <1>3, <1>4 DEF DimTypes

LEMMA HearReportStep == ASSUME DimInv, NEW c \in ToolCalls, HearReport(c) PROVE DimInv'
<1> DEFINE p == tools[c].plan
           status == IF reports[c] = "drawn" THEN "committed" ELSE "draft"
<1>1. DimTypes /\ tools[c].stage = "drawing" /\ HasLock(c) /\ reports[c] # NoReport /\ inHand = NoWork
  BY DEF DimInv, HearReport, At, HasLock, DrawingInv
<1>2. UNCHANGED <<snapshot, current, shapes, changes, inHand, timesDrawn, unheard, drawnAs>>
  BY DEF HearReport, autocad, drawnVars
<1>3. /\ tools' = [tools EXCEPT ![c] = CallEnded] /\ reports' = [reports EXCEPT ![c] = NoReport]
      /\ plans' = WithStatus(p, status) /\ shown' \subseteq shown \cup {p}
  BY DEF HearReport, EndCall
<1>4. /\ tools' \in [ToolCalls -> {NotCalled, CallEnded} \cup GatheringCalls \cup CommitCalls]
      /\ reports' \in [ToolCalls -> {NoReport, "drawn", "undone"}]
      /\ p \in DimPlans /\ plans[p].status = "committing" /\ plans[p].revision = tools[c].asked
      /\ \A d \in ToolCalls : /\ tools'[d].stage \notin {"locked", "drawing"}
                              /\ reports'[d] = NoReport
                              /\ d # c => tools[d].stage \notin {"locked", "drawing"}
  BY <1>1, <1>3, LockLeft
<1>5. /\ plans' \in [DimPlans -> {NoPlan} \cup PlanRecords] /\ plans'[p].status = status
      /\ plans'[p].revision = plans[p].revision
      /\ \A q \in DimPlans : q # p => plans'[q] = plans[q]
  BY <1>1, <1>3, <1>4, StatusWritten
<1>6. DimTypes'
  BY <1>1, <1>2, <1>3, <1>4, <1>5 DEF DimTypes
<1>7. DimLockInv' /\ DrawingInv'
  BY <1>4 DEF DimLockInv, DrawingInv, HasLock, NoReport
<1>8. AskedInv'
  <2>1. status = "committed" => \E d \in drawnAs : d.plan = p /\ d.revision = plans[p].revision
    BY <1>1, <1>4 DEF DimInv, DrawingInv
  <2> QED
    BY <1>2, <1>4, <1>5, <2>1 DEF DimInv, AskedInv, DrawnAsApproved
<1>9. CountInv'
  <2> SUFFICES ASSUME NEW q \in DimPlans
               PROVE  timesDrawn[q] + InHandOf(q)' <= Allowed(q)' + unheard[q]
    BY <1>2 DEF CountInv
  <2>1. InHandOf(q) = 0 /\ InHandOf(q)' = 0
    BY <1>1, <1>2, NoWorkIsNone DEF InHandOf
  <2>2. MayHear(q) => MayHear(q)'
    <3>1. CASE q # p
      BY <1>1, <1>4, <1>5, <3>1 DEF MayHear
    <3>2. CASE q = p /\ status = "committed"
      BY <1>5, <3>2 DEF MayHear
    <3>3. CASE q = p /\ status # "committed"
      <4>1. reports[c] = "undone"
        BY <1>1, <3>3 DEF DimTypes
      <4> QED
        BY <1>4, <3>3, <4>1 DEF MayHear
    <3> QED
      BY <1>5, <3>1, <3>2, <3>3
  <2>3. Allowed(q) \in {0, 1} /\ Allowed(q)' \in {0, 1} /\ Allowed(q) <= Allowed(q)'
    BY <2>2 DEF Allowed
  <2> QED
    BY <1>1, <2>1, <2>3 DEF DimInv, CountInv, DimTypes
<1> QED
  BY <1>6, <1>7, <1>8, <1>9 DEF DimInv

\* A call that gives up after asking AutoCAD leaves a commit nobody hears of.
LEMMA GiveUpStep == ASSUME DimInv, NEW c \in ToolCalls, CommitGivesUp(c) PROVE DimInv'
<1> DEFINE p == tools[c].plan
           silent == IF At(c, "drawing") THEN 1 ELSE 0
<1>1. DimTypes /\ HasLock(c)
  BY DEF DimInv, CommitGivesUp, HasLock
<1>2. UNCHANGED <<shown, snapshot, current, shapes, changes, timesDrawn, drawnAs>>
  BY DEF CommitGivesUp, autocad
<1>3. /\ tools' = [tools EXCEPT ![c] = CallEnded] /\ reports' = [reports EXCEPT ![c] = NoReport]
      /\ plans' = WithStatus(p, "draft") /\ unheard' = [unheard EXCEPT ![p] = unheard[p] + silent]
      /\ inHand' = inHand \/ inHand' = NoWork
  BY DEF CommitGivesUp, EndCall
<1>4. /\ tools' \in [ToolCalls -> {NotCalled, CallEnded} \cup GatheringCalls \cup CommitCalls]
      /\ reports' \in [ToolCalls -> {NoReport, "drawn", "undone"}]
      /\ p \in DimPlans /\ plans[p].status = "committing" /\ plans[p].revision = tools[c].asked
      /\ \A d \in ToolCalls : /\ tools'[d].stage \notin {"locked", "drawing"}
                              /\ reports'[d] = NoReport
                              /\ d # c => tools[d].stage \notin {"locked", "drawing"}
  BY <1>1, <1>3, LockLeft
<1>5. /\ plans' \in [DimPlans -> {NoPlan} \cup PlanRecords] /\ plans'[p].status = "draft"
      /\ plans'[p].revision = plans[p].revision
      /\ \A q \in DimPlans : q # p => plans'[q] = plans[q]
  BY <1>1, <1>3, <1>4, StatusWritten
<1>6. silent \in {0, 1} /\ (At(c, "drawing") => silent = 1)
  OBVIOUS
<1> HIDE DEF silent
<1>7. DimTypes'
  BY <1>1, <1>2, <1>3, <1>4, <1>5, <1>6 DEF DimTypes
<1>8. DimLockInv' /\ DrawingInv'
  BY <1>4 DEF DimLockInv, DrawingInv, HasLock, NoReport
<1>9. AskedInv'
  BY <1>2, <1>3, <1>4, <1>5, NoWorkIsNone DEF DimInv, AskedInv, DrawnAsApproved
<1>10. CountInv'
  <2> SUFFICES ASSUME NEW q \in DimPlans
               PROVE  timesDrawn[q] + InHandOf(q)' <= Allowed(q)' + unheard'[q]
    BY <1>2 DEF CountInv
  <2>1. InHandOf(q) \in {0, 1} /\ InHandOf(q)' \in {0, 1} /\ InHandOf(q)' <= InHandOf(q)
    BY <1>3, NoWorkIsNone DEF InHandOf
  <2>2. timesDrawn[q] + InHandOf(q) <= Allowed(q) + unheard[q]
    BY DEF DimInv, CountInv
  <2>3. Allowed(q) \in {0, 1} /\ Allowed(q)' \in {0, 1}
    BY DEF Allowed
  <2>4. CASE q # p
    <3>1. MayHear(q) => MayHear(q)'
      BY <1>1, <1>4, <1>5, <2>4 DEF MayHear
    <3>2. Allowed(q) <= Allowed(q)' /\ unheard'[q] = unheard[q]
      BY <1>1, <1>3, <2>4, <3>1 DEF Allowed, DimTypes
    <3> QED
      BY <1>1, <2>1, <2>2, <2>3, <3>2 DEF DimTypes
  <2>5. CASE q = p
    <3>1. unheard'[q] = unheard[q] + silent
      BY <1>1, <1>3, <1>4, <2>5 DEF DimTypes
    <3>2. MayHear(q) => At(c, "drawing")
      BY <1>4, <2>5 DEF MayHear, At
    <3>3. Allowed(q) <= silent
      BY <1>6, <3>2 DEF Allowed
    <3> QED
      BY <1>1, <1>6, <2>1, <2>2, <2>3, <3>1, <3>3 DEF DimTypes
  <2> QED
    BY <2>4, <2>5
<1> QED
  BY <1>7, <1>8, <1>9, <1>10 DEF DimInv
\* AutoCAD is done with a plan: its call, if it still waits, gets the report.
LEMMA ReportedFacts ==
  ASSUME DimInv, inHand.started, NEW word \in {"drawn", "undone"}, Reported(word)
  PROVE  /\ inHand \in DrawingWork /\ inHand' = NoWork /\ UNCHANGED tools
         /\ reports' \in [ToolCalls -> {NoReport, "drawn", "undone"}]
         /\ \A c \in ToolCalls : reports'[c] = IF tools[c].stage = "drawing" THEN word ELSE NoReport
         /\ \A c \in ToolCalls : tools[c].stage = "drawing" =>
              /\ inHand.call = c /\ inHand.plan = tools[c].plan /\ inHand.asked = tools[c].asked
              /\ reports[c] = NoReport
<1>1. DimTypes
  BY DEF DimInv
<1>2. inHand \in DrawingWork
  <2>1. NoWork.started = FALSE
    BY DEF NoWork
  <2> QED
    BY <1>1, <2>1 DEF DimTypes
<1>3. \A c \in ToolCalls : tools[c].stage = "drawing" =>
        /\ inHand.call = c /\ inHand.plan = tools[c].plan /\ inHand.asked = tools[c].asked
        /\ reports[c] = NoReport
  BY <1>2, NoWorkIsNone DEF DimInv, DrawingInv
<1>4. \A c \in ToolCalls : tools[c].stage # "drawing" => reports[c] = NoReport
  BY DEF DimInv, DrawingInv
<1>5. inHand.call \in ToolCalls
  BY <1>2 DEF DrawingWork
<1>6. \A c \in ToolCalls : reports'[c] = IF tools[c].stage = "drawing" THEN word ELSE NoReport
  <2>1. CASE tools[inHand.call].stage = "drawing"
    <3>1. reports' = [reports EXCEPT ![inHand.call] = word]
      BY <1>3, <1>5, <2>1 DEF Reported, At
    <3> QED
      BY <1>1, <1>3, <1>4, <1>5, <2>1, <3>1 DEF DimTypes
  <2>2. CASE tools[inHand.call].stage # "drawing"
    <3>1. reports' = reports
      BY <2>2 DEF Reported, At
    <3> QED
      BY <1>3, <1>4, <2>2, <3>1
  <2> QED
    BY <2>1, <2>2
<1>7. reports' \in [ToolCalls -> {NoReport, "drawn", "undone"}]
  BY <1>1 DEF DimTypes, Reported
<1> QED
  BY <1>2, <1>3, <1>6, <1>7 DEF Reported

LEMMA AutocadDone ==
  ASSUME DimInv, DrawPlan \/ UndoPlan
  PROVE  DimInv'
<1>1. PICK w \in {"drawn", "undone"} :
        /\ Reported(w) /\ inHand.started
        /\ \/ w = "drawn" /\ DrawPlan
           \/ w = "undone" /\ UNCHANGED <<timesDrawn, drawnAs>>
  BY DEF DrawPlan, UndoPlan
<1>2. /\ DimTypes /\ inHand \in DrawingWork /\ inHand' = NoWork /\ UNCHANGED tools
      /\ reports' \in [ToolCalls -> {NoReport, "drawn", "undone"}]
      /\ \A c \in ToolCalls : reports'[c] = IF tools[c].stage = "drawing" THEN w ELSE NoReport
      /\ \A c \in ToolCalls : tools[c].stage = "drawing" =>
           /\ inHand.call = c /\ inHand.plan = tools[c].plan /\ inHand.asked = tools[c].asked
           /\ reports[c] = NoReport
  BY <1>1, ReportedFacts DEF DimInv
<1>3. UNCHANGED <<plans, shown, tools, snapshot, current, shapes, changes, unheard>>
  BY <1>1 DEF Reported, autocad
<1>4. inHand.plan \in DimPlans /\ inHand.revision = inHand.asked
  BY <1>2 DEF DimInv, AskedInv, DrawingWork
<1> DEFINE drawing == [plan |-> inHand.plan, revision |-> inHand.revision, asked |-> inHand.asked]
<1>5. w = "drawn" => /\ timesDrawn' = [timesDrawn EXCEPT ![inHand.plan] = timesDrawn[inHand.plan] + 1]
                     /\ drawnAs' = drawnAs \cup {drawing}
  BY <1>1 DEF DrawPlan
<1>6. w = "undone" => UNCHANGED <<timesDrawn, drawnAs>>
  BY <1>1
<1>7. drawing.plan = inHand.plan /\ drawing.revision = inHand.asked /\ drawing.asked = inHand.asked
  BY <1>4
<1> HIDE DEF drawing
<1>8. DimTypes'
  BY <1>2, <1>3, <1>4, <1>5, <1>6 DEF DimTypes
<1>9. DimLockInv'
  BY <1>2, <1>3 DEF DimInv, DimLockInv, HasLock
<1>10. drawnAs \subseteq drawnAs' /\ (w = "drawn" => drawing \in drawnAs')
  BY <1>5, <1>6
<1>11. DrawingInv'
  BY <1>2, <1>7, <1>10 DEF DrawingInv, NoReport
<1>12. AskedInv'
  <2>1. \A d \in drawnAs' : d.revision = d.asked
    BY <1>5, <1>6, <1>7 DEF DimInv, AskedInv, DrawnAsApproved
  <2>2. \A q \in DimPlans : plans'[q].status = "committed" =>
          \E d \in drawnAs' : d.plan = q /\ d.revision = plans'[q].revision
    BY <1>3, <1>10 DEF DimInv, AskedInv, DrawnAsApproved
  <2> QED
    BY <1>2, <2>1, <2>2, NoWorkIsNone DEF AskedInv, DrawnAsApproved
<1>13. CountInv'
  <2> SUFFICES ASSUME NEW q \in DimPlans
               PROVE  timesDrawn'[q] + InHandOf(q)' <= Allowed(q)' + unheard[q]
    BY <1>3 DEF CountInv
  <2>1. InHandOf(q)' = 0 /\ InHandOf(q) = IF q = inHand.plan THEN 1 ELSE 0
    BY <1>2, NoWorkIsNone DEF InHandOf
  <2>2. timesDrawn[q] + InHandOf(q) <= Allowed(q) + unheard[q]
    BY DEF DimInv, CountInv
  <2>3. Allowed(q) \in {0, 1} /\ Allowed(q)' \in {0, 1}
    BY DEF Allowed
  <2>4. timesDrawn[q] \in Nat /\ unheard[q] \in Nat
    BY <1>2 DEF DimTypes
  <2>5. CASE w = "drawn"
    <3>1. MayHear(q) => MayHear(q)'
      BY <1>2, <1>3, <2>5 DEF MayHear
    <3>2. Allowed(q) <= Allowed(q)'
      BY <3>1 DEF Allowed
    <3>3. timesDrawn'[q] = timesDrawn[q] + InHandOf(q)
      BY <1>2, <1>4, <1>5, <2>1, <2>4, <2>5 DEF DimTypes
    <3> QED
      BY <2>1, <2>2, <2>3, <2>4, <3>2, <3>3
  <2>6. CASE w = "undone"
    <3>1. CASE q = inHand.plan
      BY <1>6, <2>1, <2>2, <2>3, <2>4, <2>6, <3>1
    <3>2. CASE q # inHand.plan
      <4>1. MayHear(q) => MayHear(q)'
        BY <1>2, <1>3, <3>2 DEF MayHear
      <4>2. Allowed(q) <= Allowed(q)'
        BY <4>1 DEF Allowed
      <4> QED
        BY <1>6, <2>1, <2>2, <2>3, <2>4, <2>6, <3>2, <4>2
    <3> QED
      BY <3>1, <3>2
  <2> QED
    BY <2>5, <2>6
<1> QED
  BY <1>8, <1>9, <1>11, <1>12, <1>13 DEF DimInv

LEMMA DimStep == DimInv /\ [DimNext]_dimVars => DimInv'
<1> SUFFICES ASSUME DimInv, [DimNext]_dimVars PROVE DimInv'
  OBVIOUS
<1>1. CASE UNCHANGED dimVars
  BY <1>1, QuietKeeps DEF dimVars, autocad, drawnVars, DimInv, DimTypes, DimQuiet, PlanQuiet
<1>2. CASE DimNext
  BY <1>2, GatheringSteps, CreatePlanStep, CommitCallSteps, DraftSteps, AutocadSteps, TakeLockStep,
     SendPlanStep, HearReportStep, GiveUpStep, AutocadDone DEF DimNext
<1> QED
  BY <1>1, <1>2

\* A dimension plan is drawn a second time only after a commit of it that ended
\* without AutoCAD's report (DimensionPlanStore.commit, _commit_file_ipc).
THEOREM DrawnOnceUnlessSilent == DimSpec => []DrawnAgainOnlyAfterSilence
<1>1. DimInv => DrawnAgainOnlyAfterSilence
  <2> SUFFICES ASSUME DimInv, NEW p \in DimPlans PROVE timesDrawn[p] <= 1 + unheard[p]
    BY DEF DrawnAgainOnlyAfterSilence
  <2>1. timesDrawn[p] + InHandOf(p) <= Allowed(p) + unheard[p]
    BY DEF DimInv, CountInv
  <2>2. Allowed(p) \in {0, 1} /\ InHandOf(p) \in {0, 1}
    BY DEF Allowed, InHandOf
  <2> QED
    BY <2>1, <2>2 DEF DimInv, DimTypes
<1> QED
  BY <1>1, DimInitially, DimStep, PTL DEF DimSpec

\* What is drawn is the plan at the revision its caller named, and a committed plan
\* is what was drawn (commit_dimension_plan, revise).
THEOREM DrawnAsAsked == DimSpec => []DrawnAsApproved
<1>1. DimInv => DrawnAsApproved
  BY DEF DimInv, AskedInv
<1> QED
  BY <1>1, DimInitially, DimStep, PTL DEF DimSpec
-----------------------------------------------------------------------------
(* Scenes.                                                                 *)

SceneRows == [status : {"live", "lapsed", "deleted"}, snapshot : Snapshots, options : BuildOptions]
SceneBindings == [scene : Nat \ {0}, request : SceneRequests, options : BuildOptions]
ReaderRecords ==
  [stage : {"reading", "ended", "refused"}, scene : Nat, filter : {"all", "entity"}, offset : Nat,
   secret : Secrets, shown : Seq(Nat), torn : BOOLEAN]
SceneRunRecords ==
  [stage : {"build", "query", "validate", "done", "attention"}, kind : {"audit", "selection"},
   snapshot : Snapshots, scene : Nat, items : Seq(Nat)]

\* Type correctness, with the shape of every record.
SceneTypes ==
  /\ scenes \in Seq(SceneRows)
  /\ sceneOf \in [AllSceneKeys -> {NoBinding} \cup SceneBindings]
  /\ told \in [AllSceneKeys -> Nat]
  /\ config \in [options : BuildOptions, secret : Secrets] /\ configs \in Nat
  /\ reader \in {NoReader} \cup ReaderRecords
  /\ sceneRun \in {NoSceneRun} \cup SceneRunRecords

\* A binding is to the scene its key was answered with, of the snapshot asked for,
\* and it is there as long as that scene lives.
BindingInv ==
  \A k \in AllSceneKeys :
    /\ sceneOf[k] # NoBinding =>
         /\ sceneOf[k].scene \in Ids /\ told[k] = sceneOf[k].scene
         /\ scenes[sceneOf[k].scene].snapshot = sceneOf[k].request.snapshot
    /\ told[k] \in Ids \cup {0}
    /\ told[k] # 0 /\ Live(told[k]) => sceneOf[k] # NoBinding

\* What a reader was shown is what comes before its offset, or all.
ReaderInv ==
  reader.stage # "none" =>
    /\ reader.scene \in Ids
    /\ ~reader.torn =>
         LET whole == Selected(reader.scene, reader.filter, "never")
         IN IF reader.stage = "ended" THEN reader.shown = whole
            ELSE reader.offset <= Len(whole) /\ reader.shown = SubSeq(whole, 1, reader.offset)

\* A run has a scene of its snapshot, and its items are that scene's.
SceneRunInv ==
  /\ sceneRun.stage \in {"query", "validate", "done"} =>
       sceneRun.scene \in Ids /\ scenes[sceneRun.scene].snapshot = sceneRun.snapshot
  /\ sceneRun.stage \in {"validate", "done"} =>
       sceneRun.items = IF sceneRun.kind = "selection" THEN Items(sceneRun.scene)
                        ELSE ItemsFrom(Items(sceneRun.scene), 0, AuditLimit)

SceneInv == SceneTypes /\ BindingInv /\ ReaderInv /\ SceneRunInv

LEMMA SceneInitially == ScenesInit => SceneInv
<1> SUFFICES ASSUME ScenesInit PROVE SceneInv
  OBVIOUS
<1> USE DEF ScenesInit
<1>1. /\ sceneOf = [k \in AllSceneKeys |-> NoBinding] /\ told = [k \in AllSceneKeys |-> 0]
      /\ scenes = <<>> /\ reader = NoReader /\ sceneRun = NoSceneRun
  OBVIOUS
<1>2. config \in [options : BuildOptions, secret : Secrets]
  BY DEF Secrets
<1>3. SceneTypes
  BY <1>1, <1>2 DEF SceneTypes
<1>4. BindingInv
  BY <1>1 DEF BindingInv
<1>5. ReaderInv /\ SceneRunInv
  BY <1>1 DEF ReaderInv, SceneRunInv, NoReader, NoSceneRun
<1> QED
  BY <1>3, <1>4, <1>5 DEF SceneInv

\* The smaller of two numbers.
LEMMA MinOfTwo ==
  ASSUME NEW a \in Nat, NEW b \in Nat
  PROVE  Min({a, b}) = IF a <= b THEN a ELSE b
<1> DEFINE m == IF a <= b THEN a ELSE b
<1>1. m \in {a, b} /\ \A y \in {a, b} : m <= y
  OBVIOUS
<1>2. \A x \in {a, b} : (\A y \in {a, b} : x <= y) => x = m
  OBVIOUS
<1> HIDE DEF m
<1>3. Min({a, b}) = m
  BY <1>1, <1>2 DEF Min
<1> QED
  BY <1>3 DEF m

\* What a section holds is a sequence of items.
LEMMA ItemsTyped ==
  ASSUME NEW s
  PROVE  Items(s) \in Seq(Nat)
<1> DEFINE n == IF scenes[s].options = "features" THEN ItemCount + 1 ELSE ItemCount
<1>1. n \in Nat
  BY ScenesAssumption
<1>2. Items(s) = [i \in 1 .. n |-> i]
  BY DEF Items
<1> HIDE DEF n
<1> QED
  BY <1>1, <1>2

LEMMA SelectedTyped ==
  ASSUME NEW s, NEW filter, NEW moment
  PROVE  Selected(s, filter, moment) \in Seq(Nat)
<1> DEFINE n == (Len(Items(s)) + 1) \div 2
<1>1. Items(s) \in Seq(Nat) /\ n \in Nat
  BY ItemsTyped
<1> HIDE DEF n
<1>2. [i \in 1 .. n |-> 2 * i - 1] \in Seq(Nat)
  BY <1>1
<1> QED
  <2>1. CASE filter = "all"
    BY <1>1, <2>1 DEF Selected
  <2>2. CASE filter # "all" /\ moment = "after items"
    <3>1. Selected(s, filter, moment) = <<>>
      BY <2>2 DEF Selected
    <3> QED
      BY <3>1
  <2>3. CASE filter # "all" /\ moment # "after items"
    <3>1. Selected(s, filter, moment) = [i \in 1 .. n |-> 2 * i - 1]
      BY <2>3 DEF Selected, n
    <3> QED
      BY <1>2, <3>1
  <2> QED
    BY <2>1, <2>2, <2>3

\* A page continues what was shown where it ended.
LEMMA PageContinues ==
  ASSUME NEW whole \in Seq(Nat), NEW offset \in Nat, offset <= Len(whole), NEW limit \in Nat
  PROVE  /\ ItemsFrom(whole, offset, limit) \in Seq(Nat)
         /\ SubSeq(whole, 1, offset) \o ItemsFrom(whole, offset, limit)
              = SubSeq(whole, 1, IF offset + limit <= Len(whole) THEN offset + limit ELSE Len(whole))
<1> DEFINE n == IF offset + limit <= Len(whole) THEN offset + limit ELSE Len(whole)
<1>1. n \in offset .. Len(whole) /\ Len(whole) \in Nat
  OBVIOUS
<1>2. Min({offset + limit, Len(whole)}) = n
  BY MinOfTwo
<1> HIDE DEF n
<1>3. SubSeq(whole, 1, offset) \o SubSeq(whole, offset + 1, n) = SubSeq(whole, 1, n)
  BY <1>1, ConcatAdjacentSubSeq
<1>4. \A i \in offset + 1 .. n : whole[i] \in Nat
  BY <1>1
<1>5. SubSeq(whole, offset + 1, n) \in Seq(Nat)
  BY <1>1, <1>4, SubSeqProperties
<1> QED
  BY <1>2, <1>3, <1>5 DEF ItemsFrom, n

\* What every step does to the rows: they stay, and none comes back to life.
ScenesKept ==
  /\ Len(scenes) <= Len(scenes') /\ scenes' \in Seq(SceneRows)
  /\ \A s \in Ids : /\ scenes'[s].snapshot = scenes[s].snapshot
                    /\ scenes'[s].options = scenes[s].options
                    /\ Live(s)' => Live(s)

LEMMA SameScenes == ASSUME SceneTypes, UNCHANGED scenes PROVE ScenesKept
  BY DEF SceneTypes, ScenesKept, Live

LEMMA IdsKept == ASSUME SceneTypes, ScenesKept PROVE \A s \in Ids : s \in Ids'
  BY DEF SceneTypes, ScenesKept, Ids

LEMMA ItemsKept ==
  ASSUME ScenesKept, NEW s \in Ids
  PROVE  Items(s)' = Items(s) /\ \A filter, moment : Selected(s, filter, moment)' = Selected(s, filter, moment)
<1>1. scenes'[s].options = scenes[s].options
  BY DEF ScenesKept
<1>2. Items(s)' = Items(s)
  BY <1>1 DEF Items
<1> QED
  BY <1>2 DEF Selected

\* Readers and runs that a step leaves alone.
LEMMA ReaderKept == ASSUME SceneInv, ScenesKept, UNCHANGED reader PROVE ReaderInv'
<1>1. CASE reader.stage = "none"
  BY <1>1 DEF ReaderInv
<1>2. CASE reader.stage # "none"
  <2>1. reader.scene \in Ids /\ reader.scene \in Ids'
    BY <1>2, IdsKept DEF SceneInv, ReaderInv
  <2>2. Selected(reader.scene, reader.filter, "never")' = Selected(reader.scene, reader.filter, "never")
    BY <2>1, ItemsKept
  <2> QED
    BY <1>2, <2>1, <2>2 DEF SceneInv, ReaderInv
<1> QED
  BY <1>1, <1>2

LEMMA SceneRunKept == ASSUME SceneInv, ScenesKept, UNCHANGED sceneRun PROVE SceneRunInv'
<1>1. CASE sceneRun.stage \notin {"query", "validate", "done"}
  BY <1>1 DEF SceneRunInv
<1>2. CASE sceneRun.stage \in {"query", "validate", "done"}
  <2>1. /\ sceneRun.scene \in Ids /\ sceneRun.scene \in Ids'
        /\ scenes'[sceneRun.scene].snapshot = scenes[sceneRun.scene].snapshot
    BY <1>2, IdsKept DEF SceneInv, SceneRunInv, ScenesKept
  <2>2. Items(sceneRun.scene)' = Items(sceneRun.scene)
    BY <2>1, ItemsKept
  <2> QED
    BY <2>1, <2>2 DEF SceneInv, SceneRunInv, ItemsFrom
<1> QED
  BY <1>1, <1>2

\* Bindings whose scene is not deleted stay; the others go.
LEMMA BindingsKept ==
  ASSUME SceneInv, ScenesKept, NEW gone, \A s \in gone : s \in Ids /\ ~Live(s),
         sceneOf' = Cascaded(gone), UNCHANGED told
  PROVE  BindingInv' /\ sceneOf' \in [AllSceneKeys -> {NoBinding} \cup SceneBindings]
<1>1. SceneTypes /\ BindingInv
  BY DEF SceneInv
<1>2. \A k \in AllSceneKeys : sceneOf'[k] = IF sceneOf[k].scene \in gone THEN NoBinding ELSE sceneOf[k]
  BY DEF Cascaded
<1>3. sceneOf' \in [AllSceneKeys -> {NoBinding} \cup SceneBindings]
  BY <1>1 DEF Cascaded, SceneTypes
<1>4. \A s \in Ids : s \in Ids'
  BY <1>1, IdsKept
<1>5. 0 \notin Ids
  BY DEF Ids
<1> SUFFICES ASSUME NEW k \in AllSceneKeys
             PROVE  /\ sceneOf'[k] # NoBinding =>
                         /\ sceneOf'[k].scene \in Ids' /\ told'[k] = sceneOf'[k].scene
                         /\ scenes'[sceneOf'[k].scene].snapshot = sceneOf'[k].request.snapshot
                    /\ told'[k] \in Ids' \cup {0}
                    /\ told'[k] # 0 /\ Live(told[k])' => sceneOf'[k] # NoBinding
  BY <1>3 DEF BindingInv
<1>6. told[k] # 0 /\ Live(told[k])' => Live(told[k]) /\ told[k] \in Ids
  BY <1>1 DEF BindingInv, ScenesKept, Live
<1>7. sceneOf'[k] # NoBinding => sceneOf'[k] = sceneOf[k]
  BY <1>2
<1>8. sceneOf[k].scene \in gone => sceneOf[k] # NoBinding
  BY <1>5 DEF NoBinding
<1>9. told[k] # 0 /\ Live(told[k])' => sceneOf'[k] # NoBinding
  BY <1>1, <1>2, <1>6, <1>8 DEF BindingInv
<1> QED
  BY <1>1, <1>4, <1>7, <1>9 DEF BindingInv, ScenesKept
\* A build: the key's own scene, one another key built of the same snapshot, or a new
\* one; a key whose scene lives is answered with that.
LEMMA CreateFacts ==
  ASSUME SceneInv, NEW k \in AllSceneKeys, NEW request \in SceneRequests, Create(k, request)
  PROVE  /\ ScenesKept /\ BindingInv'
         /\ sceneOf' \in [AllSceneKeys -> {NoBinding} \cup SceneBindings]
         /\ told' \in [AllSceneKeys -> Nat]
         /\ AnswerTo(k, request) \in Ids' /\ AnswerTo(k, request) \in Nat
         /\ scenes'[AnswerTo(k, request)].snapshot = request.snapshot
         /\ told'[k] = AnswerTo(k, request)
         /\ told[k] # 0 /\ Live(told[k]) => told'[k] = told[k]
         /\ \A j \in AllSceneKeys : j # k => told'[j] = told[j]
<1> DEFINE gone == MetLapsed(k, request)
           a == AnswerTo(k, request)
           n == Len(scenes) + 1
           binding == [scene |-> a, request |-> request, options |-> config.options]
<1>1. /\ SceneTypes /\ BindingInv /\ config.options \in BuildOptions /\ request.snapshot \in Snapshots
      /\ Len(scenes) \in Nat /\ \A s \in Ids : scenes[s] \in SceneRows
  BY DEF SceneInv, SceneTypes, SceneRequests, Ids
<1>2. \A s \in gone : s \in Ids /\ ~Live(s)
  <2>1. \A s \in Twins(request) : s \in Ids
    BY DEF Twins
  <2>2. sceneOf[k].scene # 0 => sceneOf[k].scene \in Ids
    <3>1. NoBinding.scene = 0
      BY DEF NoBinding
    <3> QED
      BY <1>1, <3>1 DEF BindingInv
  <2> QED
    BY <2>1, <2>2 DEF MetLapsed, Live
<1> HIDE DEF gone
<1> DEFINE rows == RowsWithout(gone)
<1>4. /\ rows \in Seq(SceneRows) /\ Len(rows) = Len(scenes)
      /\ \A s \in Ids : /\ rows[s].snapshot = scenes[s].snapshot
                        /\ rows[s].options = scenes[s].options
                        /\ rows[s].status = "live" <=> scenes[s].status = "live"
  <2>1. \A s \in Ids : [scenes[s] EXCEPT !.status = "deleted"] \in SceneRows
    BY <1>1 DEF SceneRows
  <2>2. /\ rows \in [1 .. Len(scenes) -> SceneRows]
        /\ \A s \in Ids : rows[s] = IF s \in gone THEN [scenes[s] EXCEPT !.status = "deleted"]
                                   ELSE scenes[s]
    BY <1>1, <2>1 DEF RowsWithout, Ids
  <2> QED
    <3>1. \A s \in Ids : LET r == [scenes[s] EXCEPT !.status = "deleted"]
                        IN /\ r.snapshot = scenes[s].snapshot /\ r.options = scenes[s].options
                           /\ r.status = "deleted"
      BY <1>1 DEF SceneRows
    <3>2. rows \in Seq(SceneRows) /\ Len(rows) = Len(scenes)
      BY <1>1, <2>2
    <3>3. \A s \in gone : scenes[s].status # "live"
      BY <1>2 DEF Live
    <3> QED
      BY <2>2, <3>1, <3>2, <3>3
<1> HIDE DEF rows
<1>5. Built(request) \in SceneRows /\ Built(request).snapshot = request.snapshot
  BY <1>1 DEF Built, SceneRows
<1>6. scenes' = IF a \in Ids THEN rows ELSE Append(rows, Built(request))
  BY DEF Create, rows, gone
<1>7. ScenesKept
  BY <1>1, <1>4, <1>5, <1>6 DEF ScenesKept, Ids, Live
<1>8. CASE Replayed(k) # {}
  <2>1. sceneOf[k] # NoBinding /\ Live(sceneOf[k].scene) /\ a = sceneOf[k].scene
    BY <1>8 DEF Replayed, AnswerTo
  <2>2. a \in Ids /\ told[k] = a /\ a # 0 /\ scenes[a].snapshot = request.snapshot /\ Live(a)
    BY <1>1, <1>8, <2>1 DEF BindingInv, Create, Conflicts, Ids
  <2>3. a \notin gone
    BY <1>2, <2>2
  <2>4. told' = told
    BY <1>1, <2>2 DEF Create, SceneTypes
  <2>5. sceneOf' = Cascaded(gone)
    BY <1>8, <2>1, <2>3 DEF Create, gone, Cascaded, BindingOf
  <2>6. BindingInv' /\ sceneOf' \in [AllSceneKeys -> {NoBinding} \cup SceneBindings]
    BY <1>2, <1>7, <2>4, <2>5, BindingsKept
  <2>7. a \in Ids' /\ scenes'[a].snapshot = request.snapshot
    BY <1>1, <1>7, <2>2, IdsKept DEF ScenesKept
  <2>8. a \in Nat /\ told'[k] = a /\ told' \in [AllSceneKeys -> Nat]
    BY <1>1, <2>2, <2>4 DEF SceneTypes, Ids
  <2> QED
    BY <1>7, <2>4, <2>6, <2>7, <2>8
<1>9. CASE Replayed(k) = {}
  <2>1. /\ a \in Nat /\ a # 0
        /\ \/ a \in Ids /\ scenes[a].snapshot = request.snapshot
           \/ a = n /\ a \notin Ids
    <3>1. CASE \E s \in Twins(request) : Live(s)
      <4>1. a \in Twins(request)
        BY <1>9, <3>1 DEF AnswerTo
      <4> QED
        BY <4>1 DEF Twins, Ids
    <3>2. CASE ~\E s \in Twins(request) : Live(s)
      BY <1>1, <1>9, <3>2 DEF AnswerTo, Ids
    <3> QED
      BY <3>1, <3>2
  <2>2. a \in Ids' /\ scenes'[a].snapshot = request.snapshot
    <3>1. CASE a \in Ids
      BY <1>1, <1>7, <2>1, <3>1, IdsKept DEF ScenesKept
    <3>2. CASE a \notin Ids
      BY <1>1, <1>4, <1>5, <1>6, <2>1, <3>2 DEF Ids
    <3> QED
      BY <3>1, <3>2
  <2>3. BindingOf(k, request) = binding
    BY <1>9 DEF BindingOf
  <2>4. binding \in SceneBindings /\ binding.scene = a /\ binding.request = request
    BY <1>1, <2>1 DEF SceneBindings
  <2>5. binding # NoBinding
    BY <2>1, <2>4 DEF NoBinding
  <2> HIDE DEF binding
  <2>6. sceneOf' = [Cascaded(gone) EXCEPT ![k] = binding] /\ told' = [told EXCEPT ![k] = a]
    BY <2>3 DEF Create, gone
  <2>7. /\ sceneOf' \in [AllSceneKeys -> {NoBinding} \cup SceneBindings] /\ sceneOf'[k] = binding
        /\ \A j \in AllSceneKeys : j # k =>
             sceneOf'[j] = IF sceneOf[j].scene \in gone THEN NoBinding ELSE sceneOf[j]
    BY <1>1, <2>4, <2>6 DEF SceneTypes, Cascaded
  <2>8. /\ told' \in [AllSceneKeys -> Nat] /\ told'[k] = a
        /\ \A j \in AllSceneKeys : j # k => told'[j] = told[j]
    BY <1>1, <2>1, <2>6 DEF SceneTypes
  <2>9. BindingInv'
    <3> SUFFICES ASSUME NEW j \in AllSceneKeys
                 PROVE  /\ sceneOf'[j] # NoBinding =>
                             /\ sceneOf'[j].scene \in Ids' /\ told'[j] = sceneOf'[j].scene
                             /\ scenes'[sceneOf'[j].scene].snapshot = sceneOf'[j].request.snapshot
                        /\ told'[j] \in Ids' \cup {0}
                        /\ told'[j] # 0 /\ Live(told[j])' => sceneOf'[j] # NoBinding
      BY DEF BindingInv
    <3>1. CASE j = k
      BY <2>2, <2>4, <2>5, <2>7, <2>8, <3>1
    <3>2. CASE j # k
      <4>1. \A s \in Ids : s \in Ids'
        BY <1>1, <1>7, IdsKept
      <4>2. told[j] # 0 /\ Live(told[j])' /\ told'[j] = told[j] => Live(told[j]) /\ told[j] \in Ids
        BY <1>1, <1>7 DEF BindingInv, ScenesKept, Live
      <4>3. sceneOf'[j] # NoBinding => sceneOf'[j] = sceneOf[j]
        BY <2>7, <3>2
      <4>4. told'[j] # 0 /\ Live(told[j])' => sceneOf'[j] # NoBinding
        <5>1. sceneOf[j].scene \in gone => sceneOf[j] # NoBinding
          BY <1>2 DEF NoBinding, Ids
        <5> QED
          BY <1>1, <1>2, <2>7, <2>8, <3>2, <4>2, <5>1 DEF BindingInv
      <4> QED
        BY <1>1, <1>7, <2>8, <3>2, <4>1, <4>3, <4>4 DEF BindingInv, ScenesKept
    <3> QED
      BY <3>1, <3>2
  <2>10. ~(told[k] # 0 /\ Live(told[k]))
    BY <1>1, <1>9 DEF BindingInv, Replayed
  <2> QED
    BY <1>7, <2>1, <2>2, <2>7, <2>8, <2>9, <2>10
<1> QED
  BY <1>8, <1>9
\* Builds of clients, and of a run.
LEMMA BuildSteps ==
  ASSUME SceneInv, (\E k \in SceneKeys : BuildScene(k)) \/ RunBuilds
  PROVE  SceneInv'
<1>1. RunKey \in AllSceneKeys /\ \A k \in SceneKeys : k \in AllSceneKeys
  BY DEF AllSceneKeys
<1>2. ASSUME NEW k \in SceneKeys, BuildScene(k) PROVE SceneInv'
  <2>1. PICK request \in SceneRequests : Create(k, request)
    BY <1>2 DEF BuildScene
  <2>2. /\ ScenesKept /\ BindingInv' /\ told' \in [AllSceneKeys -> Nat]
        /\ sceneOf' \in [AllSceneKeys -> {NoBinding} \cup SceneBindings]
    BY <1>1, <2>1, CreateFacts
  <2>3. UNCHANGED <<config, configs, reader, sceneRun>>
    BY <1>2 DEF BuildScene
  <2>4. ReaderInv' /\ SceneRunInv'
    BY <2>2, <2>3, ReaderKept, SceneRunKept
  <2> QED
    BY <2>2, <2>3, <2>4 DEF SceneInv, SceneTypes, ScenesKept
<1>3. CASE RunBuilds
  <2> DEFINE next == [sceneRun EXCEPT !.stage = "query", !.scene = AnswerTo(RunKey, RunRequest)]
  <2>1. sceneRun \in SceneRunRecords /\ sceneRun.stage = "build"
    BY <1>3 DEF RunBuilds, SceneInv, SceneTypes, NoSceneRun
  <2>2. RunRequest \in SceneRequests /\ RunRequest.snapshot = sceneRun.snapshot
    BY <2>1 DEF RunRequest, SceneRequests, SceneRunRecords
  <2>3. /\ ScenesKept /\ BindingInv' /\ told' \in [AllSceneKeys -> Nat]
        /\ sceneOf' \in [AllSceneKeys -> {NoBinding} \cup SceneBindings]
        /\ AnswerTo(RunKey, RunRequest) \in Ids' /\ AnswerTo(RunKey, RunRequest) \in Nat
        /\ scenes'[AnswerTo(RunKey, RunRequest)].snapshot = sceneRun.snapshot
    BY <1>1, <1>3, <2>2, CreateFacts DEF RunBuilds
  <2>4. /\ next \in SceneRunRecords /\ next.stage = "query" /\ next.snapshot = sceneRun.snapshot
        /\ next.scene = AnswerTo(RunKey, RunRequest)
    BY <2>1, <2>3 DEF SceneRunRecords
  <2>5. sceneRun' = next \/ sceneRun' = sceneRun
    BY <1>3 DEF RunBuilds
  <2> HIDE DEF next
  <2>6. UNCHANGED <<config, configs, reader>>
    BY <1>3 DEF RunBuilds
  <2>7. SceneRunInv'
    BY <2>1, <2>3, <2>4, <2>5 DEF SceneRunInv
  <2>8. ReaderInv'
    BY <2>3, <2>6, ReaderKept
  <2> QED
    BY <2>3, <2>4, <2>5, <2>6, <2>7, <2>8 DEF SceneInv, SceneTypes, ScenesKept
<1> QED
  BY <1>2, <1>3

\* Rows after some have lapsed, or have been deleted.
LEMMA RowsRewritten ==
  ASSUME SceneInv, NEW set, NEW status \in {"lapsed", "deleted"},
         scenes' = [s \in Ids |-> IF s \in set THEN [scenes[s] EXCEPT !.status = status] ELSE scenes[s]]
  PROVE  ScenesKept
<1>1. Len(scenes) \in Nat /\ \A s \in Ids : scenes[s] \in SceneRows
  BY DEF SceneInv, SceneTypes, Ids
<1>2. \A s \in Ids : LET r == [scenes[s] EXCEPT !.status = status]
                    IN /\ r \in SceneRows /\ r.snapshot = scenes[s].snapshot
                       /\ r.options = scenes[s].options /\ r.status = status
  BY <1>1 DEF SceneRows
<1>3. /\ scenes' \in [1 .. Len(scenes) -> SceneRows]
      /\ \A s \in Ids : scenes'[s] = IF s \in set THEN [scenes[s] EXCEPT !.status = status] ELSE scenes[s]
  BY <1>1, <1>2 DEF Ids
<1>4. scenes' \in Seq(SceneRows) /\ Len(scenes') = Len(scenes)
  BY <1>1, <1>3
<1> QED
  BY <1>1, <1>2, <1>3, <1>4 DEF ScenesKept, Live

\* Bindings stay when no scene is deleted.
LEMMA BindingsStay ==
  ASSUME SceneInv, ScenesKept, UNCHANGED <<sceneOf, told>>
  PROVE  BindingInv'
<1>1. sceneOf = [k \in AllSceneKeys |-> sceneOf[k]]
  BY DEF SceneInv, SceneTypes
<1>2. sceneOf' = Cascaded({})
  BY <1>1 DEF Cascaded
<1> QED
  BY <1>2, BindingsKept

LEMMA TimeSteps ==
  ASSUME SceneInv, SceneLapses \/ SweepScenes \/ Reconfigure
  PROVE  SceneInv'
<1>1. SceneTypes
  BY DEF SceneInv
<1>2. CASE SceneLapses
  <2>1. PICK s \in Ids : scenes' = LapsedIn({s})
    BY <1>2 DEF SceneLapses
  <2>2. ScenesKept
    BY <2>1, RowsRewritten DEF LapsedIn
  <2> QED
    BY <1>1, <1>2, <2>2, ReaderKept, SceneRunKept, BindingsStay
       DEF SceneLapses, SceneInv, SceneTypes, ScenesKept
<1>3. CASE SweepScenes
  <2> DEFINE gone == {s \in Ids : scenes[s].status = "lapsed"}
  <2>1. /\ scenes' = RowsWithout(gone) /\ sceneOf' = Cascaded(gone)
        /\ UNCHANGED <<told, config, configs, reader, sceneRun>>
    BY <1>3 DEF SweepScenes
  <2>2. \A s \in gone : s \in Ids /\ ~Live(s)
    BY DEF Live
  <2> HIDE DEF gone
  <2>3. ScenesKept
    BY <2>1, RowsRewritten DEF RowsWithout
  <2>4. BindingInv' /\ sceneOf' \in [AllSceneKeys -> {NoBinding} \cup SceneBindings]
    BY <2>1, <2>2, <2>3, BindingsKept
  <2> QED
    BY <1>1, <2>1, <2>3, <2>4, ReaderKept, SceneRunKept DEF SceneInv, SceneTypes, ScenesKept
<1>4. CASE Reconfigure
  <2>1. ScenesKept
    BY <1>1, <1>4, SameScenes DEF Reconfigure
  <2>2. configs' \in Nat /\ config' \in [options : BuildOptions, secret : Secrets]
    BY <1>1, <1>4 DEF Reconfigure, SceneTypes
  <2> QED
    BY <1>1, <1>4, <2>1, <2>2, ReaderKept, SceneRunKept, BindingsStay
       DEF Reconfigure, SceneInv, SceneTypes, ScenesKept
<1> QED
  BY <1>2, <1>3, <1>4

LEMMA OpenStep == ASSUME SceneInv, OpenScene PROVE SceneInv'
<1>1. SceneTypes /\ UNCHANGED <<scenes, sceneOf, told, config, configs, sceneRun>>
  BY DEF SceneInv, OpenScene
<1>2. PICK s \in Ids, filter \in {"all", "entity"} :
        reader' = [stage |-> "reading", scene |-> s, filter |-> filter, offset |-> 0,
                   secret |-> "none", shown |-> <<>>, torn |-> FALSE]
  BY DEF OpenScene
<1>3. ScenesKept
  BY <1>1, SameScenes
<1>4. reader' \in ReaderRecords
  BY <1>2 DEF ReaderRecords, Secrets, Ids
<1>5. ReaderInv'
  <2>1. Selected(s, filter, "never") \in Seq(Nat)
    BY SelectedTyped
  <2>2. SubSeq(Selected(s, filter, "never"), 1, 0) = <<>> /\ 0 <= Len(Selected(s, filter, "never"))
    BY <2>1, SubSeqEmpty
  <2>3. s \in Ids' /\ Selected(s, filter, "never")' = Selected(s, filter, "never")
    BY <1>1, <1>3, ItemsKept, IdsKept
  <2>4. /\ reader'.stage = "reading" /\ reader'.scene = s /\ reader'.filter = filter
        /\ reader'.offset = 0 /\ reader'.shown = <<>>
    BY <1>2
  <2> QED
    BY <2>2, <2>3, <2>4 DEF ReaderInv
<1> QED
  BY <1>1, <1>3, <1>4, <1>5, SceneRunKept, BindingsStay DEF SceneInv, SceneTypes

\* What makes a reader's record right after a step.
LEMMA ReaderAfter ==
  ASSUME NEW s, NEW f, NEW w, s \in Ids', Selected(s, f, "never")' = w,
         reader'.scene = s, reader'.filter = f,
         ~reader'.torn => IF reader'.stage = "ended" THEN reader'.shown = w
                          ELSE reader'.offset <= Len(w) /\ reader'.shown = SubSeq(w, 1, reader'.offset)
  PROVE  ReaderInv'
<1>1. Selected(reader.scene, reader.filter, "never")' = w
  OBVIOUS
<1> QED
  BY <1>1 DEF ReaderInv

\* A page: what follows the offset, until nothing does.
LEMMA PageStep == ASSUME SceneInv, NextScenePage PROVE SceneInv'
<1>1. PICK limit \in PageLimits, moment \in Moments :
        LET selected == Selected(reader.scene, reader.filter, moment)
            next == NextOffset(reader.offset, limit)
        IN /\ scenes' = IF moment = "never" THEN scenes ELSE LapsedIn({reader.scene})
           /\ reader' =
                IF /\ Live(reader.scene) /\ moment # "after record"
                   /\ CursorHolds(reader.offset, reader.secret)
                   /\ QueryAnswered(selected, reader.offset, limit)
                THEN [reader EXCEPT
                        !.shown = @ \o ItemsFrom(selected, reader.offset, limit),
                        !.torn = @ \/ (reader.filter = "entity" /\ moment = "after items"),
                        !.stage = IF next < Len(selected) THEN "reading" ELSE "ended",
                        !.offset = next, !.secret = config.secret]
                ELSE [reader EXCEPT !.stage = "refused"]
  BY DEF NextScenePage
<1> DEFINE selected == Selected(reader.scene, reader.filter, moment)
           whole == Selected(reader.scene, reader.filter, "never")
           page == ItemsFrom(selected, reader.offset, limit)
           next == reader.offset + limit
           torn == reader.torn \/ (reader.filter = "entity" /\ moment = "after items")
           stage == IF next < Len(selected) THEN "reading" ELSE "ended"
           answered == [reader EXCEPT !.shown = reader.shown \o page, !.torn = torn, !.stage = stage,
                                      !.offset = next, !.secret = config.secret]
           refused == [reader EXCEPT !.stage = "refused"]
<1>2. /\ SceneTypes /\ UNCHANGED <<sceneOf, told, config, configs, sceneRun>> /\ reader.stage = "reading"
      /\ config.secret \in Secrets
  BY DEF SceneInv, NextScenePage, SceneTypes
<1>3. reader \in ReaderRecords /\ reader.scene \in Ids /\ limit \in Nat /\ next \in Nat
  BY <1>2, ScenesAssumption DEF SceneTypes, NoReader, ReaderRecords, SceneInv, ReaderInv
<1>4. ScenesKept
  BY <1>1, <1>2, SameScenes, RowsRewritten DEF LapsedIn
<1>5. /\ selected \in Seq(Nat) /\ whole \in Seq(Nat)
      /\ reader.offset \in Nat /\ reader.shown \in Seq(Nat) /\ reader.torn \in BOOLEAN
  BY <1>3, SelectedTyped DEF ReaderRecords
<1>6. \/ reader' = refused
      \/ reader' = answered /\ reader.offset <= Len(selected)
  BY <1>1 DEF NextOffset, QueryAnswered
<1>7. ~reader.torn => reader.offset <= Len(whole) /\ reader.shown = SubSeq(whole, 1, reader.offset)
  BY <1>2 DEF SceneInv, ReaderInv
<1>8. ~torn => selected = whole
  <2>1. CASE reader.filter = "all"
    BY <2>1 DEF Selected
  <2>2. CASE reader.filter # "all"
    BY <1>3, <2>2 DEF Selected, ReaderRecords
  <2> QED
    BY <2>1, <2>2
<1>9. PICK s \in Ids, f \in {"all", "entity"} : s = reader.scene /\ f = reader.filter
  BY <1>3 DEF ReaderRecords
<1>10. s \in Ids' /\ Selected(s, f, "never")' = Selected(s, f, "never") /\ Selected(s, f, "never") = whole
  BY <1>2, <1>4, <1>9, ItemsKept, IdsKept
<1>11. ASSUME reader' = refused PROVE ReaderInv'
  <2>1. /\ refused \in ReaderRecords /\ refused.stage = "refused" /\ refused.scene = s
        /\ refused.filter = f /\ refused.shown = reader.shown /\ refused.offset = reader.offset
        /\ refused.torn = reader.torn
    BY <1>3, <1>9 DEF ReaderRecords
  <2>2. /\ reader'.stage = "refused" /\ reader'.scene = s /\ reader'.filter = f
        /\ reader'.shown = reader.shown /\ reader'.offset = reader.offset
        /\ reader'.torn = reader.torn
    BY <1>11, <2>1
  <2> HIDE DEF refused, whole
  <2>3. ~reader'.torn => reader'.offset <= Len(whole) /\ reader'.shown = SubSeq(whole, 1, reader'.offset)
    BY <1>7, <2>2
  <2> QED
    BY <1>10, <2>2, <2>3, ReaderAfter
<1>12. ASSUME reader' = answered, reader.offset <= Len(selected) PROVE ReaderInv'
  <2>1. page \in Seq(Nat)
    BY <1>3, <1>5, <1>12, PageContinues
  <2>2. reader.shown \o page \in Seq(Nat)
    BY <1>5, <2>1, ConcatProperties
  <2>3. /\ answered \in ReaderRecords /\ answered.stage = stage /\ answered.scene = s
        /\ answered.filter = f /\ answered.shown = reader.shown \o page /\ answered.offset = next
        /\ answered.torn = torn
    BY <1>2, <1>3, <1>5, <1>9, <2>2 DEF ReaderRecords
  <2>4. ~torn => reader.shown \o page
                  = SubSeq(whole, 1, IF next <= Len(whole) THEN next ELSE Len(whole))
    BY <1>3, <1>5, <1>7, <1>8, PageContinues
  <2>5. SubSeq(whole, 1, Len(whole)) = whole /\ Len(whole) \in Nat
    BY <1>5, SubSeqFull
  <2>6. ~torn => IF stage = "ended" THEN reader.shown \o page = whole
                 ELSE next <= Len(whole) /\ reader.shown \o page = SubSeq(whole, 1, next)
    <3> HIDE DEF selected, whole, page, torn
    <3>1. CASE next < Len(whole)
      <4>1. (IF next <= Len(whole) THEN next ELSE Len(whole)) = next /\ next <= Len(whole)
        BY <1>3, <2>5, <3>1
      <4>2. ~torn => stage = "reading"
        BY <1>8, <3>1
      <4> QED
        BY <2>4, <4>1, <4>2
    <3>2. CASE ~(next < Len(whole))
      <4>1. (IF next <= Len(whole) THEN next ELSE Len(whole)) = Len(whole)
        BY <1>3, <2>5, <3>2
      <4> QED
        BY <1>3, <1>8, <2>4, <2>5, <3>2, <4>1
    <3> QED
      BY <3>1, <3>2
  <2>7. /\ reader'.stage = stage /\ reader'.scene = s /\ reader'.filter = f
        /\ reader'.shown = reader.shown \o page /\ reader'.offset = next /\ reader'.torn = torn
    BY <1>12, <2>3
  <2> HIDE DEF answered, whole, stage, torn, next, page, selected
  <2>8. ~reader'.torn => IF reader'.stage = "ended" THEN reader'.shown = whole
                         ELSE reader'.offset <= Len(whole) /\ reader'.shown = SubSeq(whole, 1, reader'.offset)
    BY <2>6, <2>7
  <2> QED
    BY <1>10, <2>7, <2>8, ReaderAfter
<1>13. ReaderInv'
  <2> HIDE DEF refused, answered, selected
  <2> QED
    BY <1>6, <1>11, <1>12
<1>14. reader' \in ReaderRecords
  <2>1. refused \in ReaderRecords
    BY <1>3 DEF ReaderRecords
  <2>2. ASSUME reader.offset <= Len(selected) PROVE answered \in ReaderRecords
    <3>1. reader.shown \o page \in Seq(Nat)
      BY <1>3, <1>5, <2>2, PageContinues, ConcatProperties
    <3> QED
      BY <1>2, <1>3, <1>5, <3>1 DEF ReaderRecords
  <2> QED
    BY <1>6, <2>1, <2>2
<1> QED
  BY <1>2, <1>4, <1>13, <1>14, SceneRunKept, BindingsStay DEF SceneInv, SceneTypes, ScenesKept

\* A run starts, and gives up.
LEMMA RunEndsSteps ==
  ASSUME SceneInv, StartSceneRun \/ RunConflicts \/ RunQueryFails
  PROVE  SceneInv'
<1>1. SceneTypes /\ UNCHANGED <<scenes, sceneOf, told, config, configs, reader>>
  BY DEF SceneInv, StartSceneRun, RunConflicts, RunQueryFails, RunNeedsAttention
<1>2. ScenesKept
  BY <1>1, SameScenes
<1>3. sceneRun' \in SceneRunRecords /\ sceneRun'.stage \notin {"query", "validate", "done"}
  <2>1. CASE StartSceneRun
    BY <2>1 DEF StartSceneRun, SceneRunRecords
  <2>2. CASE RunConflicts \/ RunQueryFails
    <3>1. sceneRun \in SceneRunRecords /\ sceneRun' = [sceneRun EXCEPT !.stage = "attention"]
      BY <1>1, <2>2 DEF RunConflicts, RunQueryFails, RunNeedsAttention, SceneTypes, NoSceneRun
    <3> QED
      BY <3>1 DEF SceneRunRecords
  <2> QED
    BY <2>1, <2>2
<1>4. SceneRunInv'
  BY <1>3 DEF SceneRunInv
<1> QED
  BY <1>1, <1>2, <1>3, <1>4, ReaderKept, BindingsStay DEF SceneInv, SceneTypes

\* A run takes what it was given: a selection only when it is all the items.
LEMMA QueryStep == ASSUME SceneInv, RunQueries PROVE SceneInv'
<1> DEFINE stage == IF sceneRun.kind = "audit" THEN "validate" ELSE "done"
           next == [sceneRun EXCEPT !.items = RunItems, !.stage = stage]
<1>1. /\ SceneTypes /\ UNCHANGED <<scenes, sceneOf, told, config, configs, reader>>
      /\ sceneRun.stage = "query" /\ sceneRun' = next
      /\ sceneRun.kind = "selection" => Len(RunItems) = Len(Items(sceneRun.scene))
  BY DEF SceneInv, RunQueries
<1>2. ScenesKept
  BY <1>1, SameScenes
<1>3. sceneRun \in SceneRunRecords /\ RunLimit \in Nat
  BY <1>1, ScenesAssumption DEF SceneTypes, NoSceneRun, RunLimit
<1>4. PICK s \in Ids : s = sceneRun.scene /\ scenes[s].snapshot = sceneRun.snapshot
  BY <1>1 DEF SceneInv, SceneRunInv
<1>5. PICK all : all = Items(s) /\ all \in Seq(Nat) /\ Len(all) \in Nat
  BY ItemsTyped
<1>6. s \in Ids' /\ Items(s)' = all
  BY <1>1, <1>2, <1>4, <1>5, IdsKept, ItemsKept
<1>7. RunItems = ItemsFrom(all, 0, RunLimit)
  BY <1>4, <1>5 DEF RunItems
<1>8. RunItems \in Seq(Nat) /\ Len(RunItems) \in Nat
  BY <1>3, <1>5, <1>7, PageContinues
<1>9. sceneRun.kind = "selection" => RunItems = all
  <2> SUFFICES ASSUME sceneRun.kind = "selection" PROVE RunItems = all
    OBVIOUS
  <2> DEFINE n == IF RunLimit <= Len(all) THEN RunLimit ELSE Len(all)
  <2>1. Min({0 + RunLimit, Len(all)}) = n /\ n \in 0 .. Len(all)
    BY <1>3, <1>5, MinOfTwo
  <2> HIDE DEF n
  <2>2. RunItems = SubSeq(all, 1, n)
    <3>1. RunItems = SubSeq(all, 0 + 1, Min({0 + RunLimit, Len(all)}))
      BY <1>7 DEF ItemsFrom
    <3>2. RunItems = SubSeq(all, 0 + 1, n)
      BY <2>1, <3>1
    <3>3. 0 + 1 = 1
      OBVIOUS
    <3> QED
      BY <3>2, <3>3
  <2>3. \A i \in 1 .. n : all[i] \in Nat
    BY <1>5, <2>1
  <2>4. Len(SubSeq(all, 1, n)) = n
    <3>1. 1 \in Int /\ n \in Int /\ (IF 1 <= n THEN n - 1 + 1 ELSE 0) = n
      BY <2>1
    <3> QED
      BY <2>3, <3>1, SubSeqProperties
  <2>5. n = Len(all)
    BY <1>1, <1>4, <1>5, <2>2, <2>4
  <2> QED
    BY <1>5, <2>2, <2>5, SubSeqFull
<1>10. sceneRun.kind = "audit" => RunItems = ItemsFrom(all, 0, AuditLimit)
  BY <1>7 DEF RunLimit
<1>11. /\ sceneRun' \in SceneRunRecords /\ sceneRun'.stage = stage /\ sceneRun'.kind = sceneRun.kind
       /\ sceneRun'.snapshot = sceneRun.snapshot /\ sceneRun'.scene = s /\ sceneRun'.items = RunItems
  BY <1>1, <1>3, <1>4, <1>8 DEF SceneRunRecords
<1>12. sceneRun.kind \in {"audit", "selection"}
  BY <1>3 DEF SceneRunRecords
<1> HIDE DEF next, stage
<1>13. SceneRunInv'
  <2>1. s \in Ids' /\ scenes'[s].snapshot = sceneRun'.snapshot
    BY <1>1, <1>4, <1>6, <1>11
  <2>2. Items(sceneRun.scene)' = all /\ ItemsFrom(Items(sceneRun.scene), 0, AuditLimit)' = ItemsFrom(all, 0, AuditLimit)
    BY <1>6, <1>11 DEF ItemsFrom
  <2> QED
    BY <1>9, <1>10, <1>11, <1>12, <2>1, <2>2 DEF SceneRunInv
<1> QED
  BY <1>1, <1>2, <1>11, <1>13, ReaderKept, BindingsStay DEF SceneInv, SceneTypes

LEMMA ValidateStep == ASSUME SceneInv, RunValidates PROVE SceneInv'
<1>1. /\ SceneTypes /\ UNCHANGED <<scenes, sceneOf, told, config, configs, reader>>
      /\ sceneRun.stage = "validate"
      /\ \/ sceneRun' = [sceneRun EXCEPT !.stage = "done"]
         \/ sceneRun' = [sceneRun EXCEPT !.stage = "attention"]
  BY DEF SceneInv, RunValidates, RunNeedsAttention
<1>2. ScenesKept
  BY <1>1, SameScenes
<1>3. sceneRun \in SceneRunRecords
  BY <1>1 DEF SceneTypes, NoSceneRun
<1>4. PICK s \in Ids : s = sceneRun.scene /\ scenes[s].snapshot = sceneRun.snapshot
  BY <1>1 DEF SceneInv, SceneRunInv
<1>5. s \in Ids' /\ Items(s)' = Items(s)
  BY <1>1, <1>2, <1>4, IdsKept, ItemsKept
<1>6. /\ sceneRun' \in SceneRunRecords /\ sceneRun'.kind = sceneRun.kind
      /\ sceneRun'.snapshot = sceneRun.snapshot /\ sceneRun'.scene = s /\ sceneRun'.items = sceneRun.items
      /\ sceneRun'.stage \in {"done", "attention"}
  BY <1>1, <1>3, <1>4 DEF SceneRunRecords
<1>7. PICK all : all = Items(s)
  OBVIOUS
<1>8. sceneRun.items = IF sceneRun.kind = "selection" THEN all ELSE ItemsFrom(all, 0, AuditLimit)
  BY <1>1, <1>4, <1>7 DEF SceneInv, SceneRunInv
<1>9. SceneRunInv'
  <2>1. s \in Ids' /\ scenes'[s].snapshot = sceneRun'.snapshot
    BY <1>1, <1>4, <1>5, <1>6
  <2>2. Items(sceneRun.scene)' = all /\ ItemsFrom(Items(sceneRun.scene), 0, AuditLimit)' = ItemsFrom(all, 0, AuditLimit)
    BY <1>5, <1>6, <1>7 DEF ItemsFrom
  <2> QED
    BY <1>6, <1>8, <2>1, <2>2 DEF SceneRunInv
<1> QED
  BY <1>1, <1>2, <1>6, <1>9, ReaderKept, BindingsStay DEF SceneInv, SceneTypes

LEMMA SceneStep == SceneInv /\ [ScenesNext]_sceneVars => SceneInv'
<1>1. ASSUME SceneInv, UNCHANGED sceneVars PROVE SceneInv'
  <2>1. ScenesKept
    BY <1>1, SameScenes DEF SceneInv, sceneVars
  <2> QED
    BY <1>1, <2>1, ReaderKept, SceneRunKept, BindingsStay DEF SceneInv, SceneTypes, sceneVars
<1> QED
  BY <1>1, BuildSteps, TimeSteps, OpenStep, PageStep, RunEndsSteps, QueryStep, ValidateStep DEF ScenesNext

\* Readers and runs go on with what their scene holds: its pages in order and all of
\* them at the end, whatever lapsed, was deleted or reconfigured on the way
\* (query, encode_cursor, _auto_dimension_scene_inputs).
THEOREM PagesAreTheScene == ScenesSpec => []ReadersSeeTheScene
<1>1. SceneInv => ReadersSeeTheScene
  <2> SUFFICES ASSUME SceneInv PROVE ReadersSeeTheScene
    OBVIOUS
  <2>1. SceneTypes /\ ReaderInv /\ SceneRunInv
    BY DEF SceneInv
  <2>2. ASSUME reader.stage # "none", ~reader.torn
        PROVE  LET whole == Selected(reader.scene, reader.filter, "never")
               IN /\ IsPrefix(reader.shown, whole)
                  /\ reader.stage = "ended" => reader.shown = whole
    <3> DEFINE whole == Selected(reader.scene, reader.filter, "never")
    <3>1. whole \in Seq(Nat)
      BY SelectedTyped
    <3>2. reader \in ReaderRecords
      BY <2>1, <2>2 DEF SceneTypes, NoReader
    <3>3. reader.offset \in Nat
      BY <3>2 DEF ReaderRecords
    <3>4. IF reader.stage = "ended" THEN reader.shown = whole
          ELSE reader.offset <= Len(whole) /\ reader.shown = SubSeq(whole, 1, reader.offset)
      BY <2>1, <2>2 DEF ReaderInv
    <3> HIDE DEF whole
    <3>5. SubSeq(whole, 1, Len(whole)) = whole /\ Len(whole) \in Nat
      BY <3>1, SubSeqFull
    <3>6. PICK n \in 0 .. Len(whole) : reader.shown = SubSeq(whole, 1, n)
      <4>1. CASE reader.stage = "ended"
        BY <3>4, <3>5, <4>1
      <4>2. CASE reader.stage # "ended"
        BY <3>3, <3>4, <3>5, <4>2
      <4> QED
        BY <4>1, <4>2
    <3>7. \A i \in 1 .. n : whole[i] \in Nat
      BY <3>1, <3>5
    <3>8. Len(SubSeq(whole, 1, n)) = n /\ \A i \in 1 .. n : SubSeq(whole, 1, n)[i] = whole[i]
      <4>1. 1 \in Int /\ n \in Int /\ (IF 1 <= n THEN n - 1 + 1 ELSE 0) = n
        BY <3>5
      <4>2. \A i \in 1 .. n : 1 + i - 1 = i
        BY <3>5
      <4> QED
        BY <3>7, <4>1, <4>2, SubSeqProperties
    <3>9. IsPrefix(reader.shown, whole)
      BY <3>5, <3>6, <3>8 DEF IsPrefix
    <3> QED
      BY <3>4, <3>9 DEF whole
  <2>3. sceneRun.stage = "done" =>
          /\ scenes[sceneRun.scene].snapshot = sceneRun.snapshot
          /\ sceneRun.items = IF sceneRun.kind = "selection" THEN Items(sceneRun.scene)
                              ELSE ItemsFrom(Items(sceneRun.scene), 0, AuditLimit)
    BY <2>1 DEF SceneRunInv
  <2> QED
    BY <2>2, <2>3 DEF ReadersSeeTheScene
<1> QED
  BY <1>1, SceneInitially, SceneStep, PTL DEF ScenesSpec

\* While a scene lives, the key that was answered with it is answered with it again
\* (SceneRepository.create).
THEOREM KeyIsAnsweredAlike == ScenesSpec => KeyKeepsItsScene
<1>1. ASSUME SceneInv, [ScenesNext]_sceneVars, NEW k \in AllSceneKeys, told[k] # 0, told'[k] # told[k]
      PROVE  ~Live(told[k])
  <2>1. PICK j \in AllSceneKeys, request \in SceneRequests : Create(j, request)
    <3>1. CASE \E j \in SceneKeys : BuildScene(j)
      BY <3>1 DEF BuildScene, AllSceneKeys
    <3>2. CASE RunBuilds
      <4>1. sceneRun \in SceneRunRecords
        BY <1>1, <3>2 DEF RunBuilds, SceneInv, SceneTypes, NoSceneRun
      <4>2. RunRequest \in SceneRequests /\ RunKey \in AllSceneKeys
        BY <4>1 DEF RunRequest, SceneRequests, SceneRunRecords, AllSceneKeys
      <4> QED
        BY <3>2, <4>2 DEF RunBuilds
    <3>3. CASE UNCHANGED told
      BY <1>1, <3>3
    <3> QED
      BY <1>1, <3>1, <3>2, <3>3
         DEF ScenesNext, sceneVars, SceneLapses, SweepScenes, Reconfigure, OpenScene, NextScenePage,
             StartSceneRun, RunConflicts, RunQueries, RunQueryFails, RunValidates, RunNeedsAttention
  <2> QED
    BY <1>1, <2>1, CreateFacts
<1>2. SceneInv /\ [ScenesNext]_sceneVars
        => [\A k \in AllSceneKeys : told[k] # 0 /\ told'[k] # told[k] => ~Live(told[k])]_sceneVars
  BY <1>1
<1> QED
  BY <1>2, SceneInitially, SceneStep, PTL DEF ScenesSpec, KeyKeepsItsScene
-----------------------------------------------------------------------------
(* Program contract.                                                       *)

SealedPrograms ==
  [operations : UNION {OperationLists(n) : n \in 1 .. MaxOperations},
   post : {"none", "one entity", "first exists"}, repeats : BOOLEAN, base : Nat]
DrawingRecords == [weight : Nat, listed : Nat, after : Nat, outer : BOOLEAN, intact : BOOLEAN]

\* Type correctness; a record is kept only of a program whose commit was asked for,
\* and within the limit.
ContractTypes ==
  /\ program \in {NoProgram} \cup SealedPrograms
  /\ standing \in {"none", "sealed", "previewed", "unknown", "committed"}
  /\ standing # "none" => program \in SealedPrograms /\ program.base <= atRevision
  /\ atRevision \in Nat
  /\ record \in {NoRecord} \cup DrawingRecords
  /\ record # NoRecord => standing \in {"unknown", "committed"} /\ record.weight <= RecordLimit

\* What was previewed is committed as long as the drawing has the same revision.
PreviewedInv ==
  standing = "previewed" =>
    /\ HostParses(program)
    /\ atRevision = program.base => LayersThere(program)

ContractInv == ContractTypes /\ PreviewedInv /\ PreviewTellsCommit /\ CommittedIsConfirmed

LEMMA ContractInitially == ContractInit => ContractInv
<1> SUFFICES ASSUME ContractInit PROVE ContractInv
  OBVIOUS
<1> USE DEF ContractInit
<1>1. ContractTypes
  BY DEF ContractTypes
<1>2. PreviewedInv /\ PreviewTellsCommit /\ CommittedIsConfirmed
  BY DEF PreviewedInv, PreviewTellsCommit, CommittedIsConfirmed
<1> QED
  BY <1>1, <1>2 DEF ContractInv

LEMMA LeastOfSeven ==
  ASSUME NEW S, S \subseteq 1 .. 7, S # {}
  PROVE  \E i \in S : \A k \in S : i <= k
<1>1. CASE 1 \in S
  BY <1>1
<1>2. CASE 1 \notin S /\ 2 \in S
  BY <1>2
<1>3. CASE 1 \notin S /\ 2 \notin S /\ 3 \in S
  BY <1>3
<1>4. CASE 1 \notin S /\ 2 \notin S /\ 3 \notin S /\ 4 \in S
  BY <1>4
<1>5. CASE S \subseteq {5, 6, 7} /\ 5 \in S
  BY <1>5
<1>6. CASE S \subseteq {6, 7} /\ 6 \in S
  BY <1>6
<1>7. CASE S = {7}
  BY <1>7
<1>8. \A i \in S : i = 1 \/ i = 2 \/ i = 3 \/ i = 4 \/ i = 5 \/ i = 6 \/ i = 7
  OBVIOUS
<1>9. CASE 1 \notin S /\ 2 \notin S /\ 3 \notin S /\ 4 \notin S
  <2>1. S \subseteq {5, 6, 7}
    BY <1>8, <1>9
  <2>2. 5 \notin S => S \subseteq {6, 7}
    BY <2>1
  <2>3. 5 \notin S /\ 6 \notin S => S = {7}
    BY <2>2
  <2> QED
    BY <1>5, <1>6, <1>7, <2>1, <2>2, <2>3
<1> QED
  BY <1>1, <1>2, <1>3, <1>4, <1>9

\* A verdict is the first refusal, or there is none.
LEMMA VerdictIs ==
  ASSUME NEW n \in 0 .. 7, NEW checks, DOMAIN checks = 1 .. n, NEW otherwise
  PROVE  \/ Verdict(checks, otherwise) = otherwise /\ \A i \in 1 .. n : ~checks[i][2]
         \/ \E i \in 1 .. n : /\ Verdict(checks, otherwise) = checks[i][1] /\ checks[i][2]
                              /\ \A k \in 1 .. n : k < i => ~checks[k][2]
<1> DEFINE failing == {i \in DOMAIN checks : checks[i][2]}
           first == CHOOSE i \in failing : \A k \in failing : i <= k
<1>1. CASE failing = {}
  BY <1>1 DEF Verdict
<1>2. CASE failing # {}
  <2>1. first \in failing /\ \A k \in failing : first <= k
    <3>1. failing \subseteq 1 .. 7
      OBVIOUS
    <3> HIDE DEF failing
    <3>2. \E i \in failing : \A k \in failing : i <= k
      BY <1>2, <3>1, LeastOfSeven
    <3> QED
      BY <3>2
  <2>2. Verdict(checks, otherwise) = checks[first][1]
    BY <1>2 DEF Verdict
  <2> HIDE DEF first
  <2>3. first \in 1 .. n /\ checks[first][2] /\ \A k \in 1 .. n : k < first => ~checks[k][2]
    BY <2>1
  <2> QED
    BY <2>2, <2>3
<1> QED
  BY <1>1, <1>2

\* A preview that succeeds was read, and applied to the drawing.
LEMMA PreviewHeldGood ==
  PreviewAnswer = "previewed" => HostParses(program) /\ LayersThere(program)
<1> DEFINE c == << <<"unread", PreviewFrame(program) > HostFrame>>,
                   <<"program_invalid", ~HostParses(program)>>,
                   <<"document_changed", atRevision # program.base>>,
                   <<"program_invalid", ~PlanFits(program)>>,
                   <<"program_invalid", ~LayersThere(program)>> >>
<1>1. PreviewAnswer = Verdict(c, "previewed")
  BY DEF PreviewAnswer
<1>2. DOMAIN c = 1 .. 5
  OBVIOUS
<1>3. \A i \in 1 .. 5 : c[i][1] # "previewed"
  OBVIOUS
<1>4. (c[2][2] <=> ~HostParses(program)) /\ (c[5][2] <=> ~LayersThere(program))
  OBVIOUS
<1> HIDE DEF c
<1> QED
  BY <1>1, <1>2, <1>3, <1>4, VerdictIs

\* What the answer to a commit tells: nothing refuses, or something did first.
LEMMA CommitAnswerTells ==
  /\ CommitAnswer = "committed" => ReceiptRecordFits(program) /\ CheckpointFits(program)
  /\ CommitAnswer = "program_invalid" =>
       \/ ~HostParses(program) \/ ~ReceiptRecordFits(program)
       \/ atRevision = program.base /\ ~LayersThere(program)
  /\ CommitAnswer = "rollback_conflict" => ~CheckpointFits(program)
<1> DEFINE c == << <<"unread", CommitFrame(program) > HostFrame>>,
                   <<"program_invalid", ~HostParses(program)>>,
                   <<"preview_required", ~previewHeld>>,
                   <<"document_changed", atRevision # program.base>>,
                   <<"program_invalid", ~LayersThere(program)>>,
                   <<"program_invalid", ~ReceiptRecordFits(program)>>,
                   <<"rollback_conflict", ~CheckpointFits(program)>> >>
<1>1. CommitAnswer = Verdict(c, "committed")
  BY DEF CommitAnswer
<1>2. DOMAIN c = 1 .. 7
  OBVIOUS
<1>3. /\ c[1][1] = "unread" /\ c[2][1] = "program_invalid" /\ c[3][1] = "preview_required"
      /\ c[4][1] = "document_changed" /\ c[5][1] = "program_invalid" /\ c[6][1] = "program_invalid"
      /\ c[7][1] = "rollback_conflict"
  OBVIOUS
<1>4. /\ c[2][2] <=> ~HostParses(program)
      /\ c[4][2] <=> atRevision # program.base
      /\ c[5][2] <=> ~LayersThere(program)
      /\ c[6][2] <=> ~ReceiptRecordFits(program)
      /\ c[7][2] <=> ~CheckpointFits(program)
  OBVIOUS
<1> HIDE DEF c
<1>5. \A i \in 1 .. 7 : i = 1 \/ i = 2 \/ i = 3 \/ i = 4 \/ i = 5 \/ i = 6 \/ i = 7
  OBVIOUS
<1>6. \/ CommitAnswer = "committed" /\ \A i \in 1 .. 7 : ~c[i][2]
      \/ \E i \in 1 .. 7 : /\ CommitAnswer = c[i][1] /\ c[i][2]
                           /\ \A k \in 1 .. 7 : k < i => ~c[k][2]
  BY <1>1, <1>2, VerdictIs
<1>7. CASE CommitAnswer = "committed" /\ \A i \in 1 .. 7 : ~c[i][2]
  BY <1>4, <1>7
<1>8. CASE \E i \in 1 .. 7 : /\ CommitAnswer = c[i][1] /\ c[i][2]
                             /\ \A k \in 1 .. 7 : k < i => ~c[k][2]
  <2>1. PICK i \in 1 .. 7 : /\ CommitAnswer = c[i][1] /\ c[i][2]
                            /\ \A k \in 1 .. 7 : k < i => ~c[k][2]
    BY <1>8
  <2>2. i = 5 => ~c[4][2]
    BY <2>1
  <2> QED
    BY <1>3, <1>4, <1>5, <2>1, <2>2
<1> QED
  BY <1>6, <1>7, <1>8

\* The weights of a receipt and of a checkpoint are numbers.
LEMMA WeightTyped == ASSUME NEW p \in SealedPrograms
  PROVE  ReceiptWeight(p) \in Nat /\ CheckpointWeight(p) \in Nat
<1>1. PICK n \in 1 .. MaxOperations : p.operations \in OperationLists(n)
  BY DEF SealedPrograms
<1>2. DOMAIN p.operations = 1 .. n
  BY <1>1 DEF OperationLists
<1>3. IsFiniteSet(1 .. n)
  BY FS_Interval
<1>4. \A S : S \subseteq 1 .. n => Cardinality(S) \in Nat
  BY <1>3, FS_Subset, FS_CardinalityType
<1>5. Entities(p) \subseteq 1 .. n
  BY <1>2 DEF Entities
<1>6. /\ Cardinality(Entities(p)) \in Nat
      /\ Cardinality({i \in Entities(p) : LayerOf(p, i) = "long"}) \in Nat
      /\ Cardinality({i \in Entities(p) : p.operations[i].kind \in Measured}) \in Nat
  BY <1>4, <1>5
<1>7. EntityWeight(p) \in Nat
  BY <1>6 DEF EntityWeight
<1> QED
  BY <1>6, <1>7 DEF ReceiptWeight, CheckpointWeight

\* What no step but a commit or an edit of the user does: the drawing, its record and
\* the program stay.
LEMMA AnswersKept ==
  ASSUME ContractInv, UNCHANGED <<program, atRevision, record, layers>>,
         standing' \in {"none", "sealed", "previewed", "unknown", "committed"},
         standing = "none" => standing' = "none",
         standing' = "previewed" => standing = "previewed",
         record # NoRecord => standing' \in {"unknown", "committed"}
  PROVE  ContractTypes' /\ PreviewedInv'
<1>1. ContractTypes /\ PreviewedInv
  BY DEF ContractInv
<1>2. ContractTypes'
  BY <1>1 DEF ContractTypes
<1>3. PreviewedInv'
  BY <1>1 DEF PreviewedInv, HostParses, WellFormed, FirstIsLayer, LayersThere
<1> QED
  BY <1>2, <1>3

LEMMA ContractSealStep == ASSUME ContractInv, Seal PROVE ContractInv'
<1>1. /\ ContractTypes /\ standing = "none" /\ standing' = "sealed" /\ lastAnswer' = Silence
      /\ UNCHANGED <<layers, atRevision, previewHeld, record, meddled>>
  BY DEF ContractInv, Seal
<1>2. PICK p \in ContractPrograms : program' = [p EXCEPT !.base = atRevision]
  BY DEF Seal
<1>3. program' \in SealedPrograms /\ program'.base = atRevision
  BY <1>1, <1>2 DEF ContractPrograms, SealedPrograms, ContractTypes
<1>4. ContractTypes'
  BY <1>1, <1>3 DEF ContractTypes
<1>5. PreviewedInv' /\ PreviewTellsCommit' /\ CommittedIsConfirmed'
  BY <1>1 DEF PreviewedInv, PreviewTellsCommit, CommittedIsConfirmed
<1> QED
  BY <1>4, <1>5 DEF ContractInv

LEMMA PreviewStep == ASSUME ContractInv, Preview PROVE ContractInv'
<1>1. /\ ContractTypes /\ PreviewedInv /\ standing \in {"sealed", "previewed"}
      /\ lastAnswer' = Says("preview", PreviewAnswer, 1)
      /\ standing' = IF PreviewAnswer = "previewed" THEN "previewed" ELSE standing
      /\ UNCHANGED <<program, layers, atRevision, record, meddled>>
  BY DEF ContractInv, Preview
<1>2. record = NoRecord
  BY <1>1 DEF ContractTypes
<1>3. ContractTypes'
  BY <1>1 DEF ContractTypes
<1>4. standing' = "previewed" => HostParses(program) /\ (atRevision = program.base => LayersThere(program))
  BY <1>1, PreviewHeldGood DEF PreviewedInv
<1>5. PreviewedInv'
  BY <1>1, <1>4 DEF PreviewedInv, HostParses, WellFormed, FirstIsLayer, LayersThere
<1>6. PreviewTellsCommit' /\ CommittedIsConfirmed'
  BY <1>1, <1>2 DEF PreviewTellsCommit, CommittedIsConfirmed, Says
<1> QED
  BY <1>3, <1>5, <1>6 DEF ContractInv

\* A commit writes one record, of bounded weight, or changes nothing.
LEMMA CommitStep == ASSUME ContractInv, Commit PROVE ContractInv'
<1>1. /\ ContractTypes /\ PreviewedInv /\ standing = "previewed"
      /\ standing' = Learned(lastAnswer') /\ UNCHANGED <<program, previewHeld, meddled>>
  BY DEF ContractInv, Commit
<1>2. program \in SealedPrograms /\ program.base <= atRevision /\ record = NoRecord
      /\ atRevision \in Nat /\ program.base \in Nat
  BY <1>1 DEF ContractTypes, SealedPrograms
<1>3. CASE CommitAnswer = "committed"
  <2> DEFINE r == RecordOf(program)
  <2>1. /\ record' = r /\ lastAnswer' = Says("commit", "committed", ReplyWeight(r))
        /\ atRevision' = atRevision + 1
    BY <1>3 DEF Commit
  <2>2. ReceiptWeight(program) \in Nat /\ ReceiptWeight(program) <= RecordLimit
    BY <1>2, <1>3, CommitAnswerTells, WeightTyped DEF ReceiptRecordFits
  <2>2a. CheckpointWeight(program) \in Nat
    BY <1>2, WeightTyped
  <2>3. r \in DrawingRecords /\ r.weight <= RecordLimit
    BY <1>2, <2>2, <2>2a DEF RecordOf, DrawingRecords, Some
  <2>4. /\ lastAnswer'.ask = "commit" /\ lastAnswer'.answer = "committed"
        /\ lastAnswer'.heard <=> ReplyWeight(r) <= HostFrame
    BY <2>1 DEF Says
  <2> HIDE DEF r
  <2>5. standing' \in {"unknown", "committed"}
    BY <1>1, <2>4 DEF Learned
  <2>6. ContractTypes'
    BY <1>1, <1>2, <2>1, <2>3, <2>5 DEF ContractTypes
  <2>7. PreviewedInv' /\ PreviewTellsCommit'
    BY <2>4, <2>5 DEF PreviewedInv, PreviewTellsCommit
  <2>8. ReplyWeight(r) > HostFrame \/ ReplyWeight(r) <= HostFrame
    BY <2>3, ContractAssumption DEF ReplyWeight, DrawingRecords
  <2>9. ReplyWeight(record)' = ReplyWeight(r)
    BY <2>1 DEF ReplyWeight
  <2>10. CommittedIsConfirmed'
    BY <2>4, <2>8, <2>9 DEF CommittedIsConfirmed
  <2> QED
    BY <2>6, <2>7, <2>10 DEF ContractInv
<1>4. CASE CommitAnswer # "committed"
  <2>1. lastAnswer' = Says("commit", CommitAnswer, 1) /\ UNCHANGED <<record, atRevision, layers>>
    BY <1>4 DEF Commit
  <2>2. lastAnswer'.ask = "commit" /\ lastAnswer'.answer = CommitAnswer
    BY <2>1 DEF Says
  <2>3. standing' \in {"unknown", "sealed", "committed"}
    BY <1>1 DEF Learned
  <2>4. ContractTypes' /\ PreviewedInv'
    BY <1>1, <1>2, <2>1, <2>3, AnswersKept
  <2>5. CommitAnswer \in {"program_invalid", "rollback_conflict"} => Unrecordable(program)
    <3>1. ReceiptWeight(program) \in Nat /\ CheckpointWeight(program) \in Nat
      BY <1>2, WeightTyped
    <3>2. /\ ~ReceiptRecordFits(program) => Unrecordable(program)
          /\ ~CheckpointFits(program) => Unrecordable(program)
      BY <3>1, ContractAssumption DEF Unrecordable, ReceiptRecordFits, CheckpointFits
    <3> QED
      BY <1>1, <3>2, CommitAnswerTells DEF PreviewedInv
  <2>6. Unrecordable(program)' <=> Unrecordable(program)
    BY <1>1 DEF Unrecordable, Entities, ReceiptWeight, CheckpointWeight, EntityWeight, LayerOf
  <2>7. PreviewTellsCommit'
    BY <2>2, <2>5, <2>6 DEF PreviewTellsCommit
  <2>8. CommittedIsConfirmed'
    BY <1>2, <2>1 DEF CommittedIsConfirmed
  <2> QED
    BY <2>4, <2>7, <2>8 DEF ContractInv
<1> QED
  BY <1>3, <1>4

\* The questions after a commit are answered from its record.
LEMMA QuestionSteps ==
  ASSUME ContractInv, CommitAgain \/ QueryReceipt \/ QueryCheckpoint \/ Validate
  PROVE  ContractInv'
<1>1. /\ ContractTypes /\ UNCHANGED <<program, layers, atRevision, record>>
      /\ standing \in {"unknown", "committed"}
  BY DEF ContractInv, CommitAgain, QueryReceipt, QueryCheckpoint, Validate
<1>2. standing' \in {"unknown", "committed"} /\ lastAnswer'.ask \in {"commit", "receipt", "checkpoint", "validate"}
  <2>1. CASE CommitAgain
    BY <1>1, <2>1 DEF CommitAgain, Learned, Says
  <2>2. CASE QueryReceipt
    BY <1>1, <2>2 DEF QueryReceipt, Says
  <2>3. CASE QueryCheckpoint
    BY <1>1, <2>3 DEF QueryCheckpoint, Says
  <2>4. CASE Validate
    BY <1>1, <2>4 DEF Validate, Says
  <2> QED
    BY <2>1, <2>2, <2>3, <2>4
<1>3. ContractTypes' /\ PreviewedInv'
  <2>1. /\ standing = "none" => standing' = "none"
        /\ standing' = "previewed" => standing = "previewed"
        /\ record # NoRecord => standing' \in {"unknown", "committed"}
        /\ standing' \in {"none", "sealed", "previewed", "unknown", "committed"}
    BY <1>1, <1>2
  <2> QED
    BY <1>1, <2>1, AnswersKept
<1>4. record # NoRecord => /\ record \in DrawingRecords /\ record.weight \in Nat /\ record.weight <= RecordLimit
                           /\ Readable(record) \/ record.outer
                           /\ ReplyWeight(record) <= HostFrame \/ ReplyWeight(record) > HostFrame
  BY <1>1, ContractAssumption DEF ContractTypes, DrawingRecords, Readable, ReplyWeight
<1>5. 1 <= HostFrame /\ UNCHANGED <<record, program>> /\ (ReplyWeight(record)' = ReplyWeight(record))
  BY <1>1, ContractAssumption DEF ReplyWeight
<1>6. CASE CommitAgain
  <2>1. /\ record # NoRecord
        /\ lastAnswer' = IF Readable(record) THEN Says("commit", "duplicate", ReplyWeight(record))
                         ELSE Says("commit", "ledger_corrupt", 1)
    BY <1>6 DEF CommitAgain
  <2>2. CASE Readable(record)
    <3>1. /\ lastAnswer'.ask = "commit" /\ lastAnswer'.answer = "duplicate"
          /\ lastAnswer'.heard <=> ReplyWeight(record) <= HostFrame
      BY <2>1, <2>2 DEF Says
    <3>2. PreviewTellsCommit' /\ CommittedIsConfirmed'
      BY <1>4, <1>5, <2>1, <3>1 DEF PreviewTellsCommit, CommittedIsConfirmed
    <3> QED
      BY <1>3, <3>2 DEF ContractInv
  <2>3. CASE ~Readable(record)
    <3>1. lastAnswer'.ask = "commit" /\ lastAnswer'.answer = "ledger_corrupt" /\ lastAnswer'.heard
      BY <1>5, <2>1, <2>3 DEF Says
    <3>2. PreviewTellsCommit' /\ CommittedIsConfirmed'
      BY <1>4, <1>5, <2>1, <2>3, <3>1 DEF PreviewTellsCommit, CommittedIsConfirmed
    <3> QED
      BY <1>3, <3>2 DEF ContractInv
  <2> QED
    BY <2>2, <2>3
<1>7. CASE QueryReceipt
  <2> DEFINE answer == IF record = NoRecord THEN "absent" ELSE IF Readable(record) THEN "found" ELSE "ledger_corrupt"
  <2>1. lastAnswer' = Says("receipt", answer, 1)
    BY <1>7 DEF QueryReceipt
  <2>2. lastAnswer'.ask = "receipt" /\ lastAnswer'.answer = answer /\ lastAnswer'.heard
    BY <1>5, <2>1 DEF Says
  <2>3. record # NoRecord /\ lastAnswer'.answer = "ledger_corrupt" => record.outer
    BY <1>4, <2>2
  <2>4. PreviewTellsCommit' /\ CommittedIsConfirmed'
    BY <1>5, <2>2, <2>3 DEF PreviewTellsCommit, CommittedIsConfirmed
  <2> QED
    BY <1>3, <2>4 DEF ContractInv
<1>8. CASE QueryCheckpoint
  <2>1. /\ lastAnswer'.ask = "checkpoint" /\ lastAnswer'.answer = "found"
        /\ lastAnswer'.heard <=> ReplyWeight(record) <= HostFrame
    BY <1>8 DEF QueryCheckpoint, Says
  <2>2. PreviewTellsCommit' /\ CommittedIsConfirmed'
    BY <1>4, <1>5, <2>1 DEF PreviewTellsCommit, CommittedIsConfirmed
  <2> QED
    BY <1>3, <2>2 DEF ContractInv
<1>9. CASE Validate
  <2> DEFINE c == << <<"document_changed", atRevision # record.after>>,
                     <<"ledger_corrupt", ~Readable(record)>>,
                     <<"document_changed", ~record.intact>> >>
  <2>1. lastAnswer' = Says("validate", Verdict(c, "valid"), 1)
    BY <1>9 DEF Validate
  <2>2. DOMAIN c = 1 .. 3 /\ \A i \in 1 .. 3 : c[i][1] # "unread"
    OBVIOUS
  <2>3. (c[2][2] <=> ~Readable(record)) /\ \A i \in 1 .. 3 : c[i][1] = "ledger_corrupt" => i = 2
    <3>1. c[2][2] <=> ~Readable(record)
      OBVIOUS
    <3>2. c[1][1] # "ledger_corrupt" /\ c[3][1] # "ledger_corrupt"
      OBVIOUS
    <3> HIDE DEF c
    <3> QED
      BY <3>1, <3>2
  <2> HIDE DEF c
  <2>4. Verdict(c, "valid") # "unread" /\ (Verdict(c, "valid") = "ledger_corrupt" => ~Readable(record))
    BY <2>2, <2>3, VerdictIs
  <2>5. /\ lastAnswer'.ask = "validate" /\ lastAnswer'.heard
        /\ lastAnswer'.answer = "ledger_corrupt" => ~Readable(record)
    BY <1>5, <2>1, <2>4 DEF Says
  <2>6. PreviewTellsCommit' /\ CommittedIsConfirmed'
    BY <1>4, <1>5, <2>5 DEF PreviewTellsCommit, CommittedIsConfirmed
  <2> QED
    BY <1>3, <2>6 DEF ContractInv
<1> QED
  BY <1>6, <1>7, <1>8, <1>9

LEMMA MeddlingSteps == ASSUME ContractInv, UserEdits \/ Reopen PROVE ContractInv'
<1>1. ContractTypes /\ PreviewedInv /\ lastAnswer' = Silence /\ UNCHANGED <<program, standing>>
  BY DEF ContractInv, UserEdits, Reopen, Meddle
<1>2. PreviewTellsCommit' /\ CommittedIsConfirmed'
  BY <1>1 DEF PreviewTellsCommit, CommittedIsConfirmed
<1>3. CASE UserEdits
  <2>1. atRevision' = atRevision + 1 /\ atRevision \in Nat
    BY <1>1, <1>3 DEF UserEdits, ContractTypes
  <2>2. /\ record' \in {NoRecord} \cup DrawingRecords
        /\ record' # NoRecord => record # NoRecord /\ record'.weight = record.weight
    <3>1. CASE record = NoRecord
      BY <1>3, <3>1 DEF UserEdits
    <3>2. CASE record # NoRecord
      <4>1. record' = [record EXCEPT !.intact = FALSE] /\ record \in DrawingRecords
        BY <1>1, <1>3, <3>2 DEF UserEdits, ContractTypes
      <4> QED
        BY <3>2, <4>1 DEF DrawingRecords
    <3> QED
      BY <3>1, <3>2
  <2>3. standing # "none" => program.base <= atRevision' /\ atRevision' # program.base
    <3>1. standing # "none" => program.base \in Nat /\ program.base <= atRevision
      BY <1>1 DEF ContractTypes, SealedPrograms
    <3> QED
      BY <2>1, <3>1
  <2>4. ContractTypes'
    BY <1>1, <2>1, <2>2, <2>3 DEF ContractTypes
  <2>5. PreviewedInv'
    BY <1>1, <2>3 DEF PreviewedInv, HostParses, WellFormed, FirstIsLayer
  <2> QED
    BY <1>2, <2>4, <2>5 DEF ContractInv
<1>4. CASE Reopen
  <2>1. ContractTypes' /\ PreviewedInv'
    <3>1. UNCHANGED <<program, atRevision, record, layers>>
      BY <1>4 DEF Reopen
    <3> QED
      BY <1>1, <3>1, AnswersKept DEF ContractTypes
  <2> QED
    BY <1>2, <2>1 DEF ContractInv
<1> QED
  BY <1>3, <1>4

LEMMA ContractStep == ContractInv /\ [ContractNext]_contractVars => ContractInv'
<1>1. ASSUME ContractInv, UNCHANGED contractVars PROVE ContractInv'
  <2>1. UNCHANGED <<program, atRevision, record, layers, standing, lastAnswer>>
    BY <1>1 DEF contractVars
  <2>2. ContractTypes' /\ PreviewedInv'
    BY <1>1, <2>1, AnswersKept DEF ContractInv, ContractTypes
  <2>3. PreviewTellsCommit'
    BY <1>1, <2>1 DEF ContractInv, PreviewTellsCommit, Unrecordable, Entities, ReceiptWeight,
                      CheckpointWeight, EntityWeight, LayerOf
  <2>4. CommittedIsConfirmed'
    BY <1>1, <2>1 DEF ContractInv, CommittedIsConfirmed, ReplyWeight
  <2> QED
    BY <2>2, <2>3, <2>4 DEF ContractInv
<1> QED
  BY <1>1, ContractSealStep, PreviewStep, CommitStep, QuestionSteps, MeddlingSteps DEF ContractNext

\* A commit that its preview allowed is refused only for the size of its record, or
\* because the program draws nothing (Preview, Commit).
THEOREM PreviewForetells == ContractSpec => []PreviewTellsCommit
<1>1. ContractInv => PreviewTellsCommit
  BY DEF ContractInv
<1> QED
  BY <1>1, ContractInitially, ContractStep, PTL DEF ContractSpec

\* Whatever the Host committed, the receipt query answers, and no reply is unreadable
\* but for its size or for extents beyond the coordinates (QueryReceipt, Parse).
THEOREM CommitsAreConfirmed == ContractSpec => []CommittedIsConfirmed
<1>1. ContractInv => CommittedIsConfirmed
  BY DEF ContractInv
<1> QED
  BY <1>1, ContractInitially, ContractStep, PTL DEF ContractSpec
=============================================================================
