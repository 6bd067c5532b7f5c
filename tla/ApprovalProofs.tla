--------------------------- MODULE ApprovalProofs ---------------------------
(***************************************************************************)
(* What trusted approval guarantees for every set of keys, sessions and    *)
(* crashes: the verdicts the Gateway holds are the operator's, a pause     *)
(* stops them, a revoked device gets no job, and the two ends together     *)
(* implement Grant.                                                        *)
(***************************************************************************)
EXTENDS Approval, TLAPS

-----------------------------------------------------------------------------
(* The inductive invariant. *)

\* An intent that does not exist has no consent, and a consent nobody has
\* answered is the only one that can be.
ConsentInv ==
  \A k \in Keys :
    /\ intent[k] = "none" => consent[k] = "none"
    /\ consent[k] \in {"none", "requested"} => by[k] = "none"

\* An active job holds the document's write lock.
LockInv == \A k \in Keys : job[k] = "active" => lock = k

\* A decision on its way is the one on record, under the session it was given in.
WireInv ==
  \A s \in Session : \A m \in up[s] : inbox[m[1]][s] = m[2]

\* While a signature is under way the session stays; once a pause has cleared
\* the inbox, what is being signed is no longer pending.
AnswerInv ==
  answering # NoKey =>
    /\ session # NoSession
    /\ paused /\ ~withdrawing => inbox[answering][session] # "pending"

IInv == TypeOK /\ ConsentInv /\ LockInv /\ WireInv /\ AnswerInv /\ VerdictIsTheOperators

-----------------------------------------------------------------------------
(* Type correctness. *)

\* The state of the Gateway's database, of its process, and of the rest.
DbTypes ==
  /\ intent \in [Keys -> IntentState]
  /\ consent \in [Keys -> ConsentState]
  /\ by \in [Keys -> {"none", "portal", "device"}]
  /\ assurance \in [Keys -> {"none", "portal", "local"}]
  /\ bound \subseteq Sealed
  /\ job \in [Keys -> JobState]
  /\ lock \in Keys \cup {NoKey}
  /\ staled \subseteq Subjects
  /\ revoked \in BOOLEAN

ProcTypes ==
  /\ portal \in BOOLEAN /\ held \in BOOLEAN /\ seen \in BOOLEAN
  /\ cur \in Session \cup {NoSession}
  /\ rechecked \subseteq Rollbacks
  /\ deciding \in [Keys -> {"no", "waiting", "vetted"}]

AgentTypes ==
  /\ paused \in BOOLEAN /\ withdrawing \in BOOLEAN
  /\ session \in Session \cup {NoSession}
  /\ inbox \in [Keys -> [Session -> InboxState]]
  /\ arriving \in Keys \cup {NoKey}
  /\ answering \in Keys \cup {NoKey}

WireTypes ==
  /\ down \in [Session -> SUBSET Keys]
  /\ up \in [Session -> SUBSET (Keys \X Verdict)]

WorldTypes ==
  /\ moved \in BOOLEAN
  /\ expired \subseteq Keys
  /\ opened \in Session \cup {NoSession}
  /\ wanted \subseteq Keys
  /\ restarts \in Nat

\* TypeOK by parts.
LEMMA TypeParts ==
  /\ TypeOK <=> DbTypes /\ ProcTypes /\ AgentTypes /\ WireTypes /\ WorldTypes
  /\ TypeOK' <=> DbTypes' /\ ProcTypes' /\ AgentTypes' /\ WireTypes' /\ WorldTypes'
BY DEF TypeOK, DbTypes, ProcTypes, AgentTypes, WireTypes, WorldTypes

\* A crash or a closed session leaves the types alone (Crashed, Closed).
LEMMA ClosedTypes ==
  ASSUME TypeOK, Closed
  PROVE  /\ held' \in BOOLEAN /\ seen' \in BOOLEAN /\ cur' \in Session \cup {NoSession}
         /\ up' \in [Session -> SUBSET (Keys \X Verdict)]
BY DEF TypeOK, Closed

LEMMA CrashedTypes ==
  ASSUME TypeOK, Crashed
  PROVE  /\ ProcTypes' /\ WireTypes' /\ restarts' \in Nat
<1>1. Closed BY DEF Crashed
<1> QED BY <1>1, ClosedTypes DEF TypeOK, Crashed, ProcTypes, WireTypes

\* A transaction stores words of the stores' own vocabulary (Store, TryRelease).
LEMMA StoreTypes ==
  ASSUME TypeOK, NEW k \in Keys, NEW i \in IntentState, NEW c \in ConsentState, Store(k, i, c)
  PROVE  intent' \in [Keys -> IntentState] /\ consent' \in [Keys -> ConsentState]
BY DEF TypeOK, Store

LEMMA ReleaseTypes ==
  ASSUME TypeOK, NEW k \in Keys, TryRelease(k)
  PROVE  /\ intent' \in [Keys -> IntentState] /\ consent' \in [Keys -> ConsentState]
         /\ job' \in [Keys -> JobState] /\ lock' \in Keys \cup {NoKey}
BY DEF TypeOK, Store, TryRelease, IntentState, ConsentState, JobState

LEMMA DecideTypes ==
  ASSUME TypeOK, NEW k \in Keys, NEW verdict \in Verdict, NEW source \in {"portal", "device"},
         Decide(k, verdict, source)
  PROVE  /\ intent' \in [Keys -> IntentState] /\ consent' \in [Keys -> ConsentState]
         /\ by' \in [Keys -> {"none", "portal", "device"}]
         /\ job' \in [Keys -> JobState] /\ lock' \in Keys \cup {NoKey}
         /\ staled' \subseteq Subjects
         /\ deciding' \in [Keys -> {"no", "waiting", "vetted"}]
<1>1. by' \in [Keys -> {"none", "portal", "device"}]
  BY DEF TypeOK, Decide
<1>2. CASE verdict = "denied"
  <2>1. Store(k, "denied", "denied") /\ UNCHANGED <<job, lock, staled, deciding>>
    BY <1>2 DEF Decide
  <2>2. "denied" \in IntentState /\ "denied" \in ConsentState
    BY DEF IntentState, ConsentState
  <2> QED BY <1>1, <2>1, <2>2, StoreTypes DEF TypeOK
<1>3. CASE verdict # "denied" /\ TryRelease(k) /\ UNCHANGED <<staled, deciding>>
  BY <1>1, <1>3, ReleaseTypes DEF TypeOK
<1>4. CASE verdict # "denied" /\ k \in Programs /\ ~Fit /\ Approve(k)
  <2>1. SubjectOf[k] \in Subjects BY KeysAssumption
  <2> QED BY <1>1, <1>4, <2>1, KeysAssumption DEF TypeOK, Approve, Store, IntentState, ConsentState
<1>5. CASE /\ verdict # "denied"
           /\ Store(k, "awaiting", "approved") /\ UNCHANGED <<job, lock, staled>>
           /\ deciding' \in {deciding, [deciding EXCEPT ![k] = "waiting"]}
  BY <1>1, <1>5 DEF TypeOK, Store, IntentState, ConsentState
<1> QED BY <1>2, <1>3, <1>4, <1>5 DEF Decide, Approve, Fit

LEMMA RecordedType ==
  ASSUME TypeOK, NEW k \in Keys, NEW s \in Session
  PROVE  Recorded(k, s) \in [Keys -> [Session -> InboxState]]
BY DEF TypeOK, Recorded, Withdrawn, InboxState

LEMMA WithdrawnType ==
  ASSUME TypeOK, NEW from
  PROVE  Withdrawn(inbox, from) \in [Keys -> [Session -> InboxState]]
BY DEF TypeOK, Withdrawn, InboxState

\* The Gateway's steps preserve the types.
LEMMA GatewayTypes ==
  ASSUME TypeOK, NEW k \in Keys,
         \/ Commit(k) \/ AskCrashes(k) \/ PortalDecide(k) \/ DecideCrashes(k)
         \/ Recheck(k) \/ CommitRollback(k) \/ Vet(k) \/ ReleaseVetted(k) \/ JobEnds(k)
  PROVE  TypeOK'
<1> USE DEF IntentState, ConsentState, JobState
<1>1. CASE Ask(k) \/ AskSealed(k) \/ AskAgain(k)
  <2>1. /\ assurance' \in [Keys -> {"none", "portal", "local"}]
        /\ bound' \subseteq Sealed
    BY <1>1 DEF TypeOK, Ask, AskSealed, AskAgain, NewIntent, Assurance, dbVars
  <2>2. down' \in [Session -> SUBSET Keys]
    BY <1>1 DEF TypeOK, Ask, AskSealed, AskAgain, SendRequest, Admissible, Fit, Online
  <2>3. /\ intent' \in [Keys -> IntentState]
        /\ consent' \in [Keys -> ConsentState]
    BY <1>1 DEF TypeOK, Ask, AskSealed, AskAgain, Store, dbVars
  <2> QED BY <1>1, <2>1, <2>2, <2>3, TypeParts DEF Ask, AskSealed, AskAgain,
          DbTypes, ProcTypes, AgentTypes, WireTypes, WorldTypes,
          procVars, agentVars, wireVars, worldVars, dbVars
<1>2. CASE Retry(k)
  BY <1>2, ReleaseTypes, TypeParts DEF Retry,
     DbTypes, ProcTypes, AgentTypes, WireTypes, WorldTypes, procVars, agentVars, wireVars, worldVars
<1>3. CASE LapsePreview(k)
  <2>1. SubjectOf[k] \in Subjects BY KeysAssumption
  <2> QED BY <1>3, <2>1, TypeParts DEF LapsePreview,
          DbTypes, ProcTypes, AgentTypes, WireTypes, WorldTypes, procVars, agentVars, wireVars, worldVars
<1>4. CASE AskCrashes(k)
  <2>1. Crashed /\ Store(k, "awaiting", "none") BY <1>4 DEF AskCrashes
  <2>2. bound' \subseteq Sealed BY <1>4 DEF AskCrashes, TypeOK
  <2>3. assurance' \in [Keys -> {"none", "portal", "local"}]
    BY <1>4 DEF AskCrashes, NewIntent, Assurance, TypeOK
  <2> QED BY <1>4, <2>1, <2>2, <2>3, CrashedTypes, StoreTypes, TypeParts DEF AskCrashes,
          DbTypes, AgentTypes, WorldTypes, agentVars
<1>5. CASE PortalDecide(k)
  <2>1. PICK verdict \in Verdict : Decide(k, verdict, "portal") BY <1>5 DEF PortalDecide
  <2> QED BY <1>5, <2>1, DecideTypes, TypeParts DEF PortalDecide,
          DbTypes, ProcTypes, AgentTypes, WireTypes, WorldTypes, agentVars, wireVars, worldVars
<1>6. CASE DecideCrashes(k)
  <2>1. Crashed BY <1>6 DEF DecideCrashes
  <2>2. PICK verdict \in Verdict : Store(k, "awaiting", verdict) BY <1>6 DEF DecideCrashes
  <2>3. by' \in [Keys -> {"none", "portal", "device"}] BY <1>6 DEF DecideCrashes, TypeOK
  <2> QED BY <1>6, <2>1, <2>2, <2>3, CrashedTypes, StoreTypes, TypeParts DEF DecideCrashes, Verdict,
          DbTypes, AgentTypes, WorldTypes, agentVars
<1>7. CASE Recheck(k) \/ Vet(k)
  BY <1>7, TypeParts DEF Recheck, Vet,
     DbTypes, ProcTypes, AgentTypes, WireTypes, WorldTypes, dbVars, agentVars, wireVars, worldVars
<1>8. CASE CommitRollback(k)
  <2>1. /\ rechecked' \subseteq Rollbacks
        /\ assurance' \in [Keys -> {"none", "portal", "local"}]
    BY <1>8 DEF CommitRollback, NewIntent, TypeOK
  <2>2. \/ Store(k, "awaiting", "requested") /\ UNCHANGED <<job, lock>>
        \/ TryRelease(k)
        \/ UNCHANGED <<intent, consent, job, lock>>
    BY <1>8 DEF CommitRollback
  <2>3. /\ intent' \in [Keys -> IntentState] /\ consent' \in [Keys -> ConsentState]
        /\ job' \in [Keys -> JobState] /\ lock' \in Keys \cup {NoKey}
    BY <2>2, StoreTypes, ReleaseTypes DEF TypeOK
  <2> QED BY <1>8, <2>1, <2>3, TypeParts DEF CommitRollback,
          DbTypes, ProcTypes, AgentTypes, WireTypes, WorldTypes, agentVars, wireVars, worldVars
<1>9. CASE ReleaseVetted(k)
  <2>1. TryRelease(k) \/ UNCHANGED <<intent, consent, job, lock>> BY <1>9 DEF ReleaseVetted
  <2>2. /\ intent' \in [Keys -> IntentState] /\ consent' \in [Keys -> ConsentState]
        /\ job' \in [Keys -> JobState] /\ lock' \in Keys \cup {NoKey}
    BY <2>1, ReleaseTypes DEF TypeOK
  <2> QED BY <1>9, <2>2, TypeParts DEF ReleaseVetted,
          DbTypes, ProcTypes, AgentTypes, WireTypes, WorldTypes, agentVars, wireVars, worldVars
<1>10. CASE JobEnds(k)
  <2>1. /\ job' \in [Keys -> JobState] /\ lock' \in Keys \cup {NoKey}
        /\ moved' \in BOOLEAN
    BY <1>10 DEF JobEnds, TypeOK
  <2> QED BY <1>10, <2>1, TypeParts DEF JobEnds,
          DbTypes, ProcTypes, AgentTypes, WireTypes, WorldTypes, procVars, agentVars, wireVars
<1> QED BY <1>1, <1>2, <1>3, <1>4, <1>5, <1>6, <1>7, <1>8, <1>9, <1>10 DEF Commit

\* So do the steps of the sessions, the Agent and the drawing.
LEMMA OtherTypes ==
  ASSUME TypeOK, AnswerInv,
         \/ \E k \in Keys : Expire(k) \/ Answer(k) \/ AnswerStale(k)
         \/ \E s \in Session : LocalDecide(s) \/ LocalRefused(s)
         \/ \E verdict \in Verdict : Answered(verdict)
         \/ Heartbeat \/ HandlerEnds \/ Revoke \/ GatewayRestart
         \/ ReceiveRequest \/ Shown \/ ExpirePending \/ Pause \/ Withdraw \/ Resume
         \/ LoseSession \/ AgentRestart \/ Connect \/ Edit
  PROVE  TypeOK'
<1> USE DEF DbTypes, ProcTypes, AgentTypes, WireTypes, WorldTypes,
        dbVars, procVars, agentVars, wireVars, worldVars
<1>1. CASE \E k \in Keys : Expire(k) \/ Answer(k)
  BY <1>1, TypeParts DEF Expire, Answer
<1>2. CASE (\E k \in Keys : AnswerStale(k)) \/ Shown \/ Withdraw
  <2>1. inbox' \in [Keys -> [Session -> InboxState]]
    BY <1>2, WithdrawnType DEF AnswerStale, Shown, Withdraw, TypeOK
  <2> QED BY <1>2, <2>1, TypeParts DEF AnswerStale, Shown, Withdraw
<1>3. CASE \E s \in Session : LocalDecide(s)
  <2>1. PICK s \in Session : LocalDecide(s) BY <1>3
  <2>2. PICK k \in Keys, verdict \in Verdict :
          /\ Decide(k, verdict, "device")
          /\ \/ up' = [up EXCEPT ![s] = @ \ {<<k, verdict>>}] /\ UNCHANGED <<cur, held, seen>>
             \/ Closed
    BY <2>1 DEF LocalDecide
  <2>3. /\ held' \in BOOLEAN /\ seen' \in BOOLEAN /\ cur' \in Session \cup {NoSession}
        /\ up' \in [Session -> SUBSET (Keys \X Verdict)]
    BY <2>2, ClosedTypes DEF TypeOK
  <2> QED BY <2>1, <2>2, <2>3, DecideTypes, TypeParts DEF LocalDecide
<1>4. CASE (\E s \in Session : LocalRefused(s)) \/ HandlerEnds
  BY <1>4, ClosedTypes, TypeParts DEF LocalRefused, HandlerEnds
<1>5. CASE \E verdict \in Verdict : Answered(verdict)
  <2>1. PICK verdict \in Verdict : Answered(verdict) BY <1>5
  <2>2. session \in Session /\ answering \in Keys BY <2>1 DEF Answered, AnswerInv, TypeOK
  <2>3. inbox' \in [Keys -> [Session -> InboxState]]
    <3>1. verdict \in InboxState BY DEF InboxState
    <3>2. inbox' = inbox \/ inbox' = [inbox EXCEPT ![answering][session] = verdict]
      BY <2>1 DEF Answered
    <3>3. [inbox[answering] EXCEPT ![session] = verdict] \in [Session -> InboxState]
      BY <2>2, <3>1 DEF TypeOK
    <3> QED BY <2>2, <3>2, <3>3 DEF TypeOK
  <2>4. up' \in [Session -> SUBSET (Keys \X Verdict)]
    BY <2>1, <2>2 DEF Answered, TypeOK
  <2> QED BY <2>1, <2>3, <2>4, TypeParts DEF Answered
<1>6. CASE Heartbeat \/ Revoke \/ Edit
  BY <1>6, TypeParts DEF Heartbeat, Report, Revoke, Edit
<1>11. CASE Pause \/ Resume \/ LoseSession
  BY <1>11, TypeParts DEF Pause, Resume, LoseSession
<1>12. CASE AgentRestart
  <2>1. restarts' \in Nat BY <1>12 DEF AgentRestart, TypeOK
  <2> QED BY <1>12, <2>1, TypeParts DEF AgentRestart
<1>7. CASE GatewayRestart
  BY <1>7, CrashedTypes, TypeParts DEF GatewayRestart
<1>8. CASE ReceiveRequest
  <2>1. session \in Session BY <1>8 DEF ReceiveRequest, TypeOK
  <2>2. PICK k \in down[session] :
          /\ inbox' = Recorded(k, session)
          /\ down' = [down EXCEPT ![session] = @ \ {k}] /\ arriving' = k
    BY <1>8 DEF ReceiveRequest
  <2>3. k \in Keys BY <2>1 DEF TypeOK
  <2> QED BY <1>8, <2>1, <2>2, <2>3, RecordedType, TypeParts DEF ReceiveRequest
<1>9. CASE ExpirePending
  <2>1. inbox' \in [Keys -> [Session -> InboxState]]
    BY <1>9 DEF ExpirePending, TypeOK, InboxState
  <2> QED BY <1>9, <2>1, TypeParts DEF ExpirePending
<1>10. CASE Connect
  <2>1. opened + 1 \in Session
    BY <1>10, BoundsAssumption DEF Connect, TypeOK, Session, NoSession
  <2> QED BY <1>10, <2>1, TypeParts DEF Connect, Report
<1> QED BY <1>1, <1>2, <1>3, <1>4, <1>5, <1>6, <1>7, <1>8, <1>9, <1>10, <1>11, <1>12

-----------------------------------------------------------------------------
(* The steps, by what they may do to the Gateway's rows. *)

\* A new intent, with its consent or, after a crash, without.
Asked(k) ==
  /\ intent[k] = "none"
  /\ Store(k, "awaiting", "requested") \/ Store(k, "awaiting", "none")
  /\ UNCHANGED <<by, job, lock>>

\* The release of a consent that was approved before.
Released(k) ==
  /\ consent[k] = "approved" /\ ~revoked
  /\ TryRelease(k)
  /\ UNCHANGED by

\* A verdict, with all that _approve_and_release makes of it or none of it.
Judged(k, verdict, source) ==
  /\ consent[k] = "requested"
  /\ by' = [by EXCEPT ![k] = source]
  /\ source = "device" => cur # NoSession /\ <<k, verdict>> \in up[cur]
  /\ \/ /\ verdict = "denied"
        /\ Store(k, "denied", "denied") \/ Store(k, "awaiting", "denied")
        /\ UNCHANGED <<job, lock>>
     \/ /\ verdict = "approved"
        /\ Store(k, "invalidated", "invalidated") \/ Store(k, "awaiting", "approved")
        /\ UNCHANGED <<job, lock>>
     \/ verdict = "approved" /\ ~revoked /\ TryRelease(k)

LEMMA DecideCases ==
  ASSUME NEW k \in Keys, NEW verdict \in Verdict, NEW source,
         Decide(k, verdict, source),
         source = "device" => cur # NoSession /\ <<k, verdict>> \in up[cur]
  PROVE  Judged(k, verdict, source)
BY DEF Decide, Approve, Judged, Verdict

\* Every step asks, releases, judges, ends a job or leaves the rows alone.
RowsStay == UNCHANGED <<intent, consent, by, job, lock>>

Source == {"portal", "device"}

LEMMA RowSteps ==
  ASSUME TypeOK, [Next]_vars
  PROVE  \/ \E k \in Keys :
              \/ Asked(k) \/ Released(k) \/ JobEnds(k)
              \/ \E verdict \in Verdict, source \in Source : Judged(k, verdict, source)
         \/ RowsStay
<1>1. ASSUME NEW k \in Keys, Commit(k) \/ AskCrashes(k)
      PROVE  Asked(k) \/ Released(k) \/ RowsStay
  BY <1>1 DEF Commit, Ask, AskSealed, AskAgain, Retry, LapsePreview, AskCrashes, NewIntent,
     Asked, Released, RowsStay, dbVars
<1>2. ASSUME NEW k \in Keys, PortalDecide(k)
      PROVE  \E verdict \in Verdict, source \in Source : Judged(k, verdict, source)
  <2>1. PICK verdict \in Verdict : Decide(k, verdict, "portal") BY <1>2 DEF PortalDecide
  <2> QED BY <2>1, DecideCases DEF Source
<1>3. ASSUME NEW s \in Session, LocalDecide(s)
      PROVE  \E k \in Keys, verdict \in Verdict, source \in Source : Judged(k, verdict, source)
  <2>1. PICK k \in Keys, verdict \in Verdict : <<k, verdict>> \in up[s] /\ Decide(k, verdict, "device")
    BY <1>3 DEF LocalDecide
  <2>2. cur = s /\ cur # NoSession BY <1>3 DEF LocalDecide, Session, NoSession
  <2> QED BY <2>1, <2>2, DecideCases DEF Source
<1>4. ASSUME NEW k \in Keys, DecideCrashes(k)
      PROVE  \E verdict \in Verdict, source \in Source : Judged(k, verdict, source)
  BY <1>4 DEF DecideCrashes, Judged, Source, Verdict, Online
<1>5. ASSUME NEW k \in Keys, CommitRollback(k) \/ ReleaseVetted(k)
      PROVE  Asked(k) \/ Released(k) \/ RowsStay
  BY <1>5 DEF CommitRollback, ReleaseVetted, NewIntent, Asked, Released, RowsStay
<1>6. ASSUME NEW k \in Keys,
             Recheck(k) \/ Vet(k) \/ Expire(k) \/ Answer(k) \/ AnswerStale(k)
      PROVE  RowsStay
  BY <1>6 DEF Recheck, Vet, Expire, Answer, AnswerStale, RowsStay, dbVars
<1>7. CASE \/ \E s \in Session : LocalRefused(s)
           \/ \E verdict \in Verdict : Answered(verdict)
           \/ Heartbeat \/ HandlerEnds \/ Revoke \/ GatewayRestart
           \/ ReceiveRequest \/ Shown \/ ExpirePending
  BY <1>7 DEF LocalRefused, Answered, Heartbeat, HandlerEnds, Revoke, GatewayRestart,
     ReceiveRequest, Shown, ExpirePending, RowsStay, dbVars
<1>8. CASE \/ Pause \/ Withdraw \/ Resume \/ LoseSession \/ AgentRestart \/ Connect \/ Edit
           \/ UNCHANGED vars
  BY <1>8 DEF Pause, Withdraw, Resume, LoseSession, AgentRestart, Connect, Edit, vars,
     RowsStay, dbVars
<1> QED BY <1>1, <1>2, <1>3, <1>4, <1>5, <1>6, <1>7, <1>8 DEF Next

-----------------------------------------------------------------------------
(* Revocation. *)

\* Whatever the database holds, the recheck in release_intent and
\* _approve_and_release stands between a revoked device and a new job.
LEMMA RevokedStep ==
  ASSUME TypeOK, [Next]_vars, revoked, NEW k \in Keys, job'[k] = "active"
  PROVE  job[k] = "active"
<1>1. ASSUME NEW j \in Keys, JobEnds(j) PROVE job[k] = "active"
  BY <1>1 DEF TypeOK, JobEnds, Active
<1>2. ASSUME NEW j \in Keys, Asked(j) PROVE job[k] = "active"
  BY <1>2 DEF Asked
<1>3. ASSUME NEW j \in Keys, NEW verdict \in Verdict, NEW source \in Source, Judged(j, verdict, source)
      PROVE  job[k] = "active"
  BY <1>3 DEF Judged
<1> QED BY <1>1, <1>2, <1>3, RowSteps DEF Released, RowsStay

-----------------------------------------------------------------------------
(* Consents and the lock. *)

LEMMA ConsentStep ==
  ASSUME TypeOK, ConsentInv, [Next]_vars
  PROVE  ConsentInv'
<1>1. ASSUME NEW k \in Keys, Asked(k) PROVE ConsentInv'
  BY <1>1 DEF Asked, Store, ConsentInv, TypeOK
<1>2. ASSUME NEW k \in Keys, Released(k) PROVE ConsentInv'
  BY <1>2 DEF Released, TryRelease, Store, ConsentInv, TypeOK
<1>3. ASSUME NEW k \in Keys, NEW verdict \in Verdict, NEW source \in Source, Judged(k, verdict, source)
      PROVE  ConsentInv'
  BY <1>3 DEF Judged, TryRelease, Store, ConsentInv, TypeOK
<1>4. ASSUME NEW k \in Keys, JobEnds(k) PROVE ConsentInv'
  BY <1>4 DEF JobEnds, ConsentInv
<1> QED BY <1>1, <1>2, <1>3, <1>4, RowSteps DEF RowsStay, ConsentInv

\* With the lock free no commit's job is active.
LEMMA FreeMeansIdle ==
  ASSUME LockInv, Free, NEW k \in Keys
  PROVE  job[k] # "active"
BY KeysAssumption DEF LockInv, Free, Active

LEMMA LockStep ==
  ASSUME TypeOK, LockInv, [Next]_vars
  PROVE  LockInv'
<1>1. ASSUME NEW k \in Keys, TryRelease(k) PROVE LockInv'
  BY <1>1, FreeMeansIdle DEF TryRelease, LockInv, TypeOK
<1>2. ASSUME NEW k \in Keys, JobEnds(k) PROVE LockInv'
  BY <1>2 DEF JobEnds, Active, LockInv, TypeOK
<1> QED BY <1>1, <1>2, RowSteps DEF Asked, Released, Judged, RowsStay, LockInv

-----------------------------------------------------------------------------
(* The inbox and the wire. *)

\* A verdict on record stays.
VerdictsKept ==
  \A k \in Keys, s \in Session : inbox[k][s] \in Verdict => inbox'[k][s] = inbox[k][s]

\* No step records a verdict but the one that ends a signature.
NoVerdicts ==
  \A k \in Keys, s \in Session : inbox'[k][s] \in Verdict => inbox'[k][s] = inbox[k][s]

LEMMA WithdrawnKeeps ==
  ASSUME TypeOK, NEW from, inbox' = Withdrawn(inbox, from)
  PROVE  VerdictsKept /\ NoVerdicts
BY DEF VerdictsKept, NoVerdicts, Withdrawn, Verdict, TypeOK

LEMMA RecordedKeeps ==
  ASSUME TypeOK, NEW j \in Keys, NEW t \in Session, inbox' = Recorded(j, t)
  PROVE  VerdictsKept /\ NoVerdicts
<1>1. CASE inbox[j][t] # "none"
  BY <1>1 DEF Recorded, VerdictsKept, NoVerdicts
<1>2. CASE inbox[j][t] = "none"
  <2> DEFINE W == Withdrawn(inbox, {j})
  <2>1. W \in [Keys -> [Session -> InboxState]] BY WithdrawnType
  <2>2. \A k \in Keys, s \in Session :
          inbox[k][s] # "pending" /\ W[k][s] # "invalidated" => W[k][s] = inbox[k][s]
    BY DEF Withdrawn
  <2>3. \A k \in Keys, s \in Session :
          W[k][s] = IF inbox[k][s] = "pending" /\ k = j THEN "invalidated" ELSE inbox[k][s]
    BY DEF Withdrawn
  <2>4. inbox' = [W EXCEPT ![j][t] = "pending"] BY <1>2 DEF Recorded
  <2> HIDE DEF W
  <2>5. \A k \in Keys, s \in Session :
          inbox'[k][s] = IF k = j /\ s = t THEN "pending" ELSE W[k][s]
    BY <2>1, <2>4
  <2> QED BY <1>2, <2>3, <2>5 DEF VerdictsKept, NoVerdicts, Verdict
<1> QED BY <1>1, <1>2

\* What each step does to the inbox and to the decisions on the wire.
LEMMA InboxSteps ==
  ASSUME TypeOK, AnswerInv, [Next]_vars
  PROVE  \/ /\ VerdictsKept /\ NoVerdicts
            /\ \A s \in Session : up'[s] \subseteq up[s]
         \/ \E verdict \in Verdict : Answered(verdict)
<1> DEFINE Kept == VerdictsKept /\ NoVerdicts /\ (\A s \in Session : up'[s] \subseteq up[s])
<1>g. SUFFICES Kept \/ (\E verdict \in Verdict : Answered(verdict)) OBVIOUS
<1>1. ASSUME UNCHANGED inbox PROVE VerdictsKept /\ NoVerdicts
  BY <1>1 DEF VerdictsKept, NoVerdicts
<1>2. ASSUME Closed PROVE \A s \in Session : up'[s] \subseteq up[s]
  BY <1>2 DEF Closed, TypeOK
<1>3. ASSUME NEW k \in Keys,
             \/ Commit(k) \/ PortalDecide(k) \/ Recheck(k) \/ CommitRollback(k)
             \/ Vet(k) \/ ReleaseVetted(k) \/ JobEnds(k) \/ Expire(k) \/ Answer(k)
      PROVE  Kept
  <2>1. UNCHANGED <<inbox, up>>
    BY <1>3 DEF Commit, Ask, AskSealed, AskAgain, Retry, LapsePreview, PortalDecide, Recheck,
       CommitRollback, Vet, ReleaseVetted, JobEnds, Expire, Answer, agentVars, wireVars
  <2> QED BY <1>1, <2>1
<1>4. ASSUME NEW k \in Keys, AskCrashes(k) \/ DecideCrashes(k) PROVE Kept
  BY <1>1, <1>2, <1>4 DEF AskCrashes, DecideCrashes, Crashed, agentVars
<1>5. ASSUME NEW s \in Session, LocalDecide(s) PROVE Kept
  <2>1. UNCHANGED inbox BY <1>5 DEF LocalDecide, agentVars
  <2>2. Closed \/ \E m : up' = [up EXCEPT ![s] = @ \ {m}] BY <1>5 DEF LocalDecide
  <2>3. \A t \in Session : up'[t] \subseteq up[t] BY <1>2, <2>2 DEF TypeOK
  <2> QED BY <1>1, <2>1, <2>3
<1>6. CASE (\E s \in Session : LocalRefused(s)) \/ HandlerEnds \/ GatewayRestart
  BY <1>1, <1>2, <1>6 DEF LocalRefused, HandlerEnds, GatewayRestart, Crashed, agentVars
<1>7. CASE \/ Heartbeat \/ Revoke \/ Pause \/ Resume \/ LoseSession \/ AgentRestart \/ Edit
           \/ UNCHANGED vars
  <2>1. UNCHANGED <<inbox, up>>
    BY <1>7 DEF Heartbeat, Revoke, Pause, Resume, LoseSession, AgentRestart, Edit, vars,
       agentVars, wireVars
  <2> QED BY <1>1, <2>1
<1>8. CASE Connect
  BY <1>1, <1>8 DEF Connect, TypeOK
<1>9. CASE ReceiveRequest
  <2>1. session \in Session BY <1>9 DEF ReceiveRequest, TypeOK
  <2>2. PICK k \in down[session] : inbox' = Recorded(k, session) BY <1>9 DEF ReceiveRequest
  <2>3. k \in Keys BY <2>1 DEF TypeOK
  <2> QED BY <1>9, <2>1, <2>2, <2>3, RecordedKeeps DEF ReceiveRequest
<1>10. CASE Shown \/ Withdraw \/ \E k \in Keys : AnswerStale(k)
  <2>1. inbox' = inbox \/ inbox' = Withdrawn(inbox, Keys) BY <1>10 DEF Shown, Withdraw, AnswerStale
  <2>2. UNCHANGED up BY <1>10 DEF Shown, Withdraw, AnswerStale, wireVars
  <2> QED BY <1>1, <2>1, <2>2, WithdrawnKeeps
<1>11. CASE ExpirePending
  BY <1>11 DEF ExpirePending, VerdictsKept, NoVerdicts, Verdict, wireVars
<1> QED
  <2> HIDE DEF Kept
  <2> QED BY <1>3, <1>4, <1>5, <1>6, <1>7, <1>8, <1>9, <1>10, <1>11 DEF Next

\* The end of a signature: the request is on record, under the verdict that is
\* sent, or nothing happens (submit_approval_decision, record_decision).
LEMMA AnsweredEffect ==
  ASSUME TypeOK, AnswerInv, NEW verdict \in Verdict, Answered(verdict)
  PROVE  /\ answering \in Keys /\ session \in Session
         /\ \/ UNCHANGED <<inbox, up>>
            \/ /\ inbox[answering][session] = "pending"
               /\ \A k \in Keys, s \in Session :
                    inbox'[k][s] = IF k = answering /\ s = session THEN verdict ELSE inbox[k][s]
               /\ \A s \in Session : \A m \in up'[s] :
                    m \in up[s] \/ (s = session /\ m = <<answering, verdict>>)
<1>1. answering \in Keys /\ session \in Session
  BY DEF Answered, AnswerInv, TypeOK
<1>2. CASE inbox[answering][session] = "pending"
  <2>1. inbox' = [inbox EXCEPT ![answering][session] = verdict] BY <1>2 DEF Answered
  <2>2. up' = up \/ up' = [up EXCEPT ![session] = @ \cup {<<answering, verdict>>}]
    BY <1>2 DEF Answered
  <2> QED BY <1>1, <1>2, <2>1, <2>2 DEF TypeOK
<1>3. CASE inbox[answering][session] # "pending"
  BY <1>1, <1>3 DEF Answered
<1> QED BY <1>2, <1>3

LEMMA WireStep ==
  ASSUME TypeOK, AnswerInv, WireInv, [Next]_vars
  PROVE  WireInv'
<1>1. \A s \in Session : \A m \in up[s] :
        m[1] \in Keys /\ m[2] \in Verdict /\ inbox[m[1]][s] = m[2]
  BY DEF TypeOK, WireInv
<1>2. CASE VerdictsKept /\ (\A s \in Session : up'[s] \subseteq up[s])
  BY <1>1, <1>2 DEF VerdictsKept, WireInv
<1>3. ASSUME NEW verdict \in Verdict, Answered(verdict) PROVE WireInv'
  <2>1. CASE UNCHANGED <<inbox, up>>
    BY <2>1 DEF WireInv
  <2>2. CASE ~UNCHANGED <<inbox, up>>
    BY <1>1, <1>3, <2>2, AnsweredEffect DEF WireInv, Verdict
  <2> QED BY <2>1, <2>2
<1> QED BY <1>2, <1>3, InboxSteps

-----------------------------------------------------------------------------
(* Pauses. *)

\* A signature begins only unpaused and keeps its session; the only way back
\* from withdrawing is past a cleared inbox, and no request arrives meanwhile.
LEMMA AnswerStep ==
  ASSUME TypeOK, AnswerInv, [Next]_vars
  PROVE  AnswerInv'
<1>1. ASSUME UNCHANGED agentVars PROVE AnswerInv'
  BY <1>1 DEF AnswerInv, agentVars
<1>2. ASSUME NEW k \in Keys,
             \/ Commit(k) \/ AskCrashes(k) \/ PortalDecide(k) \/ DecideCrashes(k) \/ Recheck(k)
             \/ CommitRollback(k) \/ Vet(k) \/ ReleaseVetted(k) \/ JobEnds(k) \/ Expire(k)
      PROVE  AnswerInv'
  BY <1>1, <1>2 DEF Commit, Ask, AskSealed, AskAgain, Retry, LapsePreview, AskCrashes, PortalDecide,
     DecideCrashes, Recheck, CommitRollback, Vet, ReleaseVetted, JobEnds, Expire
<1>3. CASE \/ \E s \in Session : LocalDecide(s) \/ LocalRefused(s)
           \/ Heartbeat \/ HandlerEnds \/ Revoke \/ GatewayRestart \/ Edit \/ UNCHANGED vars
  BY <1>1, <1>3 DEF LocalDecide, LocalRefused, Heartbeat, HandlerEnds, Revoke, GatewayRestart,
     Edit, vars
<1>4. ASSUME NEW k \in Keys, Answer(k) PROVE AnswerInv'
  BY <1>4 DEF Answer, AnswerInv
<1>5. CASE (\E k \in Keys : AnswerStale(k)) \/ ReceiveRequest \/ ExpirePending \/ LoseSession \/ Connect
  BY <1>5 DEF AnswerStale, ReceiveRequest, ExpirePending, LoseSession, Connect, LoopFree, AnswerInv
<1>6. CASE Pause \/ Resume \/ AgentRestart \/ \E verdict \in Verdict : Answered(verdict)
  BY <1>6 DEF Pause, Resume, AgentRestart, Answered, AnswerInv
<1>7. CASE Shown \/ Withdraw
  <2>1. UNCHANGED <<answering, session, paused>> /\ (withdrawing => inbox' = Withdrawn(inbox, Keys) \/ withdrawing')
    BY <1>7 DEF Shown, Withdraw
  <2>2. ASSUME answering # NoKey, inbox' = Withdrawn(inbox, Keys)
        PROVE  inbox'[answering][session] # "pending"
    BY <2>2 DEF Withdrawn, AnswerInv, TypeOK
  <2>3. ~withdrawing => inbox' = inbox \/ inbox' = Withdrawn(inbox, Keys)
    BY <1>7 DEF Shown, Withdraw
  <2>4. withdrawing \/ (withdrawing' = withdrawing)
    BY <1>7 DEF Shown, Withdraw
  <2> QED BY <2>1, <2>2, <2>3, <2>4 DEF AnswerInv
<1> QED BY <1>2, <1>3, <1>4, <1>5, <1>6, <1>7 DEF Next

\* A verdict that is recorded once a pause has returned was there before.
LEMMA PausedStep ==
  ASSUME TypeOK, AnswerInv, [Next]_vars, paused, ~withdrawing,
         NEW k \in Keys, NEW s \in Session, inbox'[k][s] \in Verdict
  PROVE  inbox[k][s] = inbox'[k][s]
<1>1. ASSUME NEW verdict \in Verdict, Answered(verdict) PROVE inbox[k][s] = inbox'[k][s]
  <2>1. answering # NoKey BY <1>1 DEF Answered
  <2> QED BY <1>1, <2>1, AnsweredEffect DEF AnswerInv
<1> QED BY <1>1, InboxSteps DEF NoVerdicts

-----------------------------------------------------------------------------
(* Verdicts. *)

\* What the Agent has on record for a verdict the Gateway attributes to it.
Told(k) == IF consent[k] = "denied" THEN "denied" ELSE "approved"

\* The consent a verdict leaves says what the verdict was, and it keeps saying
\* so: a denied consent stays, an approved one is spent or withdrawn.
LEMMA VerdictStep ==
  ASSUME TypeOK, ConsentInv, AnswerInv, WireInv, VerdictIsTheOperators, [Next]_vars
  PROVE  VerdictIsTheOperators'
<1> SUFFICES ASSUME NEW k \in Keys, by'[k] = "device"
             PROVE  \E s \in Session : inbox'[k][s] = Told(k)'
  BY DEF VerdictIsTheOperators, Told
<1>1. ASSUME NEW s \in Session, inbox[k][s] \in Verdict PROVE inbox'[k][s] = inbox[k][s]
  <2>1. ASSUME NEW verdict \in Verdict, Answered(verdict) PROVE inbox'[k][s] = inbox[k][s]
    BY <1>1, <2>1, AnsweredEffect DEF Verdict
  <2> QED BY <1>1, <2>1, InboxSteps DEF VerdictsKept
<1>2. ASSUME by[k] = "device", Told(k)' = Told(k) PROVE \E s \in Session : inbox'[k][s] = Told(k)'
  <2>1. PICK s \in Session : inbox[k][s] = Told(k) BY <1>2 DEF VerdictIsTheOperators, Told
  <2>2. Told(k) \in Verdict BY DEF Told, Verdict
  <2> QED BY <1>1, <1>2, <2>1, <2>2
<1>3. ASSUME NEW j \in Keys, Asked(j) PROVE by[k] = "device" /\ Told(k)' = Told(k)
  BY <1>3 DEF Asked, Store, Told, ConsentInv, TypeOK
<1>4. ASSUME NEW j \in Keys, Released(j) PROVE by[k] = "device" /\ Told(k)' = Told(k)
  BY <1>4 DEF Released, TryRelease, Store, Told, TypeOK
<1>5. ASSUME NEW j \in Keys, NEW verdict \in Verdict, NEW source \in Source, Judged(j, verdict, source)
      PROVE  \E s \in Session : inbox'[k][s] = Told(k)'
  <2>1. CASE j = k
    <3>1. source = "device" BY <1>5, <2>1 DEF Judged, TypeOK
    <3>2. cur \in Session /\ <<k, verdict>> \in up[cur] BY <1>5, <2>1, <3>1 DEF Judged, TypeOK
    <3>3. inbox[k][cur] = verdict BY <3>2 DEF WireInv
    <3>4. Told(k)' = verdict
      BY <1>5, <2>1 DEF Judged, TryRelease, Store, Told, Verdict, TypeOK
    <3> QED BY <1>1, <3>2, <3>3, <3>4
  <2>2. CASE j # k
    <3>1. by[k] = "device" /\ consent'[k] = consent[k]
      BY <1>5, <2>2 DEF Judged, TryRelease, Store, TypeOK
    <3> QED BY <1>2, <3>1 DEF Told
  <2> QED BY <2>1, <2>2
<1>6. ASSUME (\E j \in Keys : JobEnds(j)) \/ RowsStay PROVE by[k] = "device" /\ Told(k)' = Told(k)
  BY <1>6 DEF JobEnds, RowsStay, Told
<1> QED BY <1>2, <1>3, <1>4, <1>5, <1>6, RowSteps

-----------------------------------------------------------------------------
(* The theorems of one state and of one step. *)

LEMMA InitIInv ==
  ASSUME Init
  PROVE  IInv
<1>1. TypeOK
  <2>1. wanted \subseteq Keys BY BoundsAssumption DEF Init
  <2> QED BY <2>1, TypeParts DEF Init, DbTypes, ProcTypes, AgentTypes, WireTypes, WorldTypes,
          IntentState, ConsentState, JobState, InboxState, NoSession
<1>2. ConsentInv /\ LockInv /\ WireInv /\ AnswerInv /\ VerdictIsTheOperators
  BY DEF Init, ConsentInv, LockInv, WireInv, AnswerInv, VerdictIsTheOperators
<1> QED BY <1>1, <1>2 DEF IInv

LEMMA NextIInv ==
  ASSUME IInv, [Next]_vars
  PROVE  IInv'
<1> USE DEF IInv
<1>1. TypeOK'
  <2>1. CASE UNCHANGED vars
    BY <2>1, TypeParts DEF vars, dbVars, procVars, agentVars, wireVars, worldVars,
       DbTypes, ProcTypes, AgentTypes, WireTypes, WorldTypes
  <2>2. CASE Next
    BY <2>2, GatewayTypes, OtherTypes DEF Next
  <2> QED BY <2>1, <2>2
<1> QED BY <1>1, ConsentStep, LockStep, WireStep, AnswerStep, VerdictStep

\* The inductive invariant: what the two stores, the wire and the calls under way agree on.
THEOREM InvariantApproval == Spec => []IInv
<1> QED BY InitIInv, NextIInv, PTL DEF Spec

\* The variables keep their types in every behaviour.
THEOREM ApprovalTypes == Spec => []TypeOK
<1>1. IInv => TypeOK BY DEF IInv
<1> QED BY <1>1, InvariantApproval, PTL

\* A verdict the Gateway attributes to the device is the operator's, for any
\* sessions, pauses, repeats and crashes in between (record_decision,
\* local_decide).
THEOREM DeviceVerdicts == Spec => []VerdictIsTheOperators
<1>1. IInv => VerdictIsTheOperators BY DEF IInv
<1> QED BY <1>1, InvariantApproval, PTL

\* Once set_paused has returned no verdict is recorded, whatever signature it
\* caught under way (submit_approval_decision).
THEOREM PauseStops == Spec => PauseStopsVerdicts
<1>1. ASSUME IInv, [Next]_vars
      PROVE  [paused /\ ~withdrawing =>
                \A k \in Keys, s \in Session :
                  inbox'[k][s] \in Verdict => inbox[k][s] = inbox'[k][s]]_inbox
  BY <1>1, PausedStep DEF IInv
<1> QED BY <1>1, InvariantApproval, PTL DEF Spec, PauseStopsVerdicts

\* A revoked device gets no job, not even by an approval given before
\* (_revalidate_intent, revoke).
THEOREM RevokedStops == Spec => RevokedGetsNoJob
<1>1. ASSUME IInv, [Next]_vars
      PROVE  [revoked => \A k \in Keys : job'[k] = "active" => job[k] = "active"]_job
  BY <1>1, RevokedStep DEF IInv
<1> QED BY <1>1, InvariantApproval, PTL DEF Spec, RevokedGetsNoJob

-----------------------------------------------------------------------------
(* Refinement: every step of the two ends is a step of Grant or none. *)

grants  == [k \in Keys |-> Granted(k)]
replied == {k \in Keys : by[k] # "none"}

\* A store that moves the consent of one key moves its grant.
LEMMA StoreBecomes ==
  ASSUME TypeOK, NEW k \in Keys, NEW i, NEW c, Store(k, i, c)
  PROVE  grants' = [grants EXCEPT ![k] =
           CASE c = "requested"   -> "asked"
             [] c = "approved"    -> "granted"
             [] c = "denied"      -> "refused"
             [] c = "invalidated" -> "withdrawn"
             [] c = "consumed"    -> "spent"
             [] OTHER             -> "none"]
<1>1. \A j \in Keys : consent'[j] = IF j = k THEN c ELSE consent[j]
  BY DEF Store, TypeOK
<1>2. \A j \in Keys : j # k => Granted(j)' = Granted(j)
  BY <1>1 DEF Granted
<1>3. Granted(k)' = CASE c = "requested"   -> "asked"
                      [] c = "approved"    -> "granted"
                      [] c = "denied"      -> "refused"
                      [] c = "invalidated" -> "withdrawn"
                      [] c = "consumed"    -> "spent"
                      [] OTHER             -> "none"
  BY <1>1 DEF Granted
<1> QED BY <1>2, <1>3 DEF grants

\* The verdict of an approver is the first for its key.
LEMMA FirstReply ==
  ASSUME TypeOK, ConsentInv, NEW k \in Keys, NEW verdict \in Verdict, NEW source \in Source,
         Judged(k, verdict, source)
  PROVE  Promise!Answer(k)
<1>1. grants[k] = "asked" BY DEF Judged, grants, Granted
<1>2. k \notin replied BY DEF Judged, ConsentInv, replied
<1>3. replied' = replied \cup {k} BY DEF Judged, Source, replied, TypeOK
<1> QED BY <1>1, <1>2, <1>3 DEF Promise!Answer, grants, replied

\* A release spends the grant, or changes nothing of what is promised.
LEMMA ReleaseSpends ==
  ASSUME TypeOK, LockInv, NEW k \in Keys, TryRelease(k)
  PROVE  \/ /\ \A j \in Keys : job[j] # "active"
            /\ grants' = [grants EXCEPT ![k] = "spent"]
            /\ job' = [job EXCEPT ![k] = "active"]
         \/ /\ grants' = [grants EXCEPT ![k] = "granted"]
            /\ UNCHANGED job
<1>1. CASE Free
  <2>1. \A j \in Keys : job[j] # "active" BY <1>1, FreeMeansIdle
  <2>2. Store(k, "released", "consumed") /\ job' = [job EXCEPT ![k] = "active"]
    BY <1>1 DEF TryRelease
  <2>3. grants' = [grants EXCEPT ![k] = "spent"] BY <2>2, StoreBecomes
  <2> QED BY <2>1, <2>2, <2>3
<1>2. CASE ~Free
  <2>1. Store(k, "awaiting", "approved") /\ UNCHANGED job BY <1>2 DEF TryRelease
  <2>2. grants' = [grants EXCEPT ![k] = "granted"] BY <2>1, StoreBecomes
  <2> QED BY <2>1, <2>2
<1> QED BY <1>1, <1>2

LEMMA StepRefines ==
  ASSUME IInv, [Next]_vars
  PROVE  [Promise!Next]_<<grants, replied, job>>
<1> USE DEF IInv
<1> DEFINE Goal == [Promise!Next]_<<grants, replied, job>>
<1>g. SUFFICES Goal OBVIOUS
<1>p. /\ grants = [k \in Keys |-> Granted(k)]
      /\ grants' = [k \in Keys |-> Granted(k)']
      /\ replied = {k \in Keys : by[k] # "none"}
      /\ replied' = {k \in Keys : by'[k] # "none"}
  BY DEF grants, replied
<1>s. \A k \in Keys : [grants EXCEPT ![k] = grants[k]] = grants
  BY DEF grants
<1>1. ASSUME NEW k \in Keys, Asked(k) PROVE Goal
  <2>1. grants[k] = "none" BY <1>1 DEF Asked, ConsentInv, grants, Granted
  <2>2. replied' = replied /\ UNCHANGED job BY <1>1 DEF Asked, replied
  <2>3. \/ grants' = [grants EXCEPT ![k] = "asked"]
        \/ grants' = [grants EXCEPT ![k] = "none"]
    BY <1>1, StoreBecomes DEF Asked
  <2>4. CASE grants' = [grants EXCEPT ![k] = "asked"]
    <3>1. Promise!Request(k)
      BY <2>1, <2>2, <2>4, <1>p DEF Promise!Request, Promise!Become
    <3> QED BY <3>1 DEF Promise!Next
  <2>5. CASE grants' = [grants EXCEPT ![k] = "none"]
    BY <1>s, <2>1, <2>2, <2>5
  <2> QED BY <2>3, <2>4, <2>5
<1>2. ASSUME NEW k \in Keys, Released(k) PROVE Goal
  <2>1. grants[k] = "granted" BY <1>2 DEF Released, grants, Granted
  <2>2. replied' = replied BY <1>2 DEF Released, replied
  <2>3. CASE /\ \A j \in Keys : job[j] # "active"
             /\ grants' = [grants EXCEPT ![k] = "spent"]
             /\ job' = [job EXCEPT ![k] = "active"]
    <3>1. Promise!Spend(k)
      BY <2>1, <2>2, <2>3, <1>p DEF Promise!Spend, Promise!Become
    <3> QED BY <3>1 DEF Promise!Next
  <2>4. CASE grants' = [grants EXCEPT ![k] = "granted"] /\ UNCHANGED job
    BY <1>s, <2>1, <2>2, <2>4
  <2> QED BY <1>2, <2>3, <2>4, ReleaseSpends DEF Released
<1>3. ASSUME NEW k \in Keys, NEW verdict \in Verdict, NEW source \in Source, Judged(k, verdict, source)
      PROVE  Goal
  <2>1. Promise!Answer(k) BY <1>3, FirstReply
  <2>2. CASE grants' = [grants EXCEPT ![k] = "refused"] /\ UNCHANGED job
    <3>1. Promise!Refuse(k) BY <2>1, <2>2, <1>p DEF Promise!Refuse, Promise!Become
    <3> QED BY <3>1 DEF Promise!Next
  <2>3. CASE grants' = [grants EXCEPT ![k] = "withdrawn"] /\ UNCHANGED job
    <3>1. Promise!Withdraw(k) BY <2>1, <2>3, <1>p DEF Promise!Withdraw, Promise!Become
    <3> QED BY <3>1 DEF Promise!Next
  <2>4. CASE grants' = [grants EXCEPT ![k] = "granted"] /\ UNCHANGED job
    <3>1. Promise!Grant(k) BY <2>1, <2>4, <1>p DEF Promise!Grant, Promise!Become
    <3> QED BY <3>1 DEF Promise!Next
  <2>5. CASE /\ \A j \in Keys : job[j] # "active"
             /\ grants' = [grants EXCEPT ![k] = "spent"]
             /\ job' = [job EXCEPT ![k] = "active"]
    <3>1. Promise!Spend(k) BY <2>1, <2>5, <1>p DEF Promise!Spend, Promise!Become
    <3> QED BY <3>1 DEF Promise!Next
  <2>6. \/ Store(k, "denied", "denied") /\ UNCHANGED job
        \/ Store(k, "awaiting", "denied") /\ UNCHANGED job
        \/ Store(k, "invalidated", "invalidated") /\ UNCHANGED job
        \/ Store(k, "awaiting", "approved") /\ UNCHANGED job
        \/ TryRelease(k)
    BY <1>3 DEF Judged
  <2>7. ASSUME NEW i, Store(k, i, "denied") PROVE grants' = [grants EXCEPT ![k] = "refused"]
    BY <2>7, StoreBecomes
  <2>8. ASSUME NEW i, Store(k, i, "invalidated") PROVE grants' = [grants EXCEPT ![k] = "withdrawn"]
    BY <2>8, StoreBecomes
  <2>9. ASSUME NEW i, Store(k, i, "approved") PROVE grants' = [grants EXCEPT ![k] = "granted"]
    BY <2>9, StoreBecomes
  <2> HIDE DEF Goal
  <2> QED BY <2>2, <2>3, <2>4, <2>5, <2>6, <2>7, <2>8, <2>9, ReleaseSpends
<1>4. ASSUME NEW k \in Keys, JobEnds(k) PROVE Goal
  <2>1. grants' = grants /\ replied' = replied BY <1>4 DEF JobEnds, grants, Granted, replied
  <2>2. Promise!Finish(k) BY <1>4, <2>1, <1>p DEF Promise!Finish, JobEnds, Active
  <2> QED BY <2>2 DEF Promise!Next
<1>5. CASE RowsStay
  BY <1>5 DEF RowsStay, grants, Granted, replied
<1> QED
  <2> HIDE DEF Goal
  <2> QED BY <1>1, <1>2, <1>3, <1>4, <1>5, RowSteps

\* The two ends together keep what approval promises: a commit is carried out
\* only on a grant, a grant is given once and spent once, and of the jobs that
\* write the document one is active at a time.
THEOREM GrantImplemented == Spec => ImplementsGrant
<1>1. Init => Promise!Init
  BY DEF Init, Promise!Init, Granted
<1>2. IInv /\ [Next]_vars =>
        [Promise!Next]_<<[k \in Keys |-> Granted(k)], {k \in Keys : by[k] # "none"}, job>>
  BY StepRefines DEF grants, replied
<1> QED BY <1>1, <1>2, InvariantApproval, PTL DEF Spec, ImplementsGrant, Promise!Spec
=============================================================================
