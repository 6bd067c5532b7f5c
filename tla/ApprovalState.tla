--------------------------- MODULE ApprovalState ----------------------------
(***************************************************************************)
(* The state shared by the two ends of trusted approval (Phase 7): the     *)
(* Gateway's intents, consents, jobs and write lock (phase7_repository.py),*)
(* the Agent's store of approval requests (approval.py), and the messages  *)
(* between them.  One device, one document, one owner.                     *)
(*                                                                         *)
(* A key is the idempotency key of one commit request; it determines the   *)
(* intent, the consent, the job and the command.  An intent and a consent  *)
(* never return to a state they left, so a state stands for its version:   *)
(* a compare-and-swap on the version is one on the state.                  *)
(***************************************************************************)
EXTENDS Naturals, FiniteSets

CONSTANTS
  Programs,     \* keys of cad_commit on a Phase 6 program
  Sealed,       \* keys of cad_commit on a sealed Phase 8 plan
  Rollbacks,    \* keys of cad_commit_rollback
  Subjects,     \* previews and rollback plans
  SubjectOf,    \* the preview or plan a key commits
  NoKey,
  Scenarios,    \* bound: the sets of keys the clients use in one behaviour
  MaxSession,   \* bound: Agent sessions
  MaxLoad,      \* bound: keys in use and sessions opened before, together
  MaxRestart    \* bound: crashes of the Gateway and of the Agent together

Keys    == Programs \cup Sealed \cup Rollbacks
Session == 1..MaxSession

NoSession == 0

ASSUME KeysAssumption ==
  /\ Programs \cap Sealed = {} /\ (Programs \cup Sealed) \cap Rollbacks = {}
  /\ NoKey \notin Keys
  /\ SubjectOf \in [Keys -> Subjects]

ASSUME BoundsAssumption ==
  Scenarios \subseteq SUBSET Keys /\ {MaxSession, MaxLoad, MaxRestart} \subseteq Nat

VARIABLES
  \* The Gateway's database.
  intent,      \* intent[k]
  consent,     \* consent[k]
  by,          \* by[k]: decision_source of the consent
  assurance,   \* assurance[k]: required_assurance of the intent
  bound,       \* sealed keys whose intent is bound to its plan
  job,         \* job[k]: the commit job the intent released
  lock,        \* the key whose job holds the document's write lock
  staled,      \* previews with an invalidated_reason
  revoked,     \* the device's credential is revoked
  \* The Gateway's process.
  portal,      \* this process runs with portal approval enabled
  cur,         \* the registered session
  held,        \* the registry says: paused or no write lock
  seen,        \* the registry says: the document has moved on
  rechecked,   \* rollback commits whose recheck has come back
  deciding,    \* deciding[k]: an approval of a rollback waiting to release
  \* The Agent.
  inbox,       \* inbox[k][s]: the approval request of session s
  session,     \* the session the Agent believes open
  paused,      \* the operator paused the Agent
  withdrawing, \* set_paused has set the flag and not yet cleared the inbox
  arriving,    \* request recorded by _handle_approval_request, pause not yet read
  answering,   \* decision signed by submit_approval_decision, not yet recorded
  \* The wires and the world.
  down,        \* down[s]: approval requests on their way to the Agent
  up,          \* up[s]: decisions on their way to the Gateway
  moved,       \* the document is past the revision the subjects are bound to
  expired,     \* keys whose intent and consent have expired
  opened,      \* sessions opened so far
  wanted,      \* keys the clients use in this behaviour
  restarts

dbVars    == <<intent, consent, by, assurance, bound, job, lock, staled, revoked>>
procVars  == <<portal, cur, held, seen, rechecked, deciding>>
agentVars == <<inbox, session, paused, withdrawing, arriving, answering>>
wireVars  == <<down, up>>
worldVars == <<moved, expired, opened, wanted, restarts>>

vars == <<dbVars, procVars, agentVars, wireVars, worldVars>>

-----------------------------------------------------------------------------

IntentState  == {"none", "awaiting", "released", "denied", "invalidated"}
ConsentState == {"none", "requested", "approved", "denied", "consumed", "invalidated"}
Verdict      == {"approved", "denied"}
JobState     == {"none", "active", "succeeded", "failed"}
InboxState   == {"none", "pending", "invalidated", "expired"} \cup Verdict

TypeOK ==
  /\ intent \in [Keys -> IntentState]
  /\ consent \in [Keys -> ConsentState]
  /\ by \in [Keys -> {"none", "portal", "device"}]
  /\ assurance \in [Keys -> {"none", "portal", "local"}]
  /\ bound \subseteq Sealed
  /\ job \in [Keys -> JobState]
  /\ lock \in Keys \cup {NoKey}
  /\ staled \subseteq Subjects
  /\ {revoked, portal, held, seen, paused, withdrawing, moved} \subseteq BOOLEAN
  /\ cur \in Session \cup {NoSession}
  /\ session \in Session \cup {NoSession}
  /\ rechecked \subseteq Rollbacks
  /\ deciding \in [Keys -> {"no", "waiting", "vetted"}]
  /\ inbox \in [Keys -> [Session -> InboxState]]
  /\ arriving \in Keys \cup {NoKey}
  /\ answering \in Keys \cup {NoKey}
  /\ down \in [Session -> SUBSET Keys]
  /\ up \in [Session -> SUBSET (Keys \X Verdict)]
  /\ expired \subseteq Keys
  /\ opened \in Session \cup {NoSession}
  /\ wanted \subseteq Keys
  /\ restarts \in Nat

Init ==
  /\ intent = [k \in Keys |-> "none"] /\ consent = [k \in Keys |-> "none"]
  /\ by = [k \in Keys |-> "none"] /\ assurance = [k \in Keys |-> "none"]
  /\ bound = {} /\ job = [k \in Keys |-> "none"] /\ lock = NoKey
  /\ staled = {} /\ revoked = FALSE
  /\ portal \in BOOLEAN
  /\ cur = NoSession /\ held = FALSE /\ seen = FALSE
  /\ rechecked = {} /\ deciding = [k \in Keys |-> "no"]
  /\ inbox = [k \in Keys |-> [s \in Session |-> "none"]]
  /\ session = NoSession /\ paused = FALSE /\ withdrawing = FALSE
  /\ arriving = NoKey /\ answering = NoKey
  /\ down = [s \in Session |-> {}] /\ up = [s \in Session |-> {}]
  /\ moved = FALSE /\ expired = {} /\ opened = 0 /\ restarts = 0
  /\ wanted \in Scenarios

\* A job that is over no longer keeps the document's lock from another.
Active(k) == job[k] = "active"

\* A receipt proves the commit of this preview or plan (get_receipt_by_preview).
HasReceipt(p) == \E k \in Keys : SubjectOf[k] = p /\ job[k] = "succeeded"
=============================================================================
