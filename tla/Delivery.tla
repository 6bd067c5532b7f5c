------------------------------ MODULE Delivery -------------------------------
(***************************************************************************)
(* The state shared by the two ends of job delivery: the Gateway's durable *)
(* job rows and write lock, the WebSocket sessions between the Gateway and *)
(* one Desktop Agent, the Agent's session-local tasks, its ledger, and the *)
(* CAD Host that carries out the commands.                                 *)
(*                                                                         *)
(* A job is one device's job and one document's job: the model is of one   *)
(* device with one drawing open.                                           *)
(***************************************************************************)
EXTENDS Naturals, Sequences, FiniteSets, JobStates, CommandLedger

CONSTANTS
  Observes,      \* read jobs run over File IPC (kind observe)
  Validates,     \* read jobs run by the Managed Host (program_validate)
  Previews,      \* write-class jobs that leave the drawing unchanged (program_preview)
  Commits,       \* write jobs (program_commit)
  Rollbacks,     \* write jobs (rollback_commit)
  Deadlines,     \* the jobs whose deadline may pass during a run
  Unverified,    \* commits whose Host receipt the Agent will not accept
  Unproven,      \* jobs whose succeeded result the Gateway will not accept
  NoJob,         \* the null job
  MaxSession,    \* bound: how many times the Agent connects
  MaxRestart,    \* bound: how many times the Gateway or the Agent restarts
  QueueSize      \* the Agent's command queue (config.queue_size)

Jobs     == Observes \cup Validates \cup Previews \cup Commits \cup Rollbacks
Programs == Validates \cup Previews \cup Commits
Writes   == Previews \cup Commits \cup Rollbacks    \* effect_class "write"

ASSUME KindsDisjoint ==
  /\ Observes  \cap (Programs \cup Rollbacks) = {}
  /\ Rollbacks \cap Programs = {}
  /\ Commits   \cap (Previews \cup Validates) = {}
  /\ Previews  \cap Validates = {}
ASSUME NoJobIsNoJob == NoJob \notin Jobs
ASSUME OptionsAssumption ==
  /\ Deadlines \subseteq Jobs
  /\ Unverified \subseteq Commits
  /\ Unproven \subseteq Observes \cup Programs
ASSUME BoundsAssumption ==
  /\ MaxSession \in Nat /\ MaxRestart \in Nat /\ QueueSize \in Nat \ {0}

Session   == 1..MaxSession
NoSession == 0

VARIABLES
  (* Gateway, durable *)
  state,         \* state[j]: the job row's state, "absent" before it is created
  intent,        \* intent[j]: cancel_requested_at is set
  cause,         \* cause[j]: whose word the stored outcome is
  lock,          \* the job holding the document's write lock row
  active,        \* the session open in agent_sessions
  (* Gateway, volatile *)
  conn,          \* the session the connection registry holds for the device
  fresh,         \* its last heartbeat is recent
  handler,       \* handler[s]: how far the WebSocket handler of s has come
  sending,       \* the dispatch in progress, under the dispatch lock
  (* the wire *)
  down,          \* Gateway to Agent, on the Agent's present session
  up,            \* up[s]: Agent to Gateway, on session s
  (* Desktop Agent, volatile *)
  session,       \* the session the Agent is on
  welcomed,      \* it has read the welcome
  queue,         \* the commands its receiver has taken
  work,          \* what its worker is doing
  (* Desktop Agent, durable *)
  ledger,        \* ledger[j]
  (* CAD Host *)
  host,          \* host[j]: what the drawing went through for job j
  runs,          \* runs[j]: how many times the Agent started job j
  (* the clock and the bound counter *)
  expired,       \* expired[j]: deadline_at has passed
  restarts

jobVars   == <<state, intent, cause, lock>>
connVars  == <<active, conn, fresh, handler>>
wireVars  == <<down, up>>
agentVars == <<session, welcomed, queue, work>>
hostVars  == <<host, runs>>
envVars   == <<expired, restarts>>
vars == <<jobVars, connVars, sending, wireVars, agentVars, ledger, hostVars, envVars>>

-----------------------------------------------------------------------------
(* Messages.  A reconcile message names a set of commands, the others one. *)

DownType == {"welcome", "command", "cancel", "reconcile"}
UpType   == {"ack", "result", "reconciled"}
UpStatus == {"accepted", "rejected", "duplicate", "already_terminal",
             "not_started", "started", "succeeded", "failed", "cancelled", "outcome_unknown"}

DownMessage == [type : DownType, jobs : SUBSET Jobs]
UpMessage   == [type : UpType, job : Jobs, status : UpStatus]

Down(type, jobs)       == [type |-> type, jobs |-> jobs]
Up(type, job, status)  == [type |-> type, job |-> job, status |-> status]

\* The Gateway writes to the socket of s; what the Agent will not read is lost.
SendDown(s, message) ==
  down' = IF session = s THEN Append(down, message) ELSE down

\* The Agent writes to its socket; what no handler will read is lost.
SendUp(messages) ==
  up' = IF handler[session] = "closed" THEN up ELSE [up EXCEPT ![session] = @ \o messages]

-----------------------------------------------------------------------------
HandlerState == {"none", "registered", "replacing", "activating", "open", "closed"}
Cause        == {"none", "agent", "gateway", "deadline"}
Idle         == [at |-> "idle", job |-> NoJob]
NotSending   == [job |-> NoJob, to |-> NoSession, delivered |-> FALSE]

TypeOK ==
  /\ state    \in [Jobs -> JobState \cup {"absent"}]
  /\ intent   \in [Jobs -> BOOLEAN]
  /\ cause    \in [Jobs -> Cause]
  /\ lock     \in Jobs \cup {NoJob}
  /\ active   \in Session \cup {NoSession}
  /\ conn     \in Session \cup {NoSession}
  /\ fresh    \in BOOLEAN
  /\ handler  \in [Session -> HandlerState]
  /\ sending  \in [job : Jobs \cup {NoJob}, to : Session \cup {NoSession}, delivered : BOOLEAN]
  /\ down     \in Seq(DownMessage)
  /\ up       \in [Session -> Seq(UpMessage)]
  /\ session  \in Session \cup {NoSession}
  /\ welcomed \in BOOLEAN
  /\ queue    \in Seq(Jobs)
  /\ work     \in [at : {"idle", "rejecting", "acking", "executing"}, job : Jobs \cup {NoJob}]
  /\ ledger   \in [Jobs -> LedgerState]
  /\ host     \in [Jobs -> {"idle", "running", "applied", "refused"}]
  /\ runs     \in [Jobs -> Nat]
  /\ expired  \in [Jobs -> BOOLEAN]
  /\ restarts \in Nat

Init ==
  /\ state    = [j \in Jobs |-> "absent"]
  /\ intent   = [j \in Jobs |-> FALSE]
  /\ cause    = [j \in Jobs |-> "none"]
  /\ lock     = NoJob
  /\ active   = NoSession
  /\ conn     = NoSession
  /\ fresh    = TRUE
  /\ handler  = [s \in Session |-> "none"]
  /\ sending  = NotSending
  /\ down     = <<>>
  /\ up       = [s \in Session |-> <<>>]
  /\ session  = NoSession
  /\ welcomed = FALSE
  /\ queue    = <<>>
  /\ work     = Idle
  /\ ledger   = [j \in Jobs |-> "none"]
  /\ host     = [j \in Jobs |-> "idle"]
  /\ runs     = [j \in Jobs |-> 0]
  /\ expired  = [j \in Jobs |-> FALSE]
  /\ restarts = 0
=============================================================================
