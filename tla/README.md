# CAD Gateway, Desktop Agent and Managed Host: a verification project

TLA+ models, TLC runs and TLAPS proofs for the program that carries a CAD
request from a client to AutoCAD and its outcome back: the Gateway, the Desktop
Agent, the host inside AutoCAD and what they promise one another.  The models
are written from the source; where a document, comment or test says something
else, that is a finding.

## 1. The system

```
 client (MCP) -> Gateway -> WebSocket session -> Desktop Agent -> runtime broker -> CAD
                 jobs, consents, runs            ledger, approvals       Managed .NET Host (named pipe)
                 in SQLite; sessions             in SQLite; queue        AutoLISP over files (File IPC)
```

Paths are relative to `src/`; `gw/` is `services/gateway/src/autocad_gateway/`,
`sq/` is `gw/infrastructure/sqlite/`, `ag/` is
`apps/desktop_agent/src/autocad_desktop_agent/` and `host/` is
`native/autocad_managed_host/src/`.

| Component | State it keeps | Operations | What makes it correct |
|---|---|---|---|
| Job service: `gw/application/job_service.py`, `sq/repositories.py`, `gw/domain/jobs.py` | durable job rows (state, version, deadline, cancel intent, result) | create, dispatch, cancel, sweep deadlines; handle ack, result, reconcile result; connected, disconnected | ends are final; an unknown outcome is never retried; a report is true of the drawing |
| Programs and write lock: `gw/program_services.py`, `sq/program_repository.py` | program revisions, previews, receipts, keys, one lock row per document | prepare, preview, commit, validate, finalize | what runs is what was prepared and previewed, once; a write that is not over holds its document's lock |
| Sessions: `gw/infrastructure/agent_transport/*` | device to connection map, heartbeat times, wire sequences | add (replaces), remove, heartbeat; one handler per socket | one current session; a job of a lost session is asked about |
| Lifecycle and maintenance: `gw/durable_services.py` | agent_sessions rows, the maintenance task | initialize, maintenance pass, on_agent_connected / heartbeat / disconnected | a restart forgets nothing and repeats nothing |
| Desktop Agent core: `ag/core.py`, `ag/executor.py`, `ag/program_executor.py` | session, bounded queue, worker, receiver, pause and write-lock switches | receive, run one command at a time, cancel, reconcile, heartbeat | at most one execution; truthful results |
| Command ledger: `ag/ledger.py` | durable entry per command | record_received, transition, request_cancel, reconcile_status, recover_interrupted_programs | entries only grow and are frozen at the end |
| Phase 7 admission: `gw/phase7_admission.py`, `sq/phase7_repository.py` | intents, consents, jobs | create, approve in the portal or at the Agent, recheck, release | a consent releases one job once |
| Approval store: `ag/approval.py` | local approval rows | record request, decide, expire, invalidate | one decision per request; none after expiry or pause |
| Recovery and rollback: `gw/phase7_recovery.py`, `sq/phase7_repository.py` | recovery cases, evidence, checkpoints, rollback plans and receipts | escalate, look up, settle, roll back | an unknown write has a case, or an answer about it is due; one rollback per checkpoint |
| Identity: `gw/identity.py`, `ag/pairing.py` | key files, pairing sessions, credentials, challenges, tokens | pair, challenge, exchange, revoke | one-time use; nothing survives a revocation; a device in force can sign |
| Workflows: `gw/workflows/*`, `sq/phase9_repository.py` | runs, steps, leased actions | claim, mark started, complete, reconcile after restart | a started write is never dispatched again |
| Pipe client: `ag/runtime/*` | selected runtime, pipe stream, handshake | probe, select, request with timeout | an answer belongs to its request; a lost answer is unknown |
| Managed Host: `host/*` | session, idle work queue, previews, ledgers inside the drawing, document revisions and events | preview, commit, validate, look up, roll back, read events | a commit is the previewed one; a rollback gives back what the commit found; no event is missed silently |
| File IPC: `src/autocad_mcp/backends/file_ipc.py`, `lisp-code/mcp_dispatch.lsp` | request and result files | dispatch, poll, clean up | a command runs once, and not after its caller was answered |
| Scenes: `gw/scenes/*`, `packages/cad_core/src/cad_core/scene/` | scenes built from snapshots, keys bound to them, cursors | build, query, validate, expire | a reader sees one scene, all of it; a key keeps its scene |
| Dimensioning: `src/autocad_mcp/dimension_plans.py` and the tools around it | plans in memory | plan, revise, commit, discard | what is drawn is what was approved, and once |
| Contracts, portal, catalogue | static data | pure or read-only operations | mostly data validation |

How they interact: the Gateway and the Agent exchange messages over one
WebSocket per session, opened by the Agent.  Each side keeps its own durable
record (job rows; ledger), and after a loss the Gateway asks the Agent
(`reconcile`) what became of each command.  The Agent drives the Host through a
named pipe, or AutoLISP through files, and waits for a reply with a timeout.
Client calls, Agent callbacks and the maintenance loop act on the same rows.
A write needs a preview, a consent of the operator, and the lock of its
document; what it did is proved by a receipt the Host stores inside the drawing.

What is hard:

* sessions come, go and replace one another while commands, acks and results
  are under way on them;
* either process, or AutoCAD, may stop between any two writes; the others go on;
* a send may fail after delivery; a deadline may pass during execution; a request
  given up may still be carried out;
* in the Agent the receiver runs whenever the worker awaits, so a cancel may
  fall between the ack and the start, and a pause between a request and its answer;
* what was checked (revision, pins, consent, credential) may change before it is
  used;
* several writes, workflow handlers and processes compete for one drawing.

`PROJECT.json` lists the hazards line by line with the properties that cover
them.

## 2. Modules

| Module | Models |
|---|---|
| `JobStates` | the job state machine and the check of every stored move (`gw/domain/jobs.py`) |
| `CommandLedger` | the states of a ledger entry, the moves it accepts, the answer to a reconcile (`ag/ledger.py`) |
| `Delivery` | the state the two ends of job delivery share: constants, variables, messages, `Init`, `TypeOK` |
| `GatewayJobs` | the Gateway's actions on jobs: client calls, dispatch, messages, maintenance, handler life, restart |
| `DesktopAgent` | the Agent's actions on jobs: receiver, worker, recovery; and of the external Host |
| `JobOutcome` | abstract: what a client is promised about a job |
| `JobDelivery` | composition, fairness, properties, refinement of `JobOutcome` |
| `JobDeliveryProofs`, `DeliveryRecordProofs`, `DeliveryOutcomeProofs` | the theorems about it: the ledger and executions, the rows and the lock, the outcome and the refinement |
| `ApprovalState`, `GatewayAdmission`, `AgentApprovals` | the state of approval, the Gateway's part (intents, consents, portal, release), the Agent's part (store, pause, local decision) |
| `Grant` | abstract: what a consent is worth |
| `Approval` | composition, properties, refinement of `Grant` |
| `ApprovalProofs` | the theorems about it |
| `WorkflowState`, `WorkflowRunner`, `WorkflowService` | the state of runs, the leased actions, the handlers that advance runs |
| `Workflow` | composition, fairness, properties |
| `WorkflowProofs` | the theorems about it |
| `DeviceIdentity` | pairing, key files, challenges, tokens, registration, revocation |
| `AgentSessions` | the handlers, registry, stored sessions and shown status of one device |
| `HostLink` | the pipe: threads of the client, streams, the host's session and idle queue |
| `DocumentEvents` | the event log of a document and a reader with a cursor |
| `HostDrawing` | the drawing under preview, commit, rollback, save, reopen |
| `Recovery` | the Gateway's record of writes to be recovered, rollback plans and receipts |
| `FileIpc` | request, trigger and result files among several processes and a user |
| `CadPrograms` | programs from preparation to validation while drawing and runtime change |
| `SealedPlans` | the revisions and sealed plans of Phase 8, and what must hold of a plan when it is previewed, committed, released and carried out |
| `DimensionPlans` | the plans of the dimension tools, their store, and AutoCAD drawing them |
| `ProgramContract` | what Gateway and Host accept of one program, and what its commit leaves in the drawing |
| `Scenes` | what the Gateway infers from a snapshot, the keys bound to it, and who reads it |
| `ConnectionProofs`, `ProgramProofs`, `HostProofs` | the theorems about the twelve components above, from `DeviceIdentity` to `Scenes` |
| `MCJobDelivery`, `MCApproval`, `MCWorkflow`, `MCRecords`, `MCComponents` | the modules TLC instantiates; `MCRecords` runs job delivery, the drawing or recovery, `MCComponents` one of the ten other components that need no composition, chosen at the start |

### 2.1 Job delivery

`state`, `intent`, `lock` and `active` are the durable rows of the Gateway;
`cause` remembers whose word an outcome is (`agent`, `gateway`, `deadline`),
which the code holds in the stored error code.  `conn`, `fresh` and
`handler[s]` are the registry and the coroutine of each socket: `registered`
(in the registry, not yet welcomed), `replacing` (the same, while the replaced
socket is being closed), `activating` (inside `on_connected`), `open`, `closed`.
`sending` is the dispatch that holds the dispatch lock during its socket write.
`down` and `up[s]` are the socket: one queue to the Agent, and one per handler
from it, since an old handler may still have messages to read.  `session`,
`welcomed`, `queue`, `work` belong to one session of the Agent; `ledger` is
durable.  `host[j]` is what the drawing went through for a job and `runs[j]`
counts how often the Agent started it.

Both programs are asyncio programs.  A step of the model is the code between
two awaits that can suspend: socket writes in the Gateway; socket writes, the
queue and the Host's reply in the Agent.  SQLite calls do not suspend.  So
`Accept` (ledger entry and ack) and `Start` (ledger entry and hand-over to the
Host) are two actions with the receiver free to run between them, and so are
`DispatchClaimed` and `SendReturns`/`SendFails`.  An exception that leaves the
message handler ends the session as it does in the code: `Store` with target
`"invalid"` is `EndHandler`, which moves every in-flight job of the device.

Five disjoint sets of jobs: `Observes` (read over File IPC), `Validates`
(`program_validate`), `Previews` (`program_preview`, write-class but harmless),
`Commits` (`program_commit`) and `Rollbacks` (`rollback_commit`).  The code
treats each differently in recovery, in the ledger and at the deadline.
`Unverified` commits get a receipt the Agent does not accept; the Gateway does
not accept the success of `Unproven` jobs (a bad snapshot, a bad binding).
`Deadlines` are the jobs whose deadline may pass.

Assumptions: one device with one open drawing (rows of other devices do not
interact, the lock is per document); the Host may carry out or refuse a command
at any later time, whether or not anyone still waits (`refused` also stands for
the Agent's own admission checks); both processes read one clock; the welcome is
written without suspension, except in the window of a replacement, where a
command may come first; `DispatchRefused` and `Refuse` may happen to any job and
stand for every capability, policy, pause and write-lock check.

### 2.2 Approval

A key is one idempotency key of a client that asks for a commit of a program, of
a sealed Phase 8 plan, or of a rollback.  `intent`, `consent`, `job`, `lock` are
rows of the Gateway, `inbox[k][s]` the Agent's row for a request it got in
session `s`.  A handler that awaits between two transactions is two steps, and so
is a recheck (`_revalidate_intent`, which waits for a fresh session) before the
release.  Modelled with their faults: a repeated request, a portal decision
racing a local one, a pause while a request arrives or while a decision is being
signed, a replaced session, expiry, revocation, a stop between intent and consent.
Subjects (`SubjectOf`) are what an intent binds: two keys of one sealed plan share
one.

Behaviour the model keeps because the code has it: a retry of a Phase 8 commit
never releases an approved intent, the portal does (`approval_replay`);
`commit_rollback` rechecks the revision before it looks for a receipt; a second
intent on one sealed plan is refused and leaves an intent without plan binding;
a local decision that is refused or raises ends the WebSocket session; a stop
between "consent denied" and "intent denied" leaves the intent awaiting; nothing
moves intents to `expired` or `cancelled`; `portal_decide` does not look at the
required assurance.

### 2.3 Workflows

A run is its reads (`ReadsOf`), possibly a review by the user (`Reviewed`), and
possibly a commit (`Writes`).  Three kinds of handlers advance runs from a view
they read earlier: the maintenance loop, the callback of an Agent connection, and
a client's call; each is a task with a program counter (`task[h]`).  Leases of
actions lapse, a process stops anywhere, a skill is withdrawn.

Simplifications: any eligible action is taken rather than the oldest; waits other
than the user's answer are dropped; `ready` is folded into `running`; the drain's
limit of 64 is dropped; `begin_control_command` and its end are one step, and so
is a reconcile after a restart.  Behaviour kept: a conflict that leaves a handler
(a stale heal of a cancelled run, a read whose lease was reclaimed, the end of a
commit after another handler) ends the maintenance loop for good (`"dead"`); a
stop between `mark_dispatch_started` and the intent leaves a run `running` for
ever, a commit refused before its intent leaves it `waiting_for_recovery`; the
preview of a redispatched action carries a new `expires_at` and is refused
(`idempotency_conflict`); a cancel during a commit's dispatch is undone.

### 2.4 Components without composition

* `DeviceIdentity`: an identity is a number; key, metadata and `paired` marker are
  files written and removed one by one, with a stop anywhere.  Every transaction of
  `gw/identity.py` is a step, and registration is the stages of an attempt
  (challenge, token, hello, check, `registry.add`, check again, welcome), because
  `revoke` commits before it closes the session.  Expiry is an attempt left.
* `HostLink`: a request of the client is a thread that takes the transport's
  stream; a caller that gives up marks it and an abort thread closes the stream
  later.  The host serves one stream at a time; a work item is queued, then
  executed on AutoCAD's thread or cancelled, by one compare-and-swap.
  `PromptStart` is a named assumption: a thread is started before its caller can
  be cancelled and another request begin.  Without it (`FALSE`) a thread may take
  the next request's stream without looking at `cancelled`
  (`managed_dotnet.py:106`), and `AnswerIsForItsRequest` fails in the
  model.  The busy and deadline checks precede the look-up of a receipt, so
  a repeated commit may be refused although it was applied.
* `DocumentEvents`: events recorded, aggregated, suppressed and dropped; a reader
  that pages with a cursor and restarts when refused.
* `HostDrawing`: a drawing in memory and on disk, with the ledgers inside it and
  the revision recorded beside it, under one plan of each of four families
  (`family`).  When unsaved work is given up the recorded revision comes back and
  counts the same numbers again; `PreviewedIsCommitted` names that exception
  (`orphan`).  The families differ where the code does: a Phase 8 repeat of an
  applied commit is refused `stale_snapshot`, a program's is answered
  `duplicate`.  A program or a creating plan may ensure a layer: its commit makes
  the layer unless it is there (`Ensured`), and its rollback erases the entities and
  leaves the layer, as Phase-7.md:209 and Phase-8.md:319 say.  The operator makes and
  purges layers too (`MakeLayer`, `PurgeLayer`).  So a rollback gives back the drawing
  the commit found, with the layer the plan ensures (`RollbackRestores`).  Undo, the ledger's capacity and a mixed plan (two checkpoints, one
  of which can be rolled back) are not modelled.
* `Recovery`: the Gateway's rows of one commit and of its rollbacks, under several
  plans and keys, with what the Agent's report proves (`proof`): everything, or not the
  payload, not the typed binding, or not the effect.  The owner may ask for a job to be
  cancelled, before or after the Agent has it.  Behaviour kept:
  a stop between the transition and its case leaves a write without a case
  (`interrupted`); two paths make a write unknown and open no case, a session that
  opens on a job in `cancel_requested` (`SessionOpens`, `handle_connected`) and an
  `already_terminal` acknowledgement of a job in hand (`LedgerAcknowledged`,
  `_handle_ack`), and both ask the Agent, whose answer opens the case or settles the
  job (`unanswered` until then); a report about another payload ends the job before
  anything else is looked at, and an unknown one needs attention (`WrongPayload`,
  `_fail_payload`) with whatever case it has; the deadline of an unknown rollback opens
  none either (`job_service.py:319`), so that a rollback which became unknown on one of
  those paths needs attention with no case, although Phase-7.md:519-525 has a case
  created automatically when the operator's intervention is needed; nothing resolves a
  case or frees the lock of a write in
  `needs_attention`; mismatched evidence of a commit in `reconnect_pending` ends
  the session at every reconnect.
* `FileIpc`: command file, trigger, result file; a posted trigger may run late,
  twice or never; the user opens, closes and switches documents; several client
  processes share the directory and clean it up.  The dispatcher's manual entry
  point (oldest file of anybody) is left out.  A caller who is told that the active
  document changed, and tries again, makes another request; that its command runs
  twice then is outside `RequestRunsOnce`, which speaks of one request.
* `CadPrograms`: one program service, its repository and the Agent's executor on
  one drawing.  Jobs are reduced to what ties them together.  Behaviour kept: a
  repeated prepare or preview is revalidated before its key is looked up, so it is
  refused after the drawing moved; a repeated commit whose own effect was already
  reported invalidates its preview before the receipt is stored; a job created
  before its preview was invalidated is still dispatched; the Agent compares the
  revision before the Host looks for a receipt.  The direct commit is that of the
  Phase 6 mode; with Phase 7 on, commits go through `Approval`.
* `SealedPlans`: one lineage of program revisions.  Builds, packs, policy, evidence
  and the drawing change behind the back of a sealed plan.  An intent is approved in
  one step and a job goes out in one.  Behaviour kept: a job released before the
  policy changed is still dispatched; a stop between the revision and its plan leaves
  a revision without plan, which a retry heals for a root and not for a patch; a plan
  of an older policy is never resealed; a rebased child that is not released may take
  effect after its parent did.  `invalidate_plan` and `transition_conflict` have no
  caller, so conflicts stay open.
* `DimensionPlans`: concurrent tool calls interleave wherever one waits for AutoCAD,
  and the user works on.  Behaviour kept: after a timeout, a cancelled call or a
  missing report the plan is a draft again, and the next commit draws it a second
  time; the active drawing may change between the check and the dispatch, and
  `batch_create` compares no drawing at all; a batch that fails leaves a draft nobody
  knows the id of, which keeps its place in the store for good.  The audits that
  produce repairs, and the ezdxf backend, are not modelled.
* `ProgramContract`: any program of up to three operations of which at most one is out
  of the usual, its sizes as weights against one limit for a record and one for a
  frame.  Two readers judge it, and what the Host wrote is read back by itself.
  Behaviour kept: the Gateway accepts a line between equal points, a delete character
  in a layer's name and a layer the drawing lacks, the Host refuses them; the text of
  a dimension counts in the Gateway's budget only; the preview tries neither receipt nor
  checkpoint, so a program of layers alone, or one whose record is too large, previews
  and never commits; a circle within the budgets may reach beyond the coordinates
  allowed, and the receipt of its commit is then `ledger_corrupt` for ever
  (`CadProgramV02.cs:1461`), although Phase-6.md:353 says that an exact duplicate
  returns the old receipt; a reply larger than a frame is lost after the
  commit.  The reply repeats the entities of the checkpoint, without extents, and is
  weighed by them (`listed`).  Two cases are exempted by name: `PreviewTellsCommit`
  says nothing of a program that draws nothing or whose record is too large
  (`Unrecordable`), which the code does refuse after its preview, and
  `CommittedIsConfirmed` nothing of the circle above (`outer`).
* `AgentSessions`: one device; a handler is one attempt to hold a session, and each
  wait for its socket is a place it can be found at.  A session stores itself after
  its welcome is written and does not look whether it was replaced meanwhile
  (`gw/durable_services.py:1735`): the newer session then loses its row and ends at
  its next heartbeat.  A session that falls silent keeps its row, and shows the
  device online again when it is heard of.  Jobs are those of 2.1.
* `Scenes`: one owner and one section, items as numbers, a scene as snapshot and
  build options; that a scene lapses is a step that may come at any time, also within
  a query.  `told` remembers what a key was answered with.  A behaviour has one kind of
  reader, a client with cursors or a run of a workflow, since readers change nothing
  (both at once, and two keys, were checked apart).  Behaviour kept: a scene that lapses
  within a query by entity answers an empty page as if it were all
  (`gw/scenes/service.py:174`); without a secret for cursors a section longer than the
  limit is refused `feature_disabled`; after a change of the build options a repeated
  key is an `idempotency_conflict`; `dispatch` does not hand the entities of a
  selection on, so a drawing with more than 200 items of evidence never gets past the
  selection.

## 3. Runs

Every bound is a constant: `MaxSession`, `MaxRestart`, `MaxLoad`, `MaxIdentity`, `MaxOutages`,
`MaxEvents`, `MaxChanges`, `MaxSeeds`, `MaxStops`, `MaxStopped`, `MaxMoves`,
`MaxJobs`, `MaxRevision`, `MaxLineage`, `MaxEpoch`, `MaxUpsets`, `PlanLimit`,
`LastPlan`, `LastRevision`, `MaxUserSteps`, `MaxOperations`, `EntityBudget`, `RecordLimit`,
`HostFrame`, `MaxMeddling`, `MaxScenes`, `MaxConfigs`, `QueueSize`, and the sizes of the sets.  Every run says
`CHECK_DEADLOCK FALSE`, because with the bounds used up and the work over the
system has nothing left to do.

| Run | Instance | Shows |
|---|---|---|
| `CommitRecovery` | one commit with a deadline, 2 sessions, 1 restart, fairness | execution at most once, truthful ends, an unknown outcome kept, refinement of `JobOutcome`, liveness |
| `Records` | one of: a read with a deadline and a doubtful snapshot, 2 sessions, 1 restart; two of a preview, a doubtful validation and a rollback, 1 session, queue of 1; a drawing under a plan of each family, its layer there or not, 1 edit, 3 changes, 2 seeds; a commit and two rollbacks of one plan, one of which is left out once the Gateway has stopped | a read, which the ledger does not recover: acknowledged means recorded; a full queue, a failed send and a stale session forget no job; the write that is not over holds the lock; what is committed was previewed; a rollback gives back what the commit found; a write in doubt has a case or is about to be answered |
| `Approvals` | a program commit alone; two keys of one sealed plan; a sealed plan and a rollback; 2 sessions, 1 restart | a consent releases one job once; pause, revocation and replayed decisions; refinement of `Grant` |
| `Workflows` | three casts of runs and handlers, 1 restart, fairness | a commit is dispatched once; success is true and is reported |
| `Components` | each component of 2.4 but `HostDrawing` and `Recovery` | its properties, below |
| `UnknownReconciled`, `DeadlineWrite`, `SessionReplaced` | one commit, 1 or 2 sessions | findings 1 to 3 |
| `ApprovalRetry` | a program commit, fairness | finding 4 |
| `ReviewSkipped`, `CancelledWrite` | the casts of `Workflows` | findings 5 and 6 |
| `CertifiedCommit` | two builds, one lineage of two revisions | finding 7 |

Why these bounds are enough to be interesting: two sessions are what a
reconnect, a replacement and a late message on an old handler need; one restart
is what an interrupted execution needs, and it can hit any point; two jobs are
what competition for the lock and the queue needs; a queue of one is full with
one command waiting.  Two identities are a device and its successor; three
handlers are a session that replaces another and is replaced; two
retained batches and seven events overflow the log twice; two seeds and three
changes are a drawing that lost its sidecar and one that counts again (two edits were checked apart); two
rollbacks are two keys of one plan (both with a stop, and two plans without one, were
checked apart); two moves of
the user switch a document and come back; three jobs are a preview, a commit and
a validation, or two previews and a commit (four jobs and two programs were
checked apart); two revisions, two policies and two upsets are a plan whose every
premise may lapse; one place in the store of dimension plans, three tool calls and
two drawings are a commit that meets another and a user who switches drawings; three
operations, a budget of two entities and limits of four are a program that just fits each
limit and one that does not; three scenes are two of one snapshot under different
options and one built anew after a lapse.  In
`Components` the names of several sets are the same model
values, so that one symmetry serves each component; it and `Records` have no
liveness property, which symmetry would make unsound.

### Properties

Job delivery:

* `AtMostOneExecution`: no redelivery, reconnect or restart starts a job twice.
* `SucceededMeansDone`: a success is true of the drawing.
* `FailedCommitExplained`: the only ways in which a commit reported failed can
  have changed the drawing.
* `AcknowledgedMeansRecorded`: what the Gateway believes accepted, the ledger
  remembers.
* `ActiveWriteHoldsLock`: a second write is not admitted next to one that is not
  over.
* `NothingForgotten`: when both ends are quiet, nobody waits.  It fails when one
  session replaces another (finding 3); `NothingForgottenAlone` is the same on the
  only session there has been.
* `TerminalIsFinal`, `UnknownIsNeverRetried`, `LedgerOnlyGrows`: what a step may
  never do.
* `ImplementsOutcome`: with the mapping `state` to `report` and `host` to
  `effect`, each step is a step of `JobOutcome` or a stutter.  It implies that a
  cancelled or queued job left the drawing alone (`CancelledMeansUntouched`,
  `QueuedMeansUntouched`).
* `InFlightIsLeft`, `DeadlineSettles`: liveness.

Approval: `VerdictIsTheOperators` (a verdict the Gateway attributes to the device is
one its operator gave), `PauseStopsVerdicts`, `RevokedGetsNoJob`, `ImplementsGrant`
(consent, lock and job go together, once).

Workflows: `NeverRedispatched`, `SucceededMeansCommitted`,
`StartedWriteNotCancelled`, `SuccessIsReported` (liveness).

Components: `RevokedIsOut`, `ActiveCanSign`; `ShownAsConnected` (the list of devices
tells the truth about the sessions); `AnswerIsForItsRequest`,
`RefusedIsUntouched`; `NoSilentGap`; `PreviewedIsCommitted`,
`RollbackRestores` (a rollback gives back what the commit found, and at most a layer is
left of it); `UnknownHasCase` (with cases on, a write left unknown or needing attention
has a case, unless the process stopped in between or an answer about it is due);
`RequestRunsOnce`;
`ExecutedAsPrepared`, `ProgramRunsOnce`; `CommittedAsSealed`;
`DrawnAgainOnlyAfterSilence`, `DrawnAsApproved`; `PreviewTellsCommit` (what previews
commits, with the exceptions named), `CommittedIsConfirmed` (what committed can be
read back); `ReadersSeeTheScene`, `KeyKeepsItsScene`.  Each is stated in a comment above its definition.

### Fairness

`JobDelivery`: weak fairness of the sweep, of every handler step, of the Agent's
tasks, and of noticing that a socket's other side has gone: each is an asyncio
task the event loop resumes, or a loop with a timer.  The end of a command
(`Finish`) is fair because every execution has a timeout.  Nothing is assumed of
clients, of the Agent connecting again, of the Host answering, or of a deadline
passing.

`Workflow`: weak fairness of every handler's steps, and strong fairness of the
maintenance loop beginning a pass and of what it awaits returning: the event loop
is a FIFO queue, so a task that is ready again and again is resumed.

`Approval` (finding 4 only): weak fairness of the repeated request of an
admissible commit, which is what "can be repeated for ever" means.

### Findings

1. `UnknownReconciled`: `handle_reconcile_result` keeps an unknown write unknown
   only if the row is in `outcome_unknown` already.  A commit still in
   `reconnect_pending` whose ledger entry is `outcome_unknown` is finalized as
   failed and its lock is released, against Phase-7.md.
2. `DeadlineWrite`: the sweep ends a started commit as failed; its effect may be
   in the drawing, and the late receipt is then refused as a conflict.
3. `SessionReplaced`: jobs in flight on a replaced session are neither moved to
   recovery nor asked about, until their deadline or the next loss.
4. `ApprovalRetry`: an intent and its consent are two transactions; after a stop
   between them every retry finds an intent nobody can approve.
5. `ReviewSkipped`: the review step and its run start to wait in two transactions;
   after a stop between them the resumed run goes on to the commit.
6. `CancelledWrite`: a run is reported cancelled while the job of its commit is
   under way, unknown or done.
7. `CertifiedCommit`: the Agent hashes the lower of two levels of support into the
   identity of an effect, the Host the level of the server.  A commit on a certified
   build is carried out and then reported failed.

## 4. Proofs

Every safety property a passing run checks is proved for all values of the
constants, from the named assumptions of the modules (disjoint kinds, bounds are
naturals, `NoJob` is no job).  The theorems, module by
module, with the invariants that carry them:

### 4.1 Job delivery

| Module | Theorem | Property |
|---|---|---|
| `JobDeliveryProofs` | `TypeCorrect` | `TypeOK` |
| | `TerminalStates` | `TerminalIsFinal` |
| | `UnknownNotRetried` | `UnknownIsNeverRetried` |
| | `ExecutedOnce` | `AtMostOneExecution` |
| | `LedgerMonotone` | `LedgerOnlyGrows` |
| | `ReportedDone` | `SucceededMeansDone` |
| `DeliveryRecordProofs` | `LockHeld` | `ActiveWriteHoldsLock` |
| | `AcknowledgedRecorded` | `AcknowledgedMeansRecorded` |
| `DeliveryOutcomeProofs` | `CancelledIsUntouched`, `QueuedIsUntouched` | (`CancelledMeansUntouched`, `QueuedMeansUntouched`) |
| | `FailedIsExplained` | `FailedCommitExplained` |
| | `OutcomeImplemented` | `ImplementsOutcome` |
| | `NobodyForgotten` | `NothingForgottenAlone` |

* `TInv` is `TypeOK` together with "a busy worker has a job", which `TypeOK`
  alone does not give and the worker's steps need.
* The two action properties follow step by step from `TInv`: each operator that
  chooses a next state keeps ended jobs and unknown jobs where they must stay.
* `LInv` adds `WorkInv`, which ties the worker's position to the ledger entry of
  its job, and `RunsInv`, by which a job that was started once has an entry past
  `accepted`.  Without them `AtMostOneExecution` is not inductive: nothing would
  stop `Start` from meeting an entry that is not ahead of the count.
* `SInv` adds `HostInv` (only a started job can have an effect), `LedgerTruth`
  (a succeeded entry has its effect), `WireTruth` (so does every succeeded
  message on any socket, old handlers included) and the property itself.  The
  chain drawing, ledger, wire, job row is why no reordering can report a success
  early.
* `RInv` adds `WireFaithful`: what any message says of a job, the ledger has
  reached or passed.
* `OInv` counts tokens (`TokenInv`).  A command the Agent has not started is in at
  most one place: on the wire, in the queue, in the worker, under a question about
  it, or in the answer that it was not begun.  The Gateway queues, cancels or
  fails a job only where it holds that token, so nobody is left to begin it.
  `SessionInv` says which messages anybody will still read.
* `OutcomeImplemented` maps each action to a step of `JobOutcome` or a stutter,
  with `OInv` to know that what is reported of a job cannot be overtaken.
* `AloneInv` says of the only session there has been that every job is `InHand`.
  A job in flight is `Held`: by its command on the wire or in the queue, by the
  worker, by a result or a rejection on its way back, or by a send that is bound to
  fail.  `NothingForgottenAlone` alone is not inductive, because one message puts a
  job back in flight: the answer "started" to a reconcile.  So the invariant also
  says that what the ledger has as started is what the worker runs, and that every
  such answer on the wire has a result behind it, unless the worker still runs the
  job.  `Pristine` starts the induction: before the first session nothing is in
  flight or started.  Neither fact outlives the session: after it the ledger
  keeps as started what the worker has abandoned, and a replaced session leaves its
  jobs in flight (finding 3).

### 4.2 Approval

| Module | Theorem | Property |
|---|---|---|
| `ApprovalProofs` | `ApprovalTypes` | (`TypeOK`) |
| | `DeviceVerdicts` | `VerdictIsTheOperators` |
| | `PauseStops` | `PauseStopsVerdicts` |
| | `RevokedStops` | `RevokedGetsNoJob` |
| | `GrantImplemented` | `ImplementsGrant` |

The invariant (`InvariantApproval`): a decision on the wire is the one on record
under the session it was given in; while a signature is under way its session
stays, and a pause that has cleared the inbox leaves nothing pending for it; an
active job holds the lock.  The refinement of `Grant` needs no more.

### 4.3 Workflows

| Module | Theorem | Property |
|---|---|---|
| `WorkflowProofs` | `WorkflowTypes` | (`TypeOK`) |
| | `DispatchedOnce` | `NeverRedispatched` |
| | `SuccessIsReal` | `SucceededMeansCommitted` |
| | `StartedWriteSpared` | `StartedWriteNotCancelled` |
| | `OneAtATime` | (`Alone`) |

In parentheses: not a property of a run.

The invariant (`InvariantWorkflow`) rests on `Alone`: handlers share one event
loop, so at most one is not suspended.  With it, between `claim_action` and the
dispatch the claim is the handler's own (`ClaimInv`), a commit that is yet to be
dispatched has not been (`SentInv`), and a run is finished only behind its job.

### 4.4 The other components

Each theorem is about the component's own specification (`DeviceSpec`,
`SessionsSpec`, ...); a behaviour of `MCComponents` is one of ten of them with
the other variables unchanged, and of `MCRecords` one of the other two or of `JobDelivery`.

| Module | Theorem | Property | What makes it inductive |
|---|---|---|---|
| `ConnectionProofs` | `RevocationReaches` | `RevokedIsOut` | while `close_device` has its session in hand any other registered one is still before its second look at the credential (`CaughtOrEarly`) |
| | `KeyIsKept` | `ActiveCanSign` | files are removed only once no credential is in force |
| | `ListTellsTruth` | `ShownAsConnected` | only the describing session has an open row; shown online means an open row |
| `ProgramProofs` | `UnknownIsNoticed` | `UnknownHasCase` | the property itself: each step that makes a write unknown opens a case, puts it among `interrupted` or `unanswered`, and only an answer, which opens one too, takes it from there |
| | `ProgramsAsPrepared`, `ProgramsOnce` | `ExecutedAsPrepared`, `ProgramRunsOnce` | a commit leaves its program's revision behind for ever; a row comes after the run it reports; a commit has its preview, a validation its commit |
| | `PlansAsSealed` | `CommittedAsSealed` | what is so of a task for good (`TaskSound`), and that a row with a plan does not change |
| | `DrawnOnceUnlessSilent`, `DrawnAsAsked` | `DrawnAgainOnlyAfterSilence`, `DrawnAsApproved` | the commit lock fixes status and revision; times drawn plus work in hand are at most what may still be heard of plus what went unheard (`CountInv`) |
| | `PagesAreTheScene`, `KeyIsAnsweredAlike` | `ReadersSeeTheScene`, `KeyKeepsItsScene` | what a reader was shown is the selection up to its offset; the binding of a key is there as long as its scene lives |
| | `PreviewForetells`, `CommitsAreConfirmed` | `PreviewTellsCommit`, `CommittedIsConfirmed` | what was previewed parses, and its layers are there at its revision; a record is within the limit |
| `HostProofs` | `CommandRunsOnce` | `RequestRunsOnce` | the file of a command that has run is there only while the dispatcher has it in hand |
| | `CursorHidesNothing` | `NoSilentGap` | the retained batches follow one another without a hole (`EventChain`) |
| | `CommittedAsPreviewed`, `RollbackGivesBack` | `PreviewedIsCommitted`, `RollbackRestores` | a drawing at the revision of a preview, or of a receipt, is the one that was seen, in memory and on disk, with the layer the commit ensured |
| | `AnswersArePaired`, `RefusalIsFinal` | `AnswerIsForItsRequest`, `RefusedIsUntouched` | a stream carries nothing, one request, or its answer; whoever takes it over finds it empty; a work item is the current request's (`InvariantLink`) |

The last two are proved under `PromptStart`, the assumption of section 2.4: without
it TLC finds `AnswerIsForItsRequest` violated.

## 5. Only model-checked

* Liveness (`InFlightIsLeft`, `DeadlineSettles`, `SuccessIsReported`): fairness and
  `ENABLED` are outside the prover's reach.

Of the type invariants a run checks that of job delivery only.  Those of approval,
workflows, `DeviceIdentity`, `AgentSessions` and `Recovery` are proved with their
inductive invariants; the other proofs state the types they need themselves.

## 6. Not modelled

Inside job delivery: progress messages, payload hashes and binding mismatches,
authentication beyond `DeviceIdentity`, duplicates of wire sequences, lost
compare-and-swap races between two Gateway processes.  A refused session is
modelled as able to happen at any time (`ActivationFails`) without its cause; the
one known cause, a queued job whose dispatch fails with another code than two, is
the hazard without a property.

In approval: nonces, payload bindings beyond the subject of a key.  In recovery:
the content of evidence, and the operations without a caller outside tests
(`resolve_recovery_case`, `record_phase7_evidence`, `create_checkpoint`,
`list_recovery_cases`).  In the Host: undo, the capacity of
the ledger, the numbers and texts of a program.

Other components: see the notes in `PROJECT.json`.  Geometry and file formats are
numerical or data code with next to no control state; the portal and the
catalogue are static.

## 7. Plan

Every safety property a run checks is proved, so the proofs left to add are of
statements the runs do not make yet: how far `InHand` reaches beyond the first
session, for writes (which the answer "started" never puts back in flight) and
sessions that are opened and end before the next begins.
