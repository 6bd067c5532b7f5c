----------------------------- MODULE CadPrograms -----------------------------
(***************************************************************************)
(* CAD programs of one drawing, from being prepared to being validated:    *)
(* the program service of the Gateway, its repository, and the executor of *)
(* the Agent.                                                              *)
(*                                                                         *)
(* A program is sealed for one revision of the drawing and one set of pins *)
(* (runtime, package, capability manifest, registry, policy).  Everything  *)
(* after that happens later: the drawing is edited, AutoCAD is upgraded,   *)
(* the Gateway believes the last heartbeat, previews lapse, jobs wait, and *)
(* a request comes again under its key or under another.                   *)
(*                                                                         *)
(* Jobs are reduced to what ties them together here; how one job is        *)
(* delivered is JobDelivery's subject, how an unknown one is settled       *)
(* Recovery's, what the Host does with the drawing HostDrawing's.          *)
(***************************************************************************)
EXTENDS Naturals, Sequences

CONSTANTS
  Programs,        \* programs the client may prepare
  RequestKeys,     \* its idempotency keys
  Pins,            \* what an AutoCAD may report of itself
  MaxJobs,         \* bound: jobs created
  MaxRevision      \* bound: revisions of the drawing

ASSUME ProgramsAssumption == MaxJobs \in Nat /\ MaxRevision \in Nat

VARIABLES
  session,         \* the Agent's session as the registry knows it, or Offline
  host,            \* the pins of the AutoCAD that runs, or Absent
  drawingNow,      \* the revision of its drawing
  programs,        \* rows of cad_program_revisions, or Absent
  actions,         \* the jobs, in order of creation
  keyed            \* rows of program_idempotency

programVars == <<session, host, drawingNow, programs, actions, keyed>>

Offline == [offline |-> TRUE]
Absent == [absent |-> TRUE]
Unrun == [unrun |-> TRUE]
Jobs == 1 .. Len(actions)

Actions == {"preview", "commit", "validate"}
IsWrite(action) == action \in {"preview", "commit"}
ActiveStates == {"queued", "sent", "unknown", "needs_attention"}

ProgramsTypeOK ==
  /\ session # Offline => session.pins \in Pins /\ session.revision \in 0 .. MaxRevision
  /\ host \in Pins \cup {Absent} /\ drawingNow \in 0 .. MaxRevision
  /\ \A g \in Programs : programs[g] # Absent =>
       programs[g].revision \in 0 .. MaxRevision /\ programs[g].pins \in Pins
  /\ Len(actions) <= MaxJobs
  /\ \A j \in Jobs :
       /\ actions[j].action \in Actions /\ actions[j].program \in Programs
       /\ actions[j].of \in 0 .. j
       /\ actions[j].state \in ActiveStates \cup {"succeeded", "failed"}
       /\ actions[j].row \in {"none", "stored", "invalid"}
       /\ actions[j].command \in {"none", "held", "done", "refused"}
  /\ \A i \in keyed : i.job \in Jobs /\ i.key \in RequestKeys

ProgramsInit ==
  /\ session = Offline /\ host = Absent /\ drawingNow = 0
  /\ programs = [g \in Programs |-> Absent]
  /\ actions = <<>> /\ keyed = {}

-----------------------------------------------------------------------------
(* The Agent's session.                                                    *)

\* Whether the write lock of the Agent is on, and its operator has not paused it.
Modes == {"open", "locked", "paused"}

\* A session reports the pins and the revision of the moment.
Connect ==
  /\ session = Offline /\ host # Absent
  /\ \E mode \in Modes : session' = [pins |-> host, revision |-> drawingNow, mode |-> mode]
  /\ UNCHANGED <<host, drawingNow, programs, actions, keyed>>

\* touch: a heartbeat reports the revision again.
Heartbeat ==
  /\ session # Offline
  /\ session' = [session EXCEPT !.revision = drawingNow]
  /\ UNCHANGED <<host, drawingNow, programs, actions, keyed>>

\* handle_disconnect: what was sent is no longer known of.
Disconnect ==
  /\ session # Offline /\ session' = Offline
  /\ actions' = [j \in Jobs |-> IF actions[j].state = "sent"
                                THEN [actions[j] EXCEPT !.state = "unknown"] ELSE actions[j]]
  /\ UNCHANGED <<host, drawingNow, programs, keyed>>

\* The operator draws.
EditDrawing ==
  /\ drawingNow < MaxRevision /\ drawingNow' = drawingNow + 1
  /\ UNCHANGED <<session, host, programs, actions, keyed>>

\* AutoCAD is started, or it or its package replaced, while the Agent is away.
Upgrade ==
  /\ session = Offline
  /\ host' \in Pins \ {host}
  /\ UNCHANGED <<session, drawingNow, programs, actions, keyed>>

-----------------------------------------------------------------------------
(* The client's requests.                                                  *)

\* _current_binding: the pins are read off the session's manifest.
CurrentPins == session.pins

\* build_semantic_program: what the program is sealed for; its operations and
\* budgets, once found valid, matter no more.
SealedProgram == [revision |-> session.revision, pins |-> CurrentPins]

\* prepare: the snapshot must be of the revision the session reports.
Prepare(g) ==
  /\ programs[g] = Absent /\ session # Offline
  /\ programs' = [programs EXCEPT ![g] = SealedProgram]
  /\ UNCHANGED <<session, host, drawingNow, actions, keyed>>

\* _revalidate_program: the pins first, the revision next.
PinsHold(g) == CurrentPins = programs[g].pins
RevisionHolds(revision) == session.revision = revision

\* _idempotency: the request a key was used for.
Answered(action, key) == {i \in keyed : i.action = action /\ i.key = key}

NewJob(action, g, of) ==
  [action |-> action, program |-> g, of |-> of, state |-> "queued",
   command |-> "none", ran |-> Unrun, row |-> "none", lapsed |-> FALSE]

\* The row of cad_program_write_locks counts while its job is in one of these states.
DocumentFree == \A j \in Jobs : IsWrite(actions[j].action) => actions[j].state \notin ActiveStates

\* create_action_job, for a key not used before (one that was finds its job, or is
\* refused for another request).
CreateJob(action, g, of, key) ==
  /\ Answered(action, key) = {}
  /\ IsWrite(action) => DocumentFree
  /\ Len(actions) < MaxJobs
  /\ actions' = Append(actions, NewJob(action, g, of))
  /\ keyed' = keyed \cup {[action |-> action, key |-> key, job |-> Len(actions) + 1]}

\* preview.
RequestPreview(g, key) ==
  /\ programs[g] # Absent /\ session # Offline
  /\ PinsHold(g) /\ RevisionHolds(programs[g].revision) /\ session.mode = "open"
  /\ CreateJob("preview", g, 0, key)
  /\ UNCHANGED <<session, host, drawingNow, programs>>

\* get_receipt_by_preview.
ReceiptOf(p) ==
  {j \in Jobs : actions[j].action = "commit" /\ actions[j].of = p /\ actions[j].row = "stored"}

\* Rows of cad_previews.
Previews == {j \in Jobs : actions[j].action = "preview" /\ actions[j].row # "none"}

\* A preview that has lapsed, or whose program no longer fits, is never used again.
PreviewUnfit(p) ==
  \/ actions[p].lapsed
  \/ /\ session # Offline
     /\ \/ ~PinsHold(actions[p].program)
        \/ ~RevisionHolds(programs[actions[p].program].revision)

\* invalidate_preview, on the way to a refusal.
RefuseCommit(p) ==
  /\ p \in Previews /\ actions[p].row = "stored"
  /\ ReceiptOf(p) = {} /\ PreviewUnfit(p)
  /\ actions' = [actions EXCEPT ![p].row = "invalid"]
  /\ UNCHANGED <<session, host, drawingNow, programs, keyed>>

\* commit of a preview that has no receipt yet.
RequestCommit(p, key) ==
  /\ p \in Previews /\ actions[p].row = "stored" /\ ReceiptOf(p) = {}
  /\ session # Offline /\ ~PreviewUnfit(p)
  /\ CreateJob("commit", actions[p].program, p, key)
  /\ UNCHANGED <<session, host, drawingNow, programs>>

\* commit of one that has: its receipt answers, whatever has become of the preview,
\* and is the answer of the key from now on.
RepeatCommit(p, key) ==
  /\ p \in Previews /\ Answered("commit", key) = {}
  /\ \E c \in ReceiptOf(p) :
       keyed' = keyed \cup {[action |-> "commit", key |-> key, job |-> c]}
  /\ UNCHANGED <<session, host, drawingNow, programs, actions>>

\* validate: at the revision the receipt's commit left, without the lock.
RequestValidate(c, key) ==
  /\ c \in Jobs /\ actions[c].action = "commit" /\ actions[c].row = "stored"
  /\ session # Offline /\ PinsHold(actions[c].program) /\ RevisionHolds(actions[c].ran.after)
  /\ CreateJob("validate", actions[c].program, c, key)
  /\ UNCHANGED <<session, host, drawingNow, programs>>

-----------------------------------------------------------------------------
(* The jobs.                                                               *)

To(j, state) == [actions EXCEPT ![j].state = state]

\* _program_dispatch_failure.
Dispatchable(j) ==
  /\ session # Offline
  /\ PinsHold(actions[j].program)
  /\ \/ session.mode = "open"
     \/ session.mode = "locked" /\ ~IsWrite(actions[j].action)

\* dispatch.
Dispatch(j) ==
  /\ j \in Jobs /\ actions[j].state = "queued"
  /\ actions' = IF Dispatchable(j) THEN [actions EXCEPT ![j].state = "sent", ![j].command = "held"]
                ELSE To(j, "failed")
  /\ UNCHANGED <<session, host, drawingNow, programs, keyed>>

\* Mutant: the revision the session last reported.
LatestRevision(j) == IF session = Offline THEN drawingNow ELSE session.revision

\* The revision a command is bound to: of the program, or of the receipt it validates.
BoundRevision(j) ==
  IF actions[j].action = "validate" THEN actions[actions[j].of].ran.after
  ELSE programs[actions[j].program].revision

\* Mutant: the revision the Host reports is not compared.
RightHost(j) == host = programs[actions[j].program].pins

\* ProgramCommandExecutor.execute: select_write_runtime and _validate_document_binding
\* just before the Host is called, and the Host's own look at the revision.
AsBound(j) == host = programs[actions[j].program].pins /\ drawingNow = BoundRevision(j)

\* _normalize_program_result: what its result will say.
RunResult(after) == [before |-> drawingNow, after |-> after, pins |-> host]

\* The Host runs a command the Agent holds, however the Gateway has judged its job
\* since.  A preview is undone, a commit changes the drawing, a validation looks.
RunAsBound(j) ==
  /\ j \in Jobs /\ actions[j].command = "held" /\ AsBound(j)
  /\ LET commits == actions[j].action = "commit"
         after == IF commits THEN drawingNow + 1 ELSE drawingNow
     IN /\ after <= MaxRevision /\ drawingNow' = after
        /\ actions' = [actions EXCEPT ![j].command = "done", ![j].ran = RunResult(after)]
  /\ UNCHANGED <<session, host, programs, keyed>>

\* An AgentExecutionError: nothing was done.
RefuseCommand(j) ==
  /\ j \in Jobs /\ actions[j].command = "held"
  /\ actions' = [actions EXCEPT ![j].command = "refused"]
  /\ UNCHANGED <<session, host, drawingNow, programs, keyed>>

\* _materialize: the row of a preview is stored only before its time.
Materialized(j) == actions[j].action = "preview" => ~actions[j].lapsed

\* finalize_program_job, or failed when the row cannot be stored.
FinalizeProgramJob(j) ==
  /\ j \in Jobs /\ actions[j].state \in {"sent", "unknown"} /\ session # Offline
  /\ \/ actions[j].command = "refused" /\ actions' = To(j, "failed")
     \/ /\ actions[j].command = "done"
        /\ actions' = IF Materialized(j)
                      THEN [actions EXCEPT ![j].state = "succeeded", ![j].row = "stored"]
                      ELSE To(j, "failed")
  /\ UNCHANGED <<session, host, drawingNow, programs, keyed>>

\* A preview's time passes.
Lapse(j) ==
  /\ j \in Jobs /\ actions[j].action = "preview" /\ ~actions[j].lapsed
  /\ actions' = [actions EXCEPT ![j].lapsed = TRUE]
  /\ UNCHANGED <<session, host, drawingNow, programs, keyed>>

\* sweep_deadlines: an unknown commit is left to be recovered.
SweepProgram(j) ==
  /\ j \in Jobs /\ actions[j].state \in {"queued", "sent", "unknown"}
  /\ ~(actions[j].action = "commit" /\ actions[j].state = "unknown")
  /\ actions' = To(j, IF actions[j].state = "unknown" /\ IsWrite(actions[j].action)
                     THEN "needs_attention" ELSE "failed")
  /\ UNCHANGED <<session, host, drawingNow, programs, keyed>>

-----------------------------------------------------------------------------
ProgramsNext ==
  \/ Connect \/ Heartbeat \/ Disconnect \/ EditDrawing \/ Upgrade
  \/ \E g \in Programs : Prepare(g)
  \/ \E key \in RequestKeys :
       \/ \E g \in Programs : RequestPreview(g, key)
       \/ \E p \in Jobs : RequestCommit(p, key) \/ RepeatCommit(p, key) \/ RequestValidate(p, key)
  \/ \E j \in Jobs :
       \/ RefuseCommit(j) \/ Dispatch(j) \/ RunAsBound(j) \/ RefuseCommand(j)
       \/ FinalizeProgramJob(j) \/ Lapse(j) \/ SweepProgram(j)

ProgramsSpec == ProgramsInit /\ [][ProgramsNext]_programVars
-----------------------------------------------------------------------------
Ran(action) == {j \in Jobs : actions[j].action = action /\ actions[j].command = "done"}

\* A commit changes the drawing on the revision its program was sealed for, under the
\* pins it was sealed with, and after a preview of that program ran on the same; a
\* validation looks at the drawing as that commit left it.  Edits, stale heartbeats,
\* upgrades and late commands in between refuse it instead (commit, validate,
\* _revalidate_program, _program_dispatch_failure, execute).
ExecutedAsPrepared ==
  /\ \A j \in Ran("commit") :
       LET prepared == programs[actions[j].program]
       IN \A run \in {actions[j].ran, actions[actions[j].of].ran} :
            run.before = prepared.revision /\ run.pins = prepared.pins
  /\ \A j \in Ran("validate") :
       LET commit == actions[actions[j].of].ran
       IN actions[j].ran.before = commit.after /\ actions[j].ran.pins = commit.pins

\* A program changes the drawing once, whatever previews were made of it and under
\* whatever keys they were committed, and a receipt on record is that commit's
\* (create_action_job, _materialize).
ProgramRunsOnce ==
  /\ \A j, k \in Ran("commit") : actions[j].program = actions[k].program => j = k
  /\ \A p \in Previews : ReceiptOf(p) \subseteq Ran("commit")
=============================================================================
