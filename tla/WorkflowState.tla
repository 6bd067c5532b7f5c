--------------------------- MODULE WorkflowState ----------------------------
(***************************************************************************)
(* The durable state of Phase 9 workflows (phase9_repository.py, state.py) *)
(* and of the handlers that drive it (workflows/service.py, runner.py).    *)
(*                                                                         *)
(* A run walks through read actions -- scene actions and a preview -- and, *)
(* as its skill asks, a review by the user and a commit.  All handlers     *)
(* live in one asyncio process with one worker id.  No repository call     *)
(* suspends: a handler gives way only while an action it dispatched is     *)
(* away, and a crash falls between any two of its transactions, which are  *)
(* the steps of this model.                                                *)
(***************************************************************************)
EXTENDS Naturals, FiniteSets, Sequences

CONSTANTS
  Writes,      \* runs of skills with a commit step
  Reviewed,    \* runs of skills with a review step
  ReadsOf,     \* ReadsOf[r]: the read actions of run r, in order
  Handlers,    \* the maintenance loop, Agent connections, client calls
  NoRun,
  Casts,       \* bound: the runs started and the handlers at work in one behaviour
  MaxRestart   \* bound: crashes

Runs == Writes \cup Reviewed

ASSUME RunsAssumption ==
  /\ NoRun \notin Runs /\ MaxRestart \in Nat
  /\ DOMAIN ReadsOf = Runs
  /\ \A r \in Writes :
       Len(ReadsOf[r]) > 0 /\ ReadsOf[r][Len(ReadsOf[r])] = "preview"

ASSUME HandlersAssumption ==
  /\ "loop" \in Handlers /\ Handlers \subseteq {"loop", "agent", "client"}
  /\ Casts \subseteq [runs : SUBSET Runs, handlers : SUBSET Handlers]

Reads(r) == {ReadsOf[r][i] : i \in DOMAIN ReadsOf[r]}
Slots    == UNION { {r} \X (Reads(r) \cup IF r \in Writes THEN {"commit"} ELSE {}) : r \in Runs }
IsWrite(x) == x[2] = "commit"

VARIABLES
  \* The Gateway's database.
  run,       \* run[r]
  stepped,   \* stepped[r]: scene actions whose step is done
  review,    \* review[r]: the review step
  commit,    \* commit[r]: the commit step
  answered,  \* runs whose user_input wait was resolved by the user
  act,       \* act[x]: the action
  lapsed,    \* actions whose lease has expired
  revoked,   \* the skill is withdrawn or security_revoked
  \* Phase 7, as far as a workflow sees it.
  intent,    \* intent[r]: the commit intent of run r
  job,       \* job[r]: its job
  sent,      \* sent[r]: times the commit of r was dispatched
  \* The process.
  task,      \* task[h]: what handler h is doing
  serving,   \* initialize is over
  cast,
  restarts

dbVars    == <<run, stepped, review, commit, answered, act, lapsed, revoked>>
worldVars == <<intent, job, sent>>
settings  == <<serving, cast, restarts>>
procVars  == <<task, settings>>
vars      == <<dbVars, worldVars, procVars>>

RunWaits == {"waiting_for_trusted_approval", "waiting_for_job", "waiting_for_recovery"}
RunOver  == {"succeeded", "cancelled", "needs_attention"}
RunState == {"absent", "running", "waiting_for_user"} \cup RunWaits \cup RunOver

ActionState == {"none", "pending", "claimed", "started", "completed", "failed",
                "outcome_unknown", "cancelled"}

Phase == {"idle", "away", "dead",
          "claim", "claimed", "started", "reconcile", "next", "resume",
          "read", "readBack", "report", "review", "close",
          "commit", "commitBack", "asked", "after", "afterTail", "status", "finish"}

Task == [at   : Phase,
         run  : Runs \cup {NoRun},
         seen : RunState,                           \* run state it was called with
         read : Nat,                                \* read action it is at
         leg  : {"first", "tail", "last"},          \* who called _request_commit or the status
         then : {"drain", "readBack", "commitBack"},\* who called run_once
         slot : Slots \cup {NoRun},                 \* action it has claimed
         todo : SUBSET (Runs \X RunState)]          \* runs left in this pass

Idle == [at |-> "idle", run |-> NoRun, seen |-> "absent", read |-> 0, leg |-> "last", then |-> "drain",
         slot |-> NoRun, todo |-> {}]

TypeOK ==
  /\ run \in [Runs -> RunState]
  /\ stepped \in [Runs -> Nat]
  /\ review \in [Runs -> {"pending", "waiting", "succeeded"}]
  /\ commit \in [Runs -> {"pending", "running", "waiting", "succeeded"}]
  /\ answered \subseteq Runs
  /\ act \in [Slots -> ActionState]
  /\ lapsed \subseteq Slots
  /\ {revoked, serving} \subseteq BOOLEAN
  /\ intent \in [Runs -> {"none", "awaiting", "released", "closed"}]
  /\ job \in [Runs -> {"none", "active", "unknown", "succeeded", "failed"}]
  /\ sent \in [Runs -> Nat]
  /\ task \in [Handlers -> Task]
  /\ cast \in [runs : SUBSET Runs, handlers : SUBSET Handlers]
  /\ restarts \in 0..MaxRestart

Init ==
  /\ run = [r \in Runs |-> "absent"]
  /\ stepped = [r \in Runs |-> 0]
  /\ review = [r \in Runs |-> "pending"] /\ commit = [r \in Runs |-> "pending"]
  /\ answered = {}
  /\ act = [x \in Slots |-> "none"] /\ lapsed = {}
  /\ revoked = FALSE
  /\ intent = [r \in Runs |-> "none"] /\ job = [r \in Runs |-> "none"]
  /\ sent = [r \in Runs |-> 0]
  /\ task = [h \in Handlers |-> Idle] /\ serving = TRUE
  /\ cast \in Casts
  /\ restarts = 0

-----------------------------------------------------------------------------

\* One event loop: a handler that is not suspended keeps the others from running.
Suspended(h) == task[h].at \in {"idle", "away", "dead"}
Turn(h)      == \A g \in Handlers \ {h} : Suspended(g)
Quiet        == \A h \in Handlers : Suspended(h)

At(h, phase) == task[h].at = phase /\ Turn(h)
GoTo(h, phase) == task' = [task EXCEPT ![h].at = phase]

\* What is not dispatched yet is cancelled with its run.
Undispatched(r) ==
  [x \in Slots |-> IF x[1] = r /\ act[x] \in {"pending", "claimed"} THEN "cancelled" ELSE act[x]]

\* Mutant: the run takes the catalog's word for its state.
NeedsAttentionAsRevoked(r) ==
  IF run[r] \in RunOver \cup {"absent"} THEN UNCHANGED <<run, act>>
  ELSE run' = [run EXCEPT ![r] = "security_revoked"] /\ act' = Undispatched(r)

\* security_revoke_run and mark_run_needs_attention.
NeedsAttention(r) ==
  IF run[r] \in RunOver \cup {"absent"} THEN UNCHANGED <<run, act>>
  ELSE run' = [run EXCEPT ![r] = "needs_attention"] /\ act' = Undispatched(r)
=============================================================================
