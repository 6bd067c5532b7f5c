-------------------------- MODULE WorkflowService ---------------------------
(***************************************************************************)
(* WorkflowService (workflows/service.py): what clients ask for, and how a *)
(* pass -- the maintenance loop's, an Agent connection's or the one at     *)
(* startup -- resumes every run that is not over.                          *)
(*                                                                         *)
(* A handler carries the state its run had when it was read (seen); steps, *)
(* actions and most states are read again when they are needed.  Waits are *)
(* left out but for the user's answer.                                     *)
(***************************************************************************)
EXTENDS WorkflowRunner

Set(r, word) == run' = [run EXCEPT ![r] = word]

\* The handler is through with this run.
Over(h) ==
  task' = [task EXCEPT ![h] = IF h = "client" THEN Idle
                              ELSE [Idle EXCEPT !.at = "next", !.todo = task[h].todo]]

\* Back in whoever called: _resume_write_run, its tail, or the handler itself.
Return(h) ==
  CASE task[h].leg = "first" -> GoTo(h, "after")
    [] task[h].leg = "tail"  -> GoTo(h, "afterTail")
    [] OTHER                 -> Over(h)

Enter(h, r, seen, phase, leg) ==
  task' = [task EXCEPT ![h].at = phase, ![h].run = r, ![h].seen = seen, ![h].leg = leg]

Leg(r) == IF r \in Writes THEN "first" ELSE "last"

-----------------------------------------------------------------------------
(* Client calls. *)

\* start; the same call again resumes the run it created.
Start(r) ==
  /\ serving /\ Quiet /\ task["client"].at = "idle" /\ ~revoked
  /\ r \in cast.runs /\ run[r] \notin RunOver
  /\ run' = [run EXCEPT ![r] = IF @ = "absent" THEN "running" ELSE @]
  /\ Enter("client", r, run'[r], "resume", Leg(r))
  /\ UNCHANGED <<stepped, review, commit, answered, act, lapsed, revoked, worldVars, settings>>

\* control submit_input: the wait is resolved; the same call again goes on from there.
Submit(r) ==
  /\ serving /\ Quiet /\ task["client"].at = "idle" /\ ~revoked
  /\ \/ run[r] = "waiting_for_user" /\ review[r] = "waiting"
     \/ r \in answered /\ run[r] \in {"waiting_for_user", "running"}
  /\ answered' = answered \cup {r}
  /\ Enter("client", r, run[r], "review", "last")
  /\ UNCHANGED <<run, stepped, review, commit, act, lapsed, revoked, worldVars, settings>>

\* Mutant: only a dispatch whose outcome is known to be lost is a started write.
WriteStartedIfLost(r) == r \in Writes /\ act[<<r, "commit">>] = "outcome_unknown"

WriteStarted(r) == r \in Writes /\ act[<<r, "commit">>] \in {"started", "outcome_unknown"}

\* cancel_run.
Cancel(r) ==
  /\ serving /\ Quiet /\ ~revoked
  /\ run[r] \notin RunOver \cup {"absent"}
  /\ IF WriteStarted(r)
     THEN Set(r, "waiting_for_recovery")
     ELSE run[r] \notin {"waiting_for_job", "waiting_for_recovery"} /\ Set(r, "cancelled")
  /\ act' = Undispatched(r)
  /\ UNCHANGED <<stepped, review, commit, answered, lapsed, revoked, worldVars, procVars>>

\* control, once the skill is withdrawn.
ControlRevoked(r) ==
  /\ serving /\ Quiet /\ revoked
  /\ run[r] # "absent" /\ NeedsAttention(r)
  /\ UNCHANGED <<stepped, review, commit, answered, lapsed, revoked, worldVars, procVars>>

-----------------------------------------------------------------------------
(* Passes. *)

\* maintenance_once, in the loop or when an Agent connects.
BeginPass(h) ==
  /\ h \in cast.handlers \ {"client"} /\ serving /\ Quiet /\ task[h].at = "idle"
  /\ task' = [task EXCEPT ![h] = [Idle EXCEPT !.at = "claim"]]
  /\ UNCHANGED <<dbVars, worldVars, settings>>

\* The next run of the pass, in the state the list showed.
NextRun(h) ==
  /\ At(h, "next")
  /\ \E item \in task[h].todo :
       LET left == [task[h] EXCEPT !.todo = @ \ {item}] IN
       IF revoked
       THEN NeedsAttention(item[1]) /\ task' = [task EXCEPT ![h] = left]
       ELSE /\ task' = [task EXCEPT ![h] =
                         [left EXCEPT !.at = "resume", !.run = item[1], !.seen = item[2],
                                      !.leg = Leg(item[1])]]
            /\ UNCHANGED <<run, act>>
  /\ UNCHANGED <<stepped, review, commit, answered, lapsed, revoked, worldVars, settings>>

EndPass(h) ==
  /\ At(h, "next") /\ task[h].todo = {}
  /\ task' = [task EXCEPT ![h] = Idle]
  /\ serving' = TRUE
  /\ UNCHANGED <<dbVars, worldVars, cast, restarts>>

\* The user has not answered: the wait is set up again, against the version seen.
AwaitsUser(r, seen) ==
  /\ r \in Writes \cap Reviewed
  /\ review[r] = "waiting" /\ seen = "waiting_for_user" /\ r \notin answered

Read(h, i) == task' = [task EXCEPT ![h].at = "read", ![h].read = i]

\* _resume_run and the branches of _resume_write_run and of the audits.
Resume(h) ==
  /\ At(h, "resume")
  /\ LET r == task[h].run  seen == task[h].seen IN
     CASE r \in Writes /\ commit[r] = "succeeded" ->
            task' = [task EXCEPT ![h].at = "finish", ![h].leg = "last"]
       [] AwaitsUser(r, seen) ->
            IF run[r] = seen THEN Over(h) ELSE Raised(h)
       [] /\ r \in Writes \cap Reviewed /\ review[r] # "pending"
          /\ seen \in {"waiting_for_user", "running"} /\ ~AwaitsUser(r, seen) ->
            GoTo(h, "review")
       [] r \in Writes /\ review[r] = "pending" /\ seen = "running" ->
            IF commit[r] # "pending" THEN GoTo(h, "commit") ELSE Read(h, stepped[r] + 1)
       [] r \notin Writes /\ seen \in {"running", "waiting_for_user"} ->
            IF review[r] = "succeeded" THEN GoTo(h, "close") ELSE Read(h, stepped[r] + 1)
       [] OTHER -> IF r \in Writes THEN GoTo(h, "after") ELSE Over(h)
  /\ UNCHANGED <<dbVars, worldVars, settings>>

\* _advance_write_preview, _advance_scene_cleanup_audit: the next read action.
NextRead(h) ==
  /\ At(h, "read")
  /\ LET r == task[h].run IN
     IF task[h].read > Len(ReadsOf[r])
     THEN GoTo(h, "report") /\ UNCHANGED act
     ELSE LET x == <<r, ReadsOf[r][task[h].read]>> IN
          /\ act' = [act EXCEPT ![x] = IF @ = "none" THEN "pending" ELSE @]
          /\ task' = [task EXCEPT ![h].at = "claim", ![h].then = "readBack"]
  /\ UNCHANGED <<run, stepped, review, commit, answered, lapsed, revoked, worldVars, settings>>

\* After run_once, whatever it ran, the state of one's own action decides.
ReadBack(h) ==
  /\ At(h, "readBack")
  /\ LET r == task[h].run  i == task[h].read  a == ReadsOf[r][i]  word == act[<<r, a>>] IN
     CASE word = "failed" ->
            NeedsAttention(r) /\ Return(h) /\ UNCHANGED stepped
       [] word = "completed" /\ a # "preview" ->
            /\ stepped' = [stepped EXCEPT ![r] = IF @ < i THEN i ELSE @]
            /\ Read(h, i + 1) /\ UNCHANGED <<run, act>>
       [] word = "completed" /\ a = "preview" ->
            GoTo(h, IF r \in Reviewed THEN "report" ELSE "commit") /\ UNCHANGED <<run, act, stepped>>
       [] OTHER ->
            Return(h) /\ UNCHANGED <<run, act, stepped>>
  /\ UNCHANGED <<review, commit, answered, lapsed, revoked, worldVars, settings>>

\* The preview or the report waits for the user, in two transactions.
Report(h) ==
  /\ At(h, "report")
  /\ LET r == task[h].run IN
     CASE review[r] = "pending" ->
            review' = [review EXCEPT ![r] = "waiting"] /\ UNCHANGED <<run, task>>
       [] review[r] = "waiting" ->
            /\ Set(r, IF run[r] = "running" THEN "waiting_for_user" ELSE run[r])
            /\ Return(h) /\ UNCHANGED review
       [] review[r] = "succeeded" ->
            Failed(h) /\ UNCHANGED <<run, review>>
  /\ UNCHANGED <<stepped, commit, answered, act, lapsed, revoked, worldVars, settings>>

\* _request_auto_dimension_commit, _finish_cleanup_audit: the review is over.
Review(h) ==
  /\ At(h, "review")
  /\ LET r == task[h].run IN
     CASE review[r] = "waiting" ->
            review' = [review EXCEPT ![r] = "succeeded"] /\ UNCHANGED <<run, task>>
       [] review[r] = "succeeded" /\ run[r] = "waiting_for_user" ->
            Set(r, "running") /\ UNCHANGED <<review, task>>
       [] review[r] = "succeeded" /\ run[r] = "running" ->
            GoTo(h, IF r \in Writes THEN "commit" ELSE "close") /\ UNCHANGED <<run, review>>
       [] review[r] = "succeeded" /\ run[r] \notin {"waiting_for_user", "running"} ->
            Return(h) /\ UNCHANGED <<run, review>>
  /\ UNCHANGED <<stepped, commit, answered, act, lapsed, revoked, worldVars, settings>>

\* The end of an audit.
Close(h) ==
  /\ At(h, "close")
  /\ LET r == task[h].run IN
     CASE run[r] = "waiting_for_user" -> Set(r, "running") /\ UNCHANGED task
       [] run[r] = "running"          -> Set(r, "succeeded") /\ Over(h)
       [] OTHER                       -> UNCHANGED run /\ Over(h)
  /\ UNCHANGED <<stepped, review, commit, answered, act, lapsed, revoked, worldVars, settings>>

-----------------------------------------------------------------------------
(* The commit. *)

\* _request_commit, up to run_once: the step leaves pending, the action is there.
Commit(h) ==
  /\ At(h, "commit")
  /\ LET r == task[h].run  x == <<r, "commit">> IN
     CASE revoked \/ commit[r] = "succeeded" ->
            Failed(h) /\ UNCHANGED <<commit, act>>
       [] ~revoked /\ commit[r] = "pending" ->
            commit' = [commit EXCEPT ![r] = "running"] /\ UNCHANGED <<act, task>>
       [] ~revoked /\ commit[r] = "running" ->
            /\ act' = [act EXCEPT ![x] = IF @ = "none" THEN "pending" ELSE @]
            /\ task' = [task EXCEPT ![h].at = "claim", ![h].then = "commitBack"]
            /\ UNCHANGED commit
       [] ~revoked /\ commit[r] = "waiting" ->
            GoTo(h, "asked") /\ UNCHANGED <<commit, act>>
  /\ UNCHANGED <<run, stepped, review, answered, lapsed, revoked, worldVars, settings>>

\* The step takes the intent, unless another handler was here before.
CommitBack(h) ==
  /\ At(h, "commitBack")
  /\ LET r == task[h].run IN
     CASE act[<<r, "commit">>] # "completed" ->
            Return(h) /\ UNCHANGED commit
       [] act[<<r, "commit">>] = "completed" /\ commit[r] = "running" ->
            commit' = [commit EXCEPT ![r] = "waiting"] /\ GoTo(h, "asked")
       [] act[<<r, "commit">>] = "completed" /\ commit[r] # "running" ->
            Raised(h) /\ UNCHANGED commit
  /\ UNCHANGED <<run, stepped, review, answered, act, lapsed, revoked, worldVars, settings>>

\* The operator is asked; a run under recovery takes the intent's state instead.
Asked(h) ==
  /\ At(h, "asked")
  /\ LET r == task[h].run IN
     CASE run[r] = "waiting_for_recovery" -> GoTo(h, "status") /\ UNCHANGED run
       [] run[r] = "running" -> Set(r, "waiting_for_trusted_approval") /\ Return(h)
       [] OTHER -> Return(h) /\ UNCHANGED run
  /\ UNCHANGED <<stepped, review, commit, answered, act, lapsed, revoked, worldVars, settings>>

\* The end of _resume_write_run: a commit that recovery has completed is taken up.
After(h) ==
  /\ At(h, "after")
  /\ LET r == task[h].run IN
     IF run[r] = "waiting_for_recovery" /\ act[<<r, "commit">>] = "completed"
     THEN task' = [task EXCEPT ![h].at = "commit", ![h].leg = "tail"]
     ELSE GoTo(h, "afterTail")
  /\ UNCHANGED <<dbVars, worldVars, settings>>

\* A run that was waiting when the pass read it is compared with its intent and job.
AfterTail(h) ==
  /\ At(h, "afterTail")
  /\ IF task[h].seen \in RunWaits /\ run[task[h].run] \in RunWaits
     THEN task' = [task EXCEPT ![h].at = "status", ![h].leg = "last"]
     ELSE Over(h)
  /\ UNCHANGED <<dbVars, worldVars, settings>>

\* Mutant: a released intent is taken for a job that is done.
CommitStatusByIntent(r) ==
  CASE intent[r] = "awaiting" -> "awaiting"
    [] intent[r] = "released" -> "succeeded"
    [] OTHER -> "over"

\* _phase9_commit_status.
CommitStatus(r) ==
  CASE intent[r] = "awaiting" -> "awaiting"
    [] intent[r] = "released" /\ job[r] \in {"active", "unknown", "succeeded"} -> job[r]
    [] OTHER -> "over"

\* _reconcile_commit_status.
Status(h) ==
  /\ At(h, "status")
  /\ LET r == task[h].run  word == CommitStatus(r) IN
     CASE commit[r] \notin {"waiting", "succeeded"} ->
            Return(h) /\ UNCHANGED <<run, act, commit>>
       [] commit[r] \in {"waiting", "succeeded"} /\ word = "awaiting" ->
            /\ Set(r, IF run[r] = "waiting_for_recovery" THEN "waiting_for_trusted_approval" ELSE run[r])
            /\ Return(h) /\ UNCHANGED <<act, commit>>
       [] commit[r] \in {"waiting", "succeeded"} /\ word = "active" ->
            Set(r, "waiting_for_job") /\ Return(h) /\ UNCHANGED <<act, commit>>
       [] commit[r] \in {"waiting", "succeeded"} /\ word = "unknown" ->
            Set(r, "waiting_for_recovery") /\ Return(h) /\ UNCHANGED <<act, commit>>
       [] commit[r] \in {"waiting", "succeeded"} /\ word = "succeeded" ->
            commit' = [commit EXCEPT ![r] = "succeeded"] /\ GoTo(h, "finish") /\ UNCHANGED <<run, act>>
       [] commit[r] \in {"waiting", "succeeded"} /\ word = "over" ->
            NeedsAttention(r) /\ Return(h) /\ UNCHANGED commit
  /\ UNCHANGED <<stepped, review, answered, lapsed, revoked, worldVars, settings>>

\* _finish_write_after_commit, in two transactions.
Finish(h) ==
  /\ At(h, "finish")
  /\ LET r == task[h].run IN
     CASE run[r] \in RunWaits   -> Set(r, "running") /\ UNCHANGED task
       [] run[r] = "running"    -> Set(r, "succeeded") /\ Return(h)
       [] OTHER                 -> UNCHANGED run /\ Return(h)
  /\ UNCHANGED <<stepped, review, commit, answered, act, lapsed, revoked, worldVars, settings>>
=============================================================================
