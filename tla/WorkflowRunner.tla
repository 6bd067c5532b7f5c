--------------------------- MODULE WorkflowRunner ---------------------------
(***************************************************************************)
(* DurableActionRunner.run_once and reconcile_restart (workflows/runner.py)*)
(* over the action table of phase9_repository.py.                          *)
(*                                                                         *)
(* run_once claims the oldest eligible action of any run; here it may      *)
(* claim any of them.  The same worker id claims for every handler, so a   *)
(* lease that another handler took over still looks like one's own.        *)
(***************************************************************************)
EXTENDS WorkflowState

\* Where a handler goes on when run_once has run an action, or found none.
Ran(t)  == [t EXCEPT !.at = IF t.then = "drain" THEN "claim" ELSE t.then, !.slot = NoRun]
None(t) == [t EXCEPT !.at = IF t.then = "drain" THEN "reconcile" ELSE t.then]

Back(h) == task' = [task EXCEPT ![h] = Ran(@)]

\* A WorkflowServiceError: a pass goes on with its next run, a client has an error.
Failed(h) ==
  task' = [task EXCEPT ![h] = IF h = "client" THEN Idle
                              ELSE [Idle EXCEPT !.at = "next", !.todo = task[h].todo]]

\* Any other exception ends the maintenance loop for good, and an Agent's session.
Raised(h) ==
  task' = [task EXCEPT ![h] = IF h = "loop" THEN [Idle EXCEPT !.at = "dead"] ELSE Idle]

\* The preview and the commit call run_once under a handler that wraps what it
\* raises; the scene actions and the drain do not.
Escapes(h) ==
  LET t == task[h] IN
  IF t.then = "commitBack" \/ (t.then = "readBack" /\ ReadsOf[t.run][t.read] = "preview")
  THEN Failed(h) ELSE Raised(h)

\* Mutant: an expired lease is taken over whatever the action does.
EligibleAnyEffect(x) ==
  /\ run[x[1]] = "running"
  /\ \/ act[x] = "pending"
     \/ x \in lapsed /\ act[x] \in {"claimed", "started"}

\* claim_action: pending, or with an expired lease and not a started write.
Eligible(x) ==
  /\ run[x[1]] = "running"
  /\ \/ act[x] = "pending"
     \/ x \in lapsed /\ act[x] = "claimed"
     \/ x \in lapsed /\ act[x] = "started" /\ ~IsWrite(x)

Claim(h) ==
  /\ At(h, "claim")
  /\ \/ \E x \in Slots :
          /\ Eligible(x)
          /\ act' = [act EXCEPT ![x] = "claimed"] /\ lapsed' = lapsed \ {x}
          /\ task' = [task EXCEPT ![h].at = "claimed", ![h].slot = x]
     \/ /\ \A x \in Slots : ~Eligible(x)
        /\ task' = [task EXCEPT ![h] = None(@)]
        /\ UNCHANGED <<act, lapsed>>
  /\ UNCHANGED <<run, stepped, review, commit, answered, revoked, worldVars, settings>>

\* Preflight, then mark_dispatch_started.  A read is sent to the device at once.
Begin(h) ==
  /\ At(h, "claimed")
  /\ LET x == task[h].slot IN
       IF revoked
       THEN act' = [act EXCEPT ![x] = "failed"] /\ Back(h)
       ELSE /\ act' = [act EXCEPT ![x] = "started"]
            /\ GoTo(h, IF IsWrite(x) THEN "started" ELSE "away")
  /\ UNCHANGED <<run, stepped, review, commit, answered, lapsed, revoked,
                 worldVars, settings>>

\* The commit's dispatch: the intent is created before the operator is asked,
\* or the commit is refused and the action is left to recovery.
Land(h) ==
  /\ At(h, "started")
  /\ LET x == task[h].slot  r == x[1] IN
       /\ sent' = [sent EXCEPT ![r] = @ + 1]
       /\ \/ /\ intent' = [intent EXCEPT ![r] = IF @ = "none" THEN "awaiting" ELSE @]
             /\ GoTo(h, "away")
             /\ UNCHANGED <<run, act, lapsed>>
          \/ /\ intent[r] = "none"
             /\ act' = [act EXCEPT ![x] = "outcome_unknown"]
             /\ run' = [run EXCEPT ![r] = "waiting_for_recovery"]
             /\ lapsed' = lapsed \ {x}
             /\ Back(h)
             /\ UNCHANGED intent
  /\ UNCHANGED <<stepped, review, commit, answered, revoked, job, settings>>

\* A read comes back.  If its action is no longer claimed or started -- its lease
\* was reclaimed, or another handler has finished it -- the result is a conflict,
\* unless it says what the row says.
ReadReturns(h) ==
  /\ At(h, "away") /\ ~IsWrite(task[h].slot)
  /\ LET x == task[h].slot IN
     \E word \in {"completed", "failed"} :
       \/ /\ act[x] \in {"claimed", "started"}
          /\ act' = [act EXCEPT ![x] = word] /\ lapsed' = lapsed \ {x}
          /\ Back(h)
       \/ /\ act[x] = word
          /\ Back(h) /\ UNCHANGED <<act, lapsed>>
       \/ /\ act[x] \notin {"claimed", "started"} /\ (act[x] # word \/ word = "failed")
          /\ Escapes(h) /\ UNCHANGED <<act, lapsed>>
  /\ UNCHANGED <<run, stepped, review, commit, answered, revoked, worldVars, settings>>

\* The commit comes back; a pass may have completed the action from the intent.
CommitReturns(h) ==
  /\ At(h, "away") /\ IsWrite(task[h].slot)
  /\ LET x == task[h].slot IN
       IF act[x] = "started"
       THEN act' = [act EXCEPT ![x] = "completed"] /\ lapsed' = lapsed \ {x}
       ELSE UNCHANGED <<act, lapsed>>
  /\ Back(h)
  /\ UNCHANGED <<run, stepped, review, commit, answered, revoked, worldVars, settings>>

\* A claimed or started action's lease of 30 seconds runs out.
Lapse(x) ==
  /\ Quiet /\ act[x] \in {"claimed", "started"}
  /\ x \notin lapsed /\ lapsed' = lapsed \cup {x}
  /\ UNCHANGED <<run, stepped, review, commit, answered, act, revoked, worldVars, procVars>>

\* reclaim_expired_actions.
Reclaimed(x) == x \in lapsed /\ (act[x] = "claimed" \/ (act[x] = "started" /\ ~IsWrite(x)))

\* Mutant: only a commit known to be lost is looked up.
EvidentIfLost(x) == IsWrite(x) /\ act[x] = "outcome_unknown" /\ intent[x[1]] # "none"

\* reconcile: a started commit whose intent exists is completed from it.
Evident(x) == IsWrite(x) /\ act[x] \in {"started", "outcome_unknown"} /\ intent[x[1]] # "none"

\* reconcile_restart of the runner, then the list of runs the pass will resume.
\* Each of its transactions is repeated by the next pass.
Reconcile(h) ==
  /\ At(h, "reconcile")
  /\ act' = [x \in Slots |-> CASE Reclaimed(x) -> "pending"
                               [] Evident(x)   -> "completed"
                               [] OTHER        -> act[x]]
  /\ lapsed' = {x \in lapsed : ~Reclaimed(x) /\ ~Evident(x)}
  /\ task' = [task EXCEPT ![h] = [Idle EXCEPT !.at = "next",
                !.todo = {<<r, run[r]>> : r \in {q \in Runs : run[q] \notin RunOver \cup {"absent"}}}]]
  /\ UNCHANGED <<run, stepped, review, commit, answered, revoked, worldVars, settings>>
=============================================================================
