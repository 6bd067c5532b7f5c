--------------------------- MODULE WorkflowProofs ---------------------------
(***************************************************************************)
(* What Phase 9 workflows guarantee for every set of runs and handlers and *)
(* for any number of crashes: a commit is dispatched at most once, a run   *)
(* reports success only of a job that succeeded, and a write whose         *)
(* dispatch is under way or lost is not cancelled.                         *)
(***************************************************************************)
EXTENDS Workflow, TLAPS

-----------------------------------------------------------------------------
(* The inductive invariant. *)

\* One event loop: at most one handler is not suspended.
Alone ==
  \A g, h \in Handlers : ~Suspended(g) /\ ~Suspended(h) => g = h

\* A handler that works on a run, or will when run_once is through, has one.
Working == {"resume", "read", "readBack", "report", "review", "close", "commit",
            "commitBack", "asked", "after", "afterTail", "status", "finish"}

HasRun(t) ==
  \/ t.at \in Working
  \/ t.at \in {"claim", "claimed", "started", "away"} /\ t.then # "drain"

RunInv == \A h \in Handlers : HasRun(task[h]) => task[h].run \in Runs

\* A review is taken up or answered only once it has been asked for.
ReviewInv ==
  /\ \A r \in answered : review[r] # "pending"
  /\ \A h \in Handlers : task[h].at = "review" => review[task[h].run] # "pending"

\* Between claim_action and the dispatch the claim is the handler's own.
ClaimInv ==
  \A h \in Handlers :
    LET x == task[h].slot IN
    /\ task[h].at = "claimed" => x \in Slots /\ act[x] = "claimed"
    /\ task[h].at = "started" =>
         x \in Slots /\ IsWrite(x) /\ act[x] = "started" /\ (x[1] \in Writes => sent[x[1]] = 0)

\* A commit that is yet to be dispatched has not been.
SentInv ==
  \A r \in Writes :
    act[<<r, "commit">>] \in {"none", "pending", "claimed"} => sent[r] = 0

\* A job exists only for a released intent, and a commit step is done only with it.
JobInv ==
  /\ \A r \in Runs : intent[r] \in {"none", "awaiting"} => job[r] = "none"
  /\ \A r \in Writes : commit[r] = "succeeded" => job[r] = "succeeded"

\* A run is finished only behind its job, and only an audit is closed.
FinishInv ==
  \A h \in Handlers :
    /\ task[h].at = "finish" /\ task[h].run \in Writes => job[task[h].run] = "succeeded"
    /\ task[h].at = "close" => task[h].run \notin Writes

IInv ==
  /\ TypeOK /\ Alone /\ RunInv /\ ReviewInv /\ ClaimInv /\ SentInv /\ JobInv /\ FinishInv
  /\ NeverRedispatched /\ SucceededMeansCommitted

-----------------------------------------------------------------------------
(* What the handlers' steps do to their own tasks. *)

Handling(h) == Step(h) \/ ReadReturns(h) \/ CommitReturns(h) \/ BeginPass(h)

\* The handler h has its turn and goes on at t.
Moves(h, t) ==
  /\ t \in Task
  /\ task' = [task EXCEPT ![h] = t]

LEMMA MovesTask ==
  ASSUME TypeOK, NEW h \in Handlers, NEW t, Moves(h, t)
  PROVE  /\ task' \in [Handlers -> Task]
         /\ \A g \in Handlers : task'[g] = IF g = h THEN t ELSE task[g]
BY DEF Moves, TypeOK

\* The ways a step leaves a run: to whoever called, out of the pass, by a
\* refusal or by an exception (Return, Over, Failed, Raised, Escapes).
Left(t) == t.at \in {"after", "afterTail", "idle", "next", "dead"}

LEMMA IdleTask == Idle \in Task
BY DEF Idle, Task, Phase, RunState, RunWaits, RunOver

LEMMA GoesTo ==
  ASSUME TypeOK, NEW h \in Handlers, NEW phase \in Phase, GoTo(h, phase)
  PROVE  Moves(h, [task[h] EXCEPT !.at = phase])
BY DEF GoTo, Moves, TypeOK, Task

LEMMA Leaves ==
  ASSUME TypeOK, NEW h \in Handlers,
         Return(h) \/ Over(h) \/ Failed(h) \/ Raised(h) \/ Escapes(h)
  PROVE  \E t \in Task : Moves(h, t) /\ Left(t) /\ (t.at \in Working => t.run = task[h].run)
<1>1. task[h] \in Task BY DEF TypeOK
<1>2. ASSUME GoTo(h, "after") \/ GoTo(h, "afterTail")
      PROVE  \E t \in Task : Moves(h, t) /\ Left(t) /\ t.run = task[h].run
  <2>1. PICK phase \in {"after", "afterTail"} : GoTo(h, phase) BY <1>2
  <2> DEFINE t == [task[h] EXCEPT !.at = phase]
  <2>2. t \in Task /\ t.at = phase /\ t.run = task[h].run BY <1>1 DEF Task, Phase
  <2>3. Moves(h, t) BY <2>1, GoesTo DEF Phase
  <2> QED BY <2>2, <2>3 DEF Left
<1>3. ASSUME NEW t \in {Idle, [Idle EXCEPT !.at = "next", !.todo = task[h].todo],
                        [Idle EXCEPT !.at = "dead"]},
             task' = [task EXCEPT ![h] = t]
      PROVE  \E u \in Task : Moves(h, u) /\ Left(u) /\ u.at \notin Working
  <2>1. t \in Task BY <1>1, IdleTask DEF Task, Phase
  <2>2. Idle.at = "idle" BY DEF Idle
  <2>3. t.at \in {"idle", "next", "dead"} BY <2>2, IdleTask DEF Task
  <2> QED BY <1>3, <2>1, <2>3 DEF Moves, Left, Working
<1>4. CASE Over(h) \/ Failed(h) \/ Raised(h) \/ Escapes(h)
  <2>1. PICK t \in {Idle, [Idle EXCEPT !.at = "next", !.todo = task[h].todo],
                    [Idle EXCEPT !.at = "dead"]} : task' = [task EXCEPT ![h] = t]
    BY <1>4 DEF Over, Failed, Raised, Escapes
  <2> QED BY <1>3, <2>1
<1>5. CASE Return(h)
  BY <1>2, <1>4, <1>5 DEF Return
<1> QED BY <1>4, <1>5

\* Where the steps of a handler lead: to a task of the same kind, always with a
\* run where one is worked on, and to the phases that matter only as named here.
Led(h) ==
  LET t == task'[h] IN
  /\ task' \in [Handlers -> Task]
  /\ \A g \in Handlers \ {h} : task'[g] = task[g]
  /\ HasRun(t) => t.run \in Runs
  /\ t.at = "claimed" => Claim(h)
  /\ t.at = "started" => Begin(h)
  /\ t.at = "review" => Resume(h) \/ (Review(h) /\ UNCHANGED task)
  /\ t.at = "close" => Resume(h) \/ Review(h) \/ (Close(h) /\ UNCHANGED task)
  /\ t.at = "finish" => Resume(h) \/ Status(h) \/ (Finish(h) /\ UNCHANGED task)

\* Phases that are not listed in Led.
Plain == Phase \ {"claimed", "started", "review", "close", "finish"}

LEMMA LeftLed ==
  ASSUME TypeOK, RunInv, NEW h \in Handlers, HasRun(task[h]),
         Return(h) \/ Over(h) \/ Failed(h) \/ Raised(h) \/ Escapes(h)
  PROVE  Led(h)
<1>1. PICK t \in Task : Moves(h, t) /\ Left(t) /\ (t.at \in Working => t.run = task[h].run)
  BY Leaves
<1>2. task'[h] = t /\ task' \in [Handlers -> Task] /\ \A g \in Handlers \ {h} : task'[g] = task[g]
  BY <1>1, MovesTask
<1> QED BY <1>1, <1>2 DEF Led, Left, HasRun, RunInv

LEMMA PlainLed ==
  ASSUME TypeOK, RunInv, NEW h \in Handlers, NEW t \in Task, task' = [task EXCEPT ![h] = t],
         t.at \in Plain, HasRun(t) => t.run \in Runs
  PROVE  Led(h)
<1>1. task'[h] = t /\ task' \in [Handlers -> Task] /\ \A g \in Handlers \ {h} : task'[g] = task[g]
  BY MovesTask DEF Moves
<1> QED BY <1>1 DEF Led, Plain

\* A change of the phase alone.
LEMMA PhaseLed ==
  ASSUME TypeOK, RunInv, NEW h \in Handlers, NEW phase \in Plain, GoTo(h, phase), HasRun(task[h])
  PROVE  Led(h)
<1> DEFINE t == [task[h] EXCEPT !.at = phase]
<1>1. task[h] \in Task BY DEF TypeOK
<1>2. t \in Task /\ t.at = phase /\ t.run = task[h].run BY <1>1 DEF Plain, Task
<1>3. task' = [task EXCEPT ![h] = t] BY DEF GoTo, TypeOK
<1> HIDE DEF t
<1> QED BY <1>2, <1>3, PlainLed DEF RunInv

LEMMA SameLed ==
  ASSUME TypeOK, RunInv, NEW h \in Handlers, UNCHANGED task,
         \/ task[h].at \in Plain
         \/ task[h].at = "review" /\ Review(h)
         \/ task[h].at = "close" /\ Close(h)
         \/ task[h].at = "finish" /\ Finish(h)
  PROVE  Led(h)
BY DEF Led, Plain, RunInv, TypeOK

\* run_once has run an action (Ran).
LEMMA BackLed ==
  ASSUME TypeOK, RunInv, NEW h \in Handlers, task[h].at \in {"claimed", "started", "away"}, Back(h)
  PROVE  Led(h)
<1> DEFINE t == Ran(task[h])
<1>1. task[h] \in Task BY DEF TypeOK
<1>2. t \in Task BY <1>1 DEF Ran, Task, Phase
<1>3. /\ t.at = IF task[h].then = "drain" THEN "claim" ELSE task[h].then
      /\ t.run = task[h].run /\ t.then = task[h].then
  BY <1>1 DEF Ran, Task
<1>4. task[h].then \in {"drain", "readBack", "commitBack"} BY <1>1 DEF Task
<1>5. HasRun(t) => t.run \in Runs
  BY <1>3, <1>4 DEF HasRun, Working, RunInv
<1>6. t.at \in Plain BY <1>3, <1>4 DEF Plain, Phase
<1>7. task' = [task EXCEPT ![h] = t] BY DEF Back, TypeOK
<1> HIDE DEF t
<1> QED BY <1>2, <1>5, <1>6, <1>7, PlainLed

LEMMA RunnerLed ==
  ASSUME TypeOK, RunInv, ReviewInv, NEW h \in Handlers,
         \/ Claim(h) \/ Begin(h) \/ Land(h) \/ Reconcile(h)
         \/ ReadReturns(h) \/ CommitReturns(h) \/ BeginPass(h)
  PROVE  Led(h)
<1>0. task[h] \in Task BY DEF TypeOK
<1>1. CASE Claim(h)
  <2>1. task[h].at = "claim" BY <1>1 DEF Claim, At
  <2>2. ASSUME NEW x \in Slots, task' = [task EXCEPT ![h].at = "claimed", ![h].slot = x]
        PROVE  Led(h)
    <3> DEFINE t == [task[h] EXCEPT !.at = "claimed", !.slot = x]
    <3>1. t \in Task /\ t.at = "claimed" /\ t.run = task[h].run /\ t.then = task[h].then
      BY <1>0 DEF Task, Phase
    <3>2. task' = [task EXCEPT ![h] = t] BY <2>2 DEF TypeOK
    <3>3. HasRun(t) => t.run \in Runs BY <2>1, <3>1 DEF HasRun, Working, RunInv
    <3> HIDE DEF t
    <3>4. task'[h] = t /\ task' \in [Handlers -> Task] /\ \A g \in Handlers \ {h} : task'[g] = task[g]
      BY <3>1, <3>2, MovesTask DEF Moves
    <3> QED BY <1>1, <3>1, <3>3, <3>4 DEF Led
  <2>3. ASSUME task' = [task EXCEPT ![h] = None(@)]
        PROVE  Led(h)
    <3> DEFINE t == None(task[h])
    <3>1. task[h].then \in {"drain", "readBack", "commitBack"} BY <1>0 DEF Task
    <3>2. t \in Task BY <1>0 DEF None, Task, Phase
    <3>3. /\ t.at = IF task[h].then = "drain" THEN "reconcile" ELSE task[h].then
          /\ t.run = task[h].run
      BY <1>0 DEF None, Task
    <3>4. t.at \in Plain BY <3>1, <3>3 DEF Plain, Phase
    <3>5. HasRun(t) => t.run \in Runs
      BY <2>1, <3>1, <3>3 DEF HasRun, Working, RunInv
    <3>6. task' = [task EXCEPT ![h] = t] BY <2>3 DEF TypeOK
    <3> HIDE DEF t
    <3> QED BY <3>2, <3>4, <3>5, <3>6, PlainLed
  <2> QED BY <1>1, <2>2, <2>3 DEF Claim
<1>2. CASE Begin(h)
  <2>1. task[h].at = "claimed" BY <1>2 DEF Begin, At
  <2>2. ASSUME NEW phase \in {"started", "away"}, GoTo(h, phase) PROVE Led(h)
    <3> DEFINE t == [task[h] EXCEPT !.at = phase]
    <3>1. t \in Task /\ t.at = phase /\ t.run = task[h].run /\ t.then = task[h].then
      BY <1>0 DEF Task, Phase
    <3>2. HasRun(t) => t.run \in Runs BY <2>1, <3>1 DEF HasRun, Working, RunInv
    <3>3. task' = [task EXCEPT ![h] = t] BY <2>2 DEF GoTo, TypeOK
    <3> HIDE DEF t
    <3>4. task'[h] = t /\ task' \in [Handlers -> Task] /\ \A g \in Handlers \ {h} : task'[g] = task[g]
      BY <3>1, <3>3, MovesTask DEF Moves
    <3> QED BY <1>2, <3>1, <3>2, <3>4 DEF Led
  <2> QED BY <1>2, <2>1, <2>2, BackLed DEF Begin
<1>3. CASE Land(h)
  <2>1. task[h].at = "started" BY <1>3 DEF Land, At
  <2>2. ASSUME GoTo(h, "away") PROVE Led(h)
    <3> DEFINE t == [task[h] EXCEPT !.at = "away"]
    <3>1. t \in Task /\ t.at = "away" /\ t.run = task[h].run /\ t.then = task[h].then
      BY <1>0 DEF Task, Phase
    <3>2. HasRun(t) => t.run \in Runs BY <2>1, <3>1 DEF HasRun, Working, RunInv
    <3>3. task' = [task EXCEPT ![h] = t] BY <2>2 DEF GoTo, TypeOK
    <3>4. t.at \in Plain BY <3>1 DEF Plain, Phase
    <3> HIDE DEF t
    <3> QED BY <3>1, <3>2, <3>3, <3>4, PlainLed
  <2> QED BY <1>3, <2>1, <2>2, BackLed DEF Land
<1>4. CASE Reconcile(h)
  <2> DEFINE todo == {<<r, run[r]>> : r \in {q \in Runs : run[q] \notin RunOver \cup {"absent"}}}
             t == [Idle EXCEPT !.at = "next", !.todo = todo]
  <2>1. todo \in SUBSET (Runs \X RunState) BY DEF TypeOK
  <2>2. task' = [task EXCEPT ![h] = t] BY <1>4 DEF Reconcile
  <2> HIDE DEF todo
  <2>3. t \in Task /\ t.at = "next" BY <2>1, IdleTask DEF Task, Phase
  <2>4. t.at \in Plain /\ ~HasRun(t) BY <2>3 DEF Plain, Phase, HasRun, Working
  <2> HIDE DEF t
  <2> QED BY <2>2, <2>3, <2>4, PlainLed
<1>5. CASE ReadReturns(h)
  <2>1. task[h].at = "away" BY <1>5 DEF ReadReturns, At
  <2>2. Back(h) \/ Escapes(h) BY <1>5 DEF ReadReturns
  <2>3. ASSUME Escapes(h) PROVE Led(h)
    <3>1. PICK t \in Task : Moves(h, t) /\ t.at \in {"idle", "next", "dead"}
      <4>1. PICK u \in {Idle, [Idle EXCEPT !.at = "next", !.todo = task[h].todo],
                        [Idle EXCEPT !.at = "dead"]} : task' = [task EXCEPT ![h] = u]
        BY <2>3 DEF Escapes, Failed, Raised
      <4>2. Idle.at = "idle" BY DEF Idle
      <4>3. u \in Task /\ u.at \in {"idle", "next", "dead"}
        BY <1>0, <4>2, IdleTask DEF Task, Phase
      <4> QED BY <4>1, <4>3 DEF Moves
    <3>2. t.at \in Plain /\ ~HasRun(t) BY <3>1 DEF Plain, Phase, HasRun, Working
    <3> QED BY <3>1, <3>2, PlainLed DEF Moves
  <2> QED BY <2>1, <2>2, <2>3, BackLed
<1>6. CASE CommitReturns(h)
  BY <1>6, BackLed DEF CommitReturns, At
<1>7. CASE BeginPass(h)
  <2> DEFINE t == [Idle EXCEPT !.at = "claim"]
  <2>1. task' = [task EXCEPT ![h] = t] BY <1>7 DEF BeginPass
  <2>2. Idle.then = "drain" BY DEF Idle
  <2>3. t \in Task /\ t.at = "claim" /\ t.then = "drain" BY <2>2, IdleTask DEF Task, Phase
  <2>4. t.at \in Plain /\ ~HasRun(t) BY <2>3 DEF Plain, Phase, HasRun, Working
  <2> HIDE DEF t
  <2> QED BY <2>1, <2>3, <2>4, PlainLed
<1> QED BY <1>1, <1>2, <1>3, <1>4, <1>5, <1>6, <1>7

\* A move to another phase, leg or read action, with the run it had.
LEMMA StaysLed ==
  ASSUME TypeOK, RunInv, NEW h \in Handlers, HasRun(task[h]),
         NEW t \in Task, task' = [task EXCEPT ![h] = t], t.run = task[h].run,
         \/ t.at \in Plain
         \/ t.at = "review" /\ Resume(h)
         \/ t.at = "close" /\ (Resume(h) \/ Review(h))
         \/ t.at = "finish" /\ (Resume(h) \/ Status(h))
  PROVE  Led(h)
<1>1. task'[h] = t /\ task' \in [Handlers -> Task] /\ \A g \in Handlers \ {h} : task'[g] = task[g]
  BY MovesTask DEF Moves
<1> QED BY <1>1 DEF Led, Plain, RunInv

LEMMA ResumeLed ==
  ASSUME TypeOK, RunInv, NEW h \in Handlers, Resume(h)
  PROVE  Led(h)
<1>0. task[h] \in Task BY DEF TypeOK
<1>1. task[h].at = "resume" /\ HasRun(task[h]) BY DEF Resume, At, HasRun, Working
<1>2. task[h].run \in Runs BY <1>1 DEF RunInv
<1>3. ASSUME NEW phase \in {"review", "close", "finish", "after", "commit"},
             \/ GoTo(h, phase)
             \/ phase = "finish" /\ task' = [task EXCEPT ![h].at = phase, ![h].leg = "last"]
      PROVE  Led(h)
  <2>1. PICK t \in {[task[h] EXCEPT !.at = phase], [task[h] EXCEPT !.at = phase, !.leg = "last"]} :
          task' = [task EXCEPT ![h] = t]
    BY <1>3 DEF GoTo, TypeOK
  <2>2. t \in Task /\ t.at = phase /\ t.run = task[h].run BY <1>0 DEF Task, Phase
  <2>3. phase \in {"after", "commit"} => phase \in Plain BY DEF Plain, Phase
  <2> QED BY <1>1, <2>1, <2>2, <2>3, StaysLed
<1>4. ASSUME Read(h, stepped[task[h].run] + 1) PROVE Led(h)
  <2> DEFINE i == stepped[task[h].run] + 1
             t == [task[h] EXCEPT !.at = "read", !.read = i]
  <2>1. i \in Nat BY <1>2 DEF TypeOK
  <2>2. task' = [task EXCEPT ![h] = t] BY <1>4 DEF Read, TypeOK
  <2> HIDE DEF i
  <2>3. t \in Task /\ t.at = "read" /\ t.run = task[h].run BY <1>0, <2>1 DEF Task, Phase
  <2>4. "read" \in Plain BY DEF Plain, Phase
  <2> HIDE DEF t
  <2> QED BY <1>1, <2>2, <2>3, <2>4, StaysLed
<1> QED
  <2>1. \/ Over(h) \/ Raised(h)
        \/ Read(h, stepped[task[h].run] + 1)
        \/ \E phase \in {"review", "close", "finish", "after", "commit"} :
             \/ GoTo(h, phase)
             \/ phase = "finish" /\ task' = [task EXCEPT ![h].at = phase, ![h].leg = "last"]
    BY DEF Resume
  <2> QED BY <1>1, <1>3, <1>4, <2>1, LeftLed

LEMMA PassLed ==
  ASSUME TypeOK, RunInv, NEW h \in Handlers, NextRun(h) \/ EndPass(h)
  PROVE  Led(h)
<1>0. task[h] \in Task BY DEF TypeOK
<1>1. CASE NextRun(h)
  <2>1. task[h].at = "next" BY <1>1 DEF NextRun, At
  <2>2. PICK item \in task[h].todo :
          LET left == [task[h] EXCEPT !.todo = @ \ {item}] IN
          \/ task' = [task EXCEPT ![h] = left]
          \/ task' = [task EXCEPT ![h] =
                       [left EXCEPT !.at = "resume", !.run = item[1], !.seen = item[2],
                                    !.leg = Leg(item[1])]]
    BY <1>1 DEF NextRun
  <2>3. item[1] \in Runs /\ item[2] \in RunState BY <1>0 DEF Task
  <2>4. Leg(item[1]) \in {"first", "tail", "last"} BY DEF Leg
  <2> DEFINE left == [task[h] EXCEPT !.todo = @ \ {item}]
             t == [left EXCEPT !.at = "resume", !.run = item[1], !.seen = item[2],
                               !.leg = Leg(item[1])]
  <2>5. left \in Task /\ left.at = "next" BY <1>0, <2>1 DEF Task
  <2>6. t \in Task /\ t.at = "resume" /\ t.run \in Runs BY <2>3, <2>4, <2>5 DEF Task, Phase
  <2>7. task' = [task EXCEPT ![h] = left] \/ task' = [task EXCEPT ![h] = t] BY <2>2
  <2> HIDE DEF left, t
  <2>8. left.at \in Plain /\ ~HasRun(left) /\ t.at \in Plain
    BY <2>5, <2>6 DEF Plain, Phase, HasRun, Working
  <2> QED BY <2>5, <2>6, <2>7, <2>8, PlainLed
<1>2. CASE EndPass(h)
  <2>1. Idle.at = "idle" BY DEF Idle
  <2>2. Idle.at \in Plain /\ ~HasRun(Idle) BY <2>1 DEF Plain, Phase, HasRun, Working
  <2>3. task' = [task EXCEPT ![h] = Idle] BY <1>2 DEF EndPass
  <2> QED BY <2>2, <2>3, IdleTask, PlainLed
<1> QED BY <1>1, <1>2

\* Each remaining step names the phase it starts at; run_once is entered with
\* the caller's phase to come back to.
LEMMA EntersRunOnce ==
  ASSUME TypeOK, RunInv, NEW h \in Handlers, HasRun(task[h]),
         NEW then \in {"readBack", "commitBack"},
         task' = [task EXCEPT ![h].at = "claim", ![h].then = then]
  PROVE  Led(h)
<1> DEFINE t == [task[h] EXCEPT !.at = "claim", !.then = then]
<1>1. task[h] \in Task BY DEF TypeOK
<1>2. t \in Task /\ t.at = "claim" /\ t.run = task[h].run BY <1>1 DEF Task, Phase
<1>3. task' = [task EXCEPT ![h] = t] BY DEF TypeOK
<1>4. "claim" \in Plain BY DEF Plain, Phase
<1> HIDE DEF t
<1> QED BY <1>2, <1>3, <1>4, StaysLed

LEMMA ServiceLed ==
  ASSUME TypeOK, RunInv, ReviewInv, NEW h \in Handlers,
         \/ NextRead(h) \/ ReadBack(h) \/ Report(h) \/ Review(h) \/ Close(h) \/ Commit(h)
         \/ CommitBack(h) \/ Asked(h) \/ After(h) \/ AfterTail(h) \/ Status(h) \/ Finish(h)
  PROVE  Led(h)
<1>0. task[h] \in Task BY DEF TypeOK
<1>1. /\ task[h].at \in Working /\ task[h].at \in Phase /\ HasRun(task[h])
      /\ task[h].run \in Runs
  <2>1. task[h].at \in Working
    BY DEF NextRead, ReadBack, Report, Review, Close, Commit, CommitBack, Asked, After,
       AfterTail, Status, Finish, At, Working
  <2> QED BY <1>0, <2>1 DEF HasRun, RunInv, Task
<1>2. ASSUME UNCHANGED task,
             \/ task[h].at \in {"report", "commit"}
             \/ task[h].at = "review" /\ Review(h)
             \/ task[h].at = "close" /\ Close(h)
             \/ task[h].at = "finish" /\ Finish(h)
      PROVE  Led(h)
  BY <1>2, SameLed DEF Plain, Phase
<1>3. ASSUME NEW phase \in {"report", "commit", "asked", "status", "after", "afterTail"},
             GoTo(h, phase)
      PROVE  Led(h)
  <2>1. phase \in Plain BY DEF Plain, Phase
  <2> QED BY <1>1, <1>3, <2>1, PhaseLed
<1>4. ASSUME NEW phase \in {"close", "finish"}, GoTo(h, phase),
             \/ phase = "close" /\ Review(h)
             \/ phase = "finish" /\ Status(h)
      PROVE  Led(h)
  <2> DEFINE t == [task[h] EXCEPT !.at = phase]
  <2>1. t \in Task /\ t.at = phase /\ t.run = task[h].run BY <1>0 DEF Task, Phase
  <2>2. task' = [task EXCEPT ![h] = t] BY <1>4 DEF GoTo, TypeOK
  <2> HIDE DEF t
  <2> QED BY <1>1, <1>4, <2>1, <2>2, StaysLed
<1>5. ASSUME NEW phase \in {"commit", "status"}, NEW leg \in {"tail", "last"},
             task' = [task EXCEPT ![h].at = phase, ![h].leg = leg]
      PROVE  Led(h)
  <2> DEFINE t == [task[h] EXCEPT !.at = phase, !.leg = leg]
  <2>1. t \in Task /\ t.at = phase /\ t.run = task[h].run BY <1>0 DEF Task, Phase
  <2>2. task' = [task EXCEPT ![h] = t] BY <1>5 DEF TypeOK
  <2>3. phase \in Plain BY DEF Plain, Phase
  <2> HIDE DEF t
  <2> QED BY <1>1, <2>1, <2>2, <2>3, StaysLed
<1>6. CASE NextRead(h)
  BY <1>1, <1>3, <1>6, EntersRunOnce DEF NextRead
<1>7. CASE ReadBack(h)
  <2>1. ASSUME NEW i \in Nat, Read(h, i + 1) PROVE Led(h)
    <3> DEFINE j == i + 1
               t == [task[h] EXCEPT !.at = "read", !.read = j]
    <3>1. task' = [task EXCEPT ![h] = t] BY <2>1 DEF Read, TypeOK
    <3>2. j \in Nat OBVIOUS
    <3> HIDE DEF j
    <3>3. t \in Task /\ t.at = "read" /\ t.run = task[h].run BY <1>0, <3>2 DEF Task, Phase
    <3>4. "read" \in Plain BY DEF Plain, Phase
    <3> HIDE DEF t
    <3> QED BY <1>1, <3>1, <3>3, <3>4, StaysLed
  <2>2. task[h].read \in Nat BY <1>0 DEF Task
  <2>3. \/ Return(h) \/ Read(h, task[h].read + 1)
        \/ \E phase \in {"report", "commit"} : GoTo(h, phase)
    BY <1>7 DEF ReadBack
  <2> QED BY <1>1, <1>3, <2>1, <2>2, <2>3, LeftLed
<1>8. CASE Report(h)
  <2>1. task[h].at = "report" BY <1>8 DEF Report, At
  <2>2. review[task[h].run] \in {"pending", "waiting", "succeeded"} BY <1>1 DEF TypeOK
  <2>3. UNCHANGED task \/ Return(h) \/ Failed(h) BY <1>8, <2>2 DEF Report
  <2> QED BY <1>1, <1>2, <2>1, <2>3, LeftLed
<1>9. CASE Review(h)
  <2>1. task[h].at = "review" BY <1>9 DEF Review, At
  <2>2. review[task[h].run] \in {"waiting", "succeeded"}
    BY <1>1, <2>1 DEF TypeOK, ReviewInv
  <2>3. UNCHANGED task \/ Return(h) \/ GoTo(h, "commit") \/ GoTo(h, "close")
    BY <1>9, <2>2 DEF Review
  <2> QED BY <1>1, <1>2, <1>3, <1>4, <1>9, <2>1, <2>3, LeftLed
<1>10. CASE Close(h)
  <2>1. UNCHANGED task \/ Over(h) BY <1>10 DEF Close
  <2> QED BY <1>1, <1>2, <1>10, <2>1, LeftLed DEF Close, At
<1>11. CASE Commit(h)
  <2>1. commit[task[h].run] \in {"pending", "running", "waiting", "succeeded"}
    BY <1>1 DEF TypeOK
  <2>2. \/ UNCHANGED task \/ Failed(h) \/ GoTo(h, "asked")
        \/ task' = [task EXCEPT ![h].at = "claim", ![h].then = "commitBack"]
    BY <1>11, <2>1 DEF Commit
  <2> QED BY <1>1, <1>2, <1>3, <1>11, <2>2, LeftLed, EntersRunOnce DEF Commit, At
<1>12. CASE CommitBack(h)
  <2>1. Return(h) \/ GoTo(h, "asked") \/ Raised(h) BY <1>12 DEF CommitBack
  <2> QED BY <1>1, <1>3, <2>1, LeftLed
<1>13. CASE Asked(h)
  <2>1. GoTo(h, "status") \/ Return(h) BY <1>13 DEF Asked
  <2> QED BY <1>1, <1>3, <2>1, LeftLed
<1>14. CASE After(h)
  BY <1>3, <1>5, <1>14 DEF After
<1>15. CASE AfterTail(h)
  BY <1>1, <1>5, <1>15, LeftLed DEF AfterTail
<1>16. CASE Status(h)
  <2>1. CommitStatus(task[h].run) \in {"awaiting", "active", "unknown", "succeeded", "over"}
    BY DEF CommitStatus
  <2>2. Return(h) \/ GoTo(h, "finish") BY <1>16, <2>1 DEF Status
  <2> QED BY <1>1, <1>4, <1>16, <2>2, LeftLed
<1>17. CASE Finish(h)
  <2>1. UNCHANGED task \/ Return(h) BY <1>17 DEF Finish
  <2> QED BY <1>1, <1>2, <1>17, <2>1, LeftLed DEF Finish, At
<1> QED BY <1>6, <1>7, <1>8, <1>9, <1>10, <1>11, <1>12, <1>13, <1>14, <1>15, <1>16, <1>17

LEMMA HandlingLed ==
  ASSUME TypeOK, RunInv, ReviewInv, NEW h \in Handlers, Handling(h)
  PROVE  Led(h)
BY RunnerLed, ResumeLed, PassLed, ServiceLed DEF Handling, Step

\* A client's call takes up its run, while no handler is at work.
ClientCall(r) ==
  /\ Quiet
  /\ task' \in [Handlers -> Task]
  /\ \A h \in Handlers :
       \/ task'[h] = task[h]
       \/ task'[h].at = "resume" /\ task'[h].run = r
       \/ task'[h].at = "review" /\ task'[h].run = r /\ review[r] # "pending"

LEMMA ClientCalls ==
  ASSUME TypeOK, ReviewInv, NEW r \in Runs, Start(r) \/ Submit(r)
  PROVE  ClientCall(r)
<1>1. ASSUME NEW seen \in RunState, NEW phase \in {"resume", "review"},
             NEW leg \in {"first", "tail", "last"}, Enter("client", r, seen, phase, leg)
      PROVE  /\ task' \in [Handlers -> Task]
             /\ \A h \in Handlers : \/ task'[h] = task[h]
                                    \/ task'[h].at = phase /\ task'[h].run = r
  <2>1. CASE "client" \in Handlers
    <3> DEFINE t == [task["client"] EXCEPT !.at = phase, !.run = r, !.seen = seen, !.leg = leg]
    <3>1. task["client"] \in Task BY <2>1 DEF TypeOK
    <3>2. t \in Task /\ t.at = phase /\ t.run = r BY <3>1 DEF Task, Phase
    <3>3. task' = [task EXCEPT !["client"] = t] BY <1>1, <2>1 DEF Enter, TypeOK
    <3> HIDE DEF t
    <3> QED BY <2>1, <3>2, <3>3 DEF TypeOK
  <2>2. CASE "client" \notin Handlers
    BY <1>1, <2>2 DEF Enter, TypeOK
  <2> QED BY <2>1, <2>2
<1>2. CASE Start(r)
  <2>1. run'[r] \in RunState BY <1>2 DEF Start, TypeOK, RunState
  <2>2. Leg(r) \in {"first", "tail", "last"} BY DEF Leg
  <2> QED BY <1>1, <1>2, <2>1, <2>2 DEF Start, ClientCall
<1>3. CASE Submit(r)
  <2>1. run[r] \in RunState BY DEF TypeOK
  <2>2. review[r] # "pending" BY <1>3 DEF Submit, ReviewInv
  <2> QED BY <1>1, <1>3, <2>1, <2>2 DEF Submit, ClientCall
<1> QED BY <1>2, <1>3

\* A restart leaves only the startup pass.
Restarted ==
  /\ task' \in [Handlers -> Task]
  /\ \A h \in Handlers :
       task'[h].at = "idle" \/ (h = "loop" /\ task'[h].at = "reconcile")

LEMMA CrashTask ==
  ASSUME Crash
  PROVE  Restarted
<1> DEFINE t == [Idle EXCEPT !.at = "reconcile"]
<1>1. Idle.at = "idle" BY DEF Idle
<1>2. t \in Task /\ t.at = "reconcile" BY IdleTask DEF Task, Phase
<1>3. task' = [h \in Handlers |-> IF h = "loop" THEN t ELSE Idle] BY DEF Crash
<1> HIDE DEF t
<1> QED BY <1>1, <1>2, <1>3, IdleTask DEF Restarted

\* The steps that no handler's task takes part in: the event loop is free.
World ==
  \/ \E r \in Runs : Cancel(r) \/ ControlRevoked(r) \/ Decide(r) \/ JobMoves(r)
  \/ \E x \in Slots : Lapse(x)
  \/ Withdraw

LEMMA Actors ==
  ASSUME TypeOK, RunInv, ReviewInv, [Next]_vars
  PROVE  \/ \E h \in Handlers : Handling(h) /\ Led(h) /\ Turn(h)
         \/ \E r \in Runs : (Start(r) \/ Submit(r)) /\ ClientCall(r)
         \/ World /\ Quiet /\ UNCHANGED task
         \/ Crash /\ Restarted
         \/ UNCHANGED vars
<1>1. ASSUME NEW h \in Handlers, Handling(h) PROVE Led(h) /\ Turn(h)
  <2>1. Turn(h)
    BY <1>1 DEF Handling, Step, Claim, Begin, Land, Reconcile, ReadReturns, CommitReturns,
       BeginPass, Quiet, NextRun, EndPass, Resume, NextRead, ReadBack, Report, Review, Close,
       Commit, CommitBack, Asked, After, AfterTail, Status, Finish, At, Turn
  <2> QED BY <1>1, <2>1, HandlingLed
<1>2. ASSUME World PROVE Quiet /\ UNCHANGED task
  BY <1>2 DEF World, Cancel, ControlRevoked, Decide, JobMoves, Lapse, Withdraw, procVars
<1> QED BY <1>1, <1>2, ClientCalls, CrashTask DEF Next, Handling, World

\* The invariants about the handlers alone.
LEMMA AloneStep ==
  ASSUME TypeOK, Alone, RunInv, ReviewInv, [Next]_vars
  PROVE  Alone'
<1>1. ASSUME NEW h \in Handlers, Led(h), Turn(h) PROVE Alone'
  BY <1>1 DEF Led, Turn, Suspended, Alone
<1>2. ASSUME NEW r \in Runs, Start(r) \/ Submit(r), Quiet PROVE Alone'
  <2>1. \A h \in Handlers : h # "client" => task'[h] = task[h]
    BY <1>2 DEF Start, Submit, Enter, TypeOK
  <2> QED BY <1>2, <2>1 DEF Quiet, Suspended, Alone
<1>3. CASE Restarted
  BY <1>3 DEF Restarted, Suspended, Alone
<1>4. CASE UNCHANGED task
  BY <1>4 DEF Suspended, Alone
<1> QED BY <1>1, <1>2, <1>3, <1>4, Actors DEF ClientCall, vars, procVars

LEMMA RunStep ==
  ASSUME TypeOK, RunInv, ReviewInv, [Next]_vars
  PROVE  RunInv'
<1>1. ASSUME NEW h \in Handlers, Led(h) PROVE RunInv'
  BY <1>1 DEF Led, RunInv
<1>2. ASSUME NEW r \in Runs, ClientCall(r) PROVE RunInv'
  BY <1>2 DEF ClientCall, RunInv
<1>3. CASE Restarted
  BY <1>3 DEF Restarted, HasRun, Working, RunInv
<1>4. CASE UNCHANGED task
  BY <1>4 DEF RunInv
<1> QED BY <1>1, <1>2, <1>3, <1>4, Actors DEF vars, procVars

-----------------------------------------------------------------------------
(* The actions. *)

LEMMA SlotPairs ==
  /\ \A x \in Slots : x[1] \in Runs /\ x = <<x[1], x[2]>>
  /\ \A r \in Writes : <<r, "commit">> \in Slots /\ IsWrite(<<r, "commit">>) /\ r \in Runs
BY DEF Slots, Runs, IsWrite

\* What the steps of the action table do to an action, and to the count of
\* dispatches.
ActKept == UNCHANGED <<act, sent>>

Cancelled(r) == act' = Undispatched(r) /\ UNCHANGED sent

Queued(x) == act' = [act EXCEPT ![x] = IF @ = "none" THEN "pending" ELSE @] /\ UNCHANGED sent

LEMMA ActSteps ==
  ASSUME TypeOK, RunInv, [Next]_vars
  PROVE  \/ ActKept
         \/ \E r : Cancelled(r)
         \/ \E x : Queued(x)
         \/ \E h \in Handlers :
              \/ Claim(h) \/ Begin(h) \/ Land(h) \/ Reconcile(h)
              \/ ReadReturns(h) \/ CommitReturns(h)
<1>1. ASSUME NEW h \in Handlers,
             \/ BeginPass(h) \/ EndPass(h) \/ Resume(h) \/ Report(h) \/ Review(h) \/ Close(h)
             \/ CommitBack(h) \/ Asked(h) \/ After(h) \/ AfterTail(h) \/ Finish(h)
      PROVE  ActKept
  BY <1>1 DEF BeginPass, EndPass, Resume, Report, Review, Close, CommitBack, Asked, After,
     AfterTail, Finish, ActKept, dbVars, worldVars
<1>2. ASSUME NEW r, NeedsAttention(r), UNCHANGED sent PROVE ActKept \/ Cancelled(r)
  BY <1>2 DEF NeedsAttention, ActKept, Cancelled
<1>3. ASSUME NEW h \in Handlers, NextRun(h) PROVE ActKept \/ \E r : Cancelled(r)
  BY <1>2, <1>3 DEF NextRun, ActKept, worldVars
<1>4. ASSUME NEW h \in Handlers, ReadBack(h) PROVE ActKept \/ \E r : Cancelled(r)
  BY <1>2, <1>4 DEF ReadBack, ActKept, worldVars
<1>5. ASSUME NEW h \in Handlers, Status(h) PROVE ActKept \/ \E r : Cancelled(r)
  <2>1. CommitStatus(task[h].run) \in {"awaiting", "active", "unknown", "succeeded", "over"}
    BY DEF CommitStatus
  <2>2. UNCHANGED act \/ NeedsAttention(task[h].run) BY <1>5, <2>1 DEF Status
  <2> QED BY <1>2, <1>5, <2>2 DEF Status, ActKept, worldVars
<1>6. ASSUME NEW h \in Handlers, NextRead(h) PROVE ActKept \/ \E x : Queued(x)
  BY <1>6 DEF NextRead, ActKept, Queued, worldVars
<1>7. ASSUME NEW h \in Handlers, Commit(h) PROVE ActKept \/ \E x : Queued(x)
  <2>1. commit[task[h].run] \in {"pending", "running", "waiting", "succeeded"}
    BY <1>7 DEF Commit, At, HasRun, Working, RunInv, TypeOK
  <2> QED BY <1>7, <2>1 DEF Commit, ActKept, Queued, worldVars
<1>8. ASSUME NEW r \in Runs,
             Start(r) \/ Submit(r) \/ Cancel(r) \/ ControlRevoked(r) \/ Decide(r) \/ JobMoves(r)
      PROVE  ActKept \/ Cancelled(r)
  BY <1>2, <1>8 DEF Start, Submit, Cancel, ControlRevoked, Decide, JobMoves,
     ActKept, Cancelled, dbVars, worldVars
<1>9. CASE (\E x \in Slots : Lapse(x)) \/ Withdraw \/ Crash \/ UNCHANGED vars
  BY <1>9 DEF Lapse, Withdraw, Crash, vars, ActKept, dbVars, worldVars
<1> QED BY <1>1, <1>3, <1>4, <1>5, <1>6, <1>7, <1>8, <1>9 DEF Next, Step

Early == {"none", "pending", "claimed"}

\* The dispatch of a commit starts with a claim and is not taken back: an action
\* that was claimed or lost does not become pending again, and the dispatch of
\* a claimed one counts once (claim_action, mark_dispatch_started,
\* reclaim_expired_actions).
LEMMA CommitNotTakenBack ==
  ASSUME TypeOK, RunInv, ClaimInv, [Next]_vars, NEW r \in Writes
  PROVE  LET c == <<r, "commit">> IN
         /\ act'[c] \in Early => act[c] \in Early
         /\ \/ sent'[r] = sent[r]
            \/ sent[r] = 0 /\ sent'[r] = 1 /\ act'[c] \notin Early
<1> DEFINE c == <<r, "commit">>
           Goal == /\ act'[c] \in Early => act[c] \in Early
                   /\ \/ sent'[r] = sent[r]
                      \/ sent[r] = 0 /\ sent'[r] = 1 /\ act'[c] \notin Early
<1>g. SUFFICES Goal OBVIOUS
<1>0. c \in Slots /\ IsWrite(c) BY SlotPairs
<1> HIDE DEF c
<1>1. CASE ActKept
  BY <1>1 DEF ActKept
<1>2. ASSUME NEW q, Cancelled(q) PROVE Goal
  BY <1>0, <1>2 DEF Cancelled, Undispatched, Early
<1>3. ASSUME NEW x, Queued(x) PROVE Goal
  BY <1>0, <1>3 DEF Queued, Early, TypeOK
<1>4. ASSUME NEW h \in Handlers, Claim(h) PROVE Goal
  <2>1. UNCHANGED sent BY <1>4 DEF Claim, worldVars
  <2>2. UNCHANGED act \/ \E x \in Slots : Eligible(x) /\ act' = [act EXCEPT ![x] = "claimed"]
    BY <1>4 DEF Claim
  <2> QED BY <1>0, <2>1, <2>2 DEF Eligible, Early, TypeOK
<1>5. ASSUME NEW h \in Handlers, Begin(h) PROVE Goal
  <2>1. /\ UNCHANGED sent
        /\ \E word \in {"failed", "started"} : act' = [act EXCEPT ![task[h].slot] = word]
    BY <1>5 DEF Begin, worldVars
  <2> QED BY <1>0, <2>1 DEF Early, TypeOK
<1>6. ASSUME NEW h \in Handlers, Land(h) PROVE Goal
  <2> DEFINE x == task[h].slot
  <2>1. x \in Slots /\ IsWrite(x) /\ act[x] = "started" /\ (x[1] \in Writes => sent[x[1]] = 0)
    BY <1>6 DEF Land, At, ClaimInv
  <2>2. x = <<x[1], "commit">> BY <2>1, SlotPairs DEF IsWrite
  <2>3. /\ sent' = [sent EXCEPT ![x[1]] = @ + 1]
        /\ act' = act \/ act' = [act EXCEPT ![x] = "outcome_unknown"]
    BY <1>6 DEF Land
  <2> HIDE DEF x
  <2>4. CASE x[1] = r
    <3>1. x = c BY <2>2, <2>4 DEF c
    <3> QED BY <1>0, <2>1, <2>3, <2>4, <3>1, SlotPairs DEF Early, TypeOK
  <2>5. CASE x[1] # r
    <3>1. x # c BY <2>2, <2>5 DEF c
    <3> QED BY <1>0, <2>3, <2>5, <3>1, SlotPairs DEF Early, TypeOK
  <2> QED BY <2>4, <2>5
<1>7. ASSUME NEW h \in Handlers, Reconcile(h) PROVE Goal
  <2>1. UNCHANGED sent BY <1>7 DEF Reconcile, worldVars
  <2>2. act'[c] = CASE Reclaimed(c) -> "pending" [] Evident(c) -> "completed" [] OTHER -> act[c]
    BY <1>0, <1>7 DEF Reconcile
  <2>3. Reclaimed(c) => act[c] = "claimed" BY <1>0 DEF Reclaimed
  <2>4. Evident(c) => act[c] \notin Early BY DEF Evident, Early
  <2> QED BY <2>1, <2>2, <2>3, <2>4 DEF Early
<1>8. ASSUME NEW h \in Handlers, ReadReturns(h) \/ CommitReturns(h) PROVE Goal
  <2>1. /\ UNCHANGED sent
        /\ \/ UNCHANGED act
           \/ \E x : \E word \in {"completed", "failed"} : act' = [act EXCEPT ![x] = word]
    BY <1>8 DEF ReadReturns, CommitReturns, worldVars
  <2> QED BY <1>0, <2>1 DEF Early, TypeOK
<1> QED
  <2> HIDE DEF Goal
  <2> QED BY <1>1, <1>2, <1>3, <1>4, <1>5, <1>6, <1>7, <1>8, ActSteps

LEMMA SentStep ==
  ASSUME TypeOK, RunInv, ClaimInv, SentInv, NeverRedispatched, [Next]_vars
  PROVE  SentInv' /\ NeverRedispatched'
<1> SUFFICES ASSUME NEW r \in Writes
             PROVE  /\ act'[<<r, "commit">>] \in Early => sent'[r] = 0
                    /\ sent'[r] <= 1
  BY DEF SentInv, NeverRedispatched, Early
<1>1. sent[r] <= 1 /\ (act[<<r, "commit">>] \in Early => sent[r] = 0)
  BY DEF SentInv, NeverRedispatched, Early
<1> QED BY <1>1, CommitNotTakenBack

\* The claim a handler works on is in no other hands while it works: only its
\* own step, or a crash, comes next.
LEMMA ClaimStep ==
  ASSUME TypeOK, Alone, RunInv, ReviewInv, ClaimInv, SentInv, [Next]_vars
  PROVE  ClaimInv'
<1>1. ASSUME NEW h \in Handlers, Handling(h), Led(h), Turn(h) PROVE ClaimInv'
  <2>1. \A g \in Handlers \ {h} : task'[g].at \notin {"claimed", "started"}
    BY <1>1 DEF Led, Turn, Suspended
  <2>2. ASSUME task'[h].at = "claimed"
        PROVE  task'[h].slot \in Slots /\ act'[task'[h].slot] = "claimed"
    <3>1. Claim(h) BY <1>1, <2>2 DEF Led
    <3>2. task[h].at = "claim" /\ task[h] \in Task BY <3>1 DEF Claim, At, TypeOK
    <3>3. task' # [task EXCEPT ![h] = None(@)]
      BY <2>2, <3>2 DEF None, TypeOK, Task
    <3>4. PICK x \in Slots : /\ act' = [act EXCEPT ![x] = "claimed"]
                             /\ task' = [task EXCEPT ![h].at = "claimed", ![h].slot = x]
      BY <3>1, <3>3 DEF Claim
    <3>5. task'[h].slot = x BY <3>2, <3>4 DEF TypeOK, Task
    <3> QED BY <3>4, <3>5 DEF TypeOK
  <2>3. ASSUME task'[h].at = "started"
        PROVE  LET x == task'[h].slot IN
               x \in Slots /\ IsWrite(x) /\ act'[x] = "started" /\ (x[1] \in Writes => sent'[x[1]] = 0)
    <3> DEFINE x == task[h].slot
    <3>1. Begin(h) BY <1>1, <2>3 DEF Led
    <3>2. task[h].at = "claimed" /\ task[h] \in Task BY <3>1 DEF Begin, At, TypeOK
    <3>3. x \in Slots /\ act[x] = "claimed" BY <3>2 DEF ClaimInv
    <3>4. ~Back(h)
      <4>1. Ran(task[h]).at # "started" BY <3>2 DEF Ran, Task
      <4> QED BY <2>3, <4>1 DEF Back, TypeOK
    <3>5. /\ act' = [act EXCEPT ![x] = "started"] /\ UNCHANGED sent
          /\ GoTo(h, IF IsWrite(x) THEN "started" ELSE "away")
      BY <3>1, <3>4 DEF Begin, worldVars
    <3>6. IsWrite(x) /\ task'[h].slot = x
      BY <2>3, <3>2, <3>5 DEF GoTo, TypeOK, Task
    <3>7. x = <<x[1], "commit">> /\ x[1] \in Runs BY <3>3, <3>6, SlotPairs DEF IsWrite
    <3> QED BY <3>3, <3>5, <3>6, <3>7 DEF SentInv, TypeOK
  <2> QED BY <2>1, <2>2, <2>3 DEF ClaimInv
<1>2. ASSUME \A h \in Handlers : task'[h].at \notin {"claimed", "started"}
      PROVE  ClaimInv'
  BY <1>2 DEF ClaimInv
<1>3. ASSUME NEW r \in Runs, ClientCall(r) PROVE ClaimInv'
  BY <1>2, <1>3 DEF ClientCall, Quiet, Suspended
<1>4. ASSUME Quiet, UNCHANGED task PROVE ClaimInv'
  BY <1>2, <1>4 DEF Quiet, Suspended
<1>5. CASE Restarted
  BY <1>2, <1>5 DEF Restarted
<1>6. CASE UNCHANGED vars
  BY <1>6 DEF vars, dbVars, worldVars, procVars, ClaimInv, IsWrite
<1> QED BY <1>1, <1>3, <1>4, <1>5, <1>6, Actors

-----------------------------------------------------------------------------
(* Reviews, jobs and runs. *)

\* A review never goes back to pending, and the user answers only one that waits.
LEMMA ReviewStep ==
  ASSUME TypeOK, RunInv, ReviewInv, [Next]_vars
  PROVE  ReviewInv'
<1>1. \A r \in Runs : review[r] # "pending" => review'[r] # "pending"
  <2> SUFFICES ASSUME NEW r \in Runs, review[r] # "pending", review' # review
               PROVE  review'[r] # "pending"
    OBVIOUS
  <2>1. ASSUME NEW h \in Handlers, Report(h) PROVE review'[r] # "pending"
    <3>1. task[h].run \in Runs BY <2>1 DEF Report, At, HasRun, Working, RunInv
    <3>2. review' = review \/ review' = [review EXCEPT ![task[h].run] = "waiting"]
      BY <2>1, <3>1 DEF Report, TypeOK
    <3> QED BY <3>1, <3>2 DEF TypeOK
  <2>2. ASSUME NEW h \in Handlers, Review(h) PROVE review'[r] # "pending"
    <3>1. task[h].run \in Runs /\ review[task[h].run] # "pending"
      BY <2>2 DEF Review, At, HasRun, Working, RunInv, ReviewInv
    <3>2. review' = review \/ review' = [review EXCEPT ![task[h].run] = "succeeded"]
      BY <2>2, <3>1 DEF Review, TypeOK
    <3> QED BY <3>1, <3>2 DEF TypeOK
  <2>3. \/ \E h \in Handlers : Report(h) \/ Review(h)
        \/ UNCHANGED review
    <3>1. ASSUME NEW h \in Handlers,
                 \/ Claim(h) \/ Begin(h) \/ Land(h) \/ Reconcile(h) \/ NextRun(h) \/ EndPass(h)
                 \/ Resume(h) \/ NextRead(h) \/ ReadBack(h) \/ Close(h)
          PROVE  UNCHANGED review
      BY <3>1 DEF Claim, Begin, Land, Reconcile, NextRun, EndPass, Resume, NextRead, ReadBack,
         Close, dbVars
    <3>2. ASSUME NEW h \in Handlers,
                 \/ Commit(h) \/ CommitBack(h) \/ Asked(h) \/ After(h) \/ AfterTail(h)
                 \/ Status(h) \/ Finish(h) \/ ReadReturns(h) \/ CommitReturns(h) \/ BeginPass(h)
          PROVE  UNCHANGED review
      BY <3>2 DEF Commit, CommitBack, Asked, After, AfterTail, Status, Finish, ReadReturns,
         CommitReturns, BeginPass, dbVars
    <3>3. ASSUME NEW q \in Runs,
                 \/ Start(q) \/ Submit(q) \/ Cancel(q) \/ ControlRevoked(q) \/ Decide(q)
                 \/ JobMoves(q)
          PROVE  UNCHANGED review
      BY <3>3 DEF Start, Submit, Cancel, ControlRevoked, Decide, JobMoves, dbVars
    <3>4. CASE (\E x \in Slots : Lapse(x)) \/ Withdraw \/ Crash \/ UNCHANGED vars
      BY <3>4 DEF Lapse, Withdraw, Crash, vars, dbVars
    <3> QED BY <3>1, <3>2, <3>3, <3>4 DEF Next, Step
  <2> QED BY <2>1, <2>2, <2>3
<1>2. \A r \in answered' : r \in Runs /\ review[r] # "pending"
  <2>0. \A r \in answered : r \in Runs /\ review[r] # "pending"
    BY DEF ReviewInv, TypeOK, Runs
  <2>1. ASSUME NEW q \in Runs, Submit(q) PROVE \A r \in answered' : r \in Runs /\ review[r] # "pending"
    BY <2>0, <2>1 DEF Submit
  <2>2. (\E q \in Runs : Submit(q)) \/ UNCHANGED answered
    <3>1. ASSUME NEW h \in Handlers, Step(h) \/ ReadReturns(h) \/ CommitReturns(h) \/ BeginPass(h)
          PROVE  UNCHANGED answered
      BY <3>1 DEF Step, Claim, Begin, Land, Reconcile, NextRun, EndPass, Resume, NextRead,
         ReadBack, Report, Review, Close, Commit, CommitBack, Asked, After, AfterTail, Status,
         Finish, ReadReturns, CommitReturns, BeginPass, dbVars
    <3>2. ASSUME NEW q \in Runs,
                 Start(q) \/ Cancel(q) \/ ControlRevoked(q) \/ Decide(q) \/ JobMoves(q)
          PROVE  UNCHANGED answered
      BY <3>2 DEF Start, Cancel, ControlRevoked, Decide, JobMoves, dbVars
    <3>3. CASE (\E x \in Slots : Lapse(x)) \/ Withdraw \/ Crash \/ UNCHANGED vars
      BY <3>3 DEF Lapse, Withdraw, Crash, vars, dbVars
    <3> QED BY <3>1, <3>2, <3>3 DEF Next
  <2> QED BY <2>0, <2>1, <2>2
<1>3. \A r \in answered' : review'[r] # "pending"
  BY <1>1, <1>2
<1>4. \A h \in Handlers : task'[h].at = "review" => review'[task'[h].run] # "pending"
  <2>1. ASSUME NEW h \in Handlers, task'[h] = task[h], task[h].at = "review"
        PROVE  review'[task'[h].run] # "pending"
    BY <1>1, <2>1 DEF ReviewInv, RunInv, HasRun, Working
  <2>2. ASSUME NEW h \in Handlers, Handling(h), Led(h), NEW g \in Handlers, task'[g].at = "review"
        PROVE  review'[task'[g].run] # "pending"
    <3>1. CASE task'[g] = task[g]
      BY <2>1, <2>2, <3>1
    <3>2. CASE task'[g] # task[g]
      <4>1. g = h /\ Resume(h) BY <2>2, <3>2 DEF Led
      <4>2. task[h] \in Task /\ HasRun(task[h]) BY <4>1 DEF Resume, At, HasRun, Working, TypeOK
      <4>3. ~Over(h) /\ ~Raised(h)
        BY <2>2, <4>1, Leaves, MovesTask DEF Left
      <4>4. ~Read(h, stepped[task[h].run] + 1) /\ ~GoTo(h, "after") /\ ~GoTo(h, "commit") /\ ~GoTo(h, "close")
        BY <2>2, <4>1, <4>2 DEF Read, GoTo, TypeOK, Task
      <4>5. task' # [task EXCEPT ![h].at = "finish", ![h].leg = "last"]
        BY <2>2, <4>1, <4>2 DEF TypeOK, Task
      <4>6. review[task[h].run] # "pending" /\ GoTo(h, "review") /\ UNCHANGED review
        BY <4>1, <4>3, <4>4, <4>5 DEF Resume, dbVars
      <4>7. task'[g].run = task[h].run BY <4>1, <4>2, <4>6 DEF GoTo, TypeOK, Task
      <4> QED BY <4>6, <4>7
    <3> QED BY <3>1, <3>2
  <2>3. ASSUME NEW r \in Runs, ClientCall(r), NEW g \in Handlers, task'[g].at = "review"
        PROVE  review'[task'[g].run] # "pending"
    BY <1>1, <2>1, <2>3 DEF ClientCall
  <2> QED BY <2>1, <2>2, <2>3, Actors DEF Restarted, vars, procVars
<1> QED BY <1>3, <1>4 DEF ReviewInv

\* Where intents, jobs and commit steps move: Land, Decide, JobMoves and the
\* three steps of the commit.
LEMMA JobSteps ==
  ASSUME TypeOK, [Next]_vars
  PROVE  \/ UNCHANGED <<intent, job, commit>>
         \/ \E h \in Handlers : Land(h) \/ Commit(h) \/ CommitBack(h) \/ Status(h)
         \/ \E r \in Runs : Decide(r) \/ JobMoves(r)
<1>1. ASSUME NEW h \in Handlers,
             \/ Claim(h) \/ Begin(h) \/ Reconcile(h) \/ NextRun(h) \/ EndPass(h)
             \/ Resume(h) \/ NextRead(h) \/ ReadBack(h) \/ Report(h) \/ Review(h) \/ Close(h)
      PROVE  UNCHANGED <<intent, job, commit>>
  BY <1>1 DEF Claim, Begin, Reconcile, NextRun, EndPass, Resume, NextRead, ReadBack, Report,
     Review, Close, dbVars, worldVars
<1>2. ASSUME NEW h \in Handlers,
             \/ Asked(h) \/ After(h) \/ AfterTail(h) \/ Finish(h) \/ ReadReturns(h)
             \/ CommitReturns(h) \/ BeginPass(h)
      PROVE  UNCHANGED <<intent, job, commit>>
  BY <1>2 DEF Asked, After, AfterTail, Finish, ReadReturns, CommitReturns, BeginPass,
     dbVars, worldVars
<1>3. ASSUME NEW r \in Runs, Start(r) \/ Submit(r) \/ Cancel(r) \/ ControlRevoked(r)
      PROVE  UNCHANGED <<intent, job, commit>>
  BY <1>3 DEF Start, Submit, Cancel, ControlRevoked, worldVars
<1>4. CASE (\E x \in Slots : Lapse(x)) \/ Withdraw \/ Crash \/ UNCHANGED vars
  BY <1>4 DEF Lapse, Withdraw, Crash, vars, dbVars, worldVars
<1> QED BY <1>1, <1>2, <1>3, <1>4 DEF Next, Step

\* A job that succeeded stays so, and a commit step is done only by the status
\* that found it succeeded.
LEMMA JobStep ==
  ASSUME TypeOK, RunInv, JobInv, [Next]_vars
  PROVE  /\ JobInv'
         /\ \A r \in Runs : job[r] = "succeeded" => job'[r] = "succeeded"
<1> DEFINE Goal == /\ JobInv'
                   /\ \A r \in Runs : job[r] = "succeeded" => job'[r] = "succeeded"
<1>g. SUFFICES Goal OBVIOUS
<1>0. \A r \in Writes : r \in Runs BY DEF Runs
<1>1. CASE UNCHANGED <<intent, job, commit>>
  BY <1>1 DEF JobInv
<1>2. ASSUME NEW h \in Handlers, Land(h) PROVE Goal
  <2>1. /\ UNCHANGED <<job, commit>>
        /\ \/ UNCHANGED intent
           \/ \E r : intent' = [intent EXCEPT ![r] = IF @ = "none" THEN "awaiting" ELSE @]
    BY <1>2 DEF Land
  <2> QED BY <2>1 DEF JobInv, TypeOK
<1>3. ASSUME NEW h \in Handlers, Commit(h) \/ CommitBack(h) PROVE Goal
  <2>1. task[h].run \in Runs BY <1>3 DEF Commit, CommitBack, At, HasRun, Working, RunInv
  <2>2. /\ UNCHANGED <<intent, job>>
        /\ \/ UNCHANGED commit
           \/ \E word \in {"running", "waiting"} : commit' = [commit EXCEPT ![task[h].run] = word]
    BY <1>3, <2>1 DEF Commit, CommitBack, TypeOK, worldVars
  <2> QED BY <1>0, <2>1, <2>2 DEF JobInv, TypeOK
<1>4. ASSUME NEW h \in Handlers, Status(h) PROVE Goal
  <2> DEFINE r == task[h].run
  <2>1. CommitStatus(r) \in {"awaiting", "active", "unknown", "succeeded", "over"}
    BY DEF CommitStatus
  <2>2. /\ UNCHANGED <<intent, job>>
        /\ \/ UNCHANGED commit
           \/ CommitStatus(r) = "succeeded" /\ commit' = [commit EXCEPT ![r] = "succeeded"]
    BY <1>4, <2>1 DEF Status, worldVars
  <2>3. CommitStatus(r) = "succeeded" => job[r] = "succeeded"
    BY DEF CommitStatus
  <2> HIDE DEF r
  <2> QED BY <1>0, <2>2, <2>3 DEF JobInv, TypeOK
<1>5. ASSUME NEW r \in Runs, Decide(r) PROVE Goal
  BY <1>0, <1>5 DEF Decide, JobInv, TypeOK, dbVars
<1>6. ASSUME NEW r \in Runs, JobMoves(r) PROVE Goal
  BY <1>0, <1>6 DEF JobMoves, JobInv, TypeOK, dbVars
<1> QED
  <2> HIDE DEF Goal
  <2> QED BY <1>1, <1>2, <1>3, <1>4, <1>5, <1>6, JobSteps

LEMMA FinishStep ==
  ASSUME TypeOK, RunInv, ReviewInv, JobInv, FinishInv, [Next]_vars
  PROVE  FinishInv'
<1> DEFINE Fine(g) == /\ task'[g].at = "finish" /\ task'[g].run \in Writes => job'[task'[g].run] = "succeeded"
                      /\ task'[g].at = "close" => task'[g].run \notin Writes
<1>0. \A r \in Writes : r \in Runs BY DEF Runs
<1>1. \A r \in Runs : job[r] = "succeeded" => job'[r] = "succeeded"
  BY JobStep
<1>2. ASSUME NEW g \in Handlers, task'[g] = task[g] PROVE Fine(g)
  BY <1>0, <1>1, <1>2 DEF FinishInv
<1>3. ASSUME NEW g \in Handlers, task'[g].at \notin {"finish", "close"} PROVE Fine(g)
  BY <1>3
<1>4. ASSUME NEW h \in Handlers, Handling(h), Led(h), NEW g \in Handlers PROVE Fine(g)
  <2>0. task[h] \in Task BY DEF TypeOK
  <2>1. ASSUME Return(h) \/ Over(h) \/ Raised(h) PROVE Fine(h)
    BY <1>3, <2>1, Leaves, MovesTask DEF Left
  <2>2. ASSUME NEW phase \in {"after", "commit", "review", "status"}, GoTo(h, phase) PROVE Fine(h)
    BY <1>3, <2>0, <2>2 DEF GoTo, TypeOK, Task
  <2>3. ASSUME Resume(h) PROVE Fine(h)
    <3> DEFINE r == task[h].run
    <3>1. ASSUME Read(h, stepped[r] + 1) PROVE Fine(h)
      BY <1>3, <2>0, <3>1 DEF Read, TypeOK, Task
    <3>2. ASSUME GoTo(h, "close"), r \notin Writes PROVE Fine(h)
      <4>1. task'[h].at = "close" /\ task'[h].run = r BY <2>0, <3>2 DEF GoTo, TypeOK, Task
      <4> QED BY <3>2, <4>1
    <3>3. ASSUME task' = [task EXCEPT ![h].at = "finish", ![h].leg = "last"],
                 r \in Writes, commit[r] = "succeeded"
          PROVE  Fine(h)
      <4>1. task'[h].at = "finish" /\ task'[h].run = r BY <2>0, <3>3 DEF TypeOK, Task
      <4>2. job[r] = "succeeded" BY <3>3 DEF JobInv
      <4> QED BY <1>0, <1>1, <3>3, <4>1, <4>2
    <3>4. \/ Over(h) \/ Raised(h) \/ Read(h, stepped[r] + 1)
          \/ GoTo(h, "review") \/ GoTo(h, "commit") \/ GoTo(h, "after")
          \/ GoTo(h, "close") /\ r \notin Writes
          \/ /\ task' = [task EXCEPT ![h].at = "finish", ![h].leg = "last"]
             /\ r \in Writes /\ commit[r] = "succeeded"
      BY <2>3 DEF Resume
    <3> HIDE DEF Fine
    <3> QED BY <2>1, <2>2, <3>1, <3>2, <3>3, <3>4
  <2>4. ASSUME Review(h), task' # task PROVE Fine(h)
    <3> DEFINE r == task[h].run
    <3>1. r \in Runs /\ review[r] # "pending"
      BY <2>4 DEF Review, At, HasRun, Working, RunInv, ReviewInv
    <3>2. \/ GoTo(h, "commit") \/ Return(h)
          \/ GoTo(h, "close") /\ r \notin Writes
      BY <2>4, <3>1 DEF Review, TypeOK
    <3>3. ASSUME GoTo(h, "close"), r \notin Writes PROVE Fine(h)
      <4>1. task'[h].at = "close" /\ task'[h].run = r BY <2>0, <3>3 DEF GoTo, TypeOK, Task
      <4> QED BY <3>3, <4>1
    <3> HIDE DEF Fine
    <3> QED BY <2>1, <2>2, <3>2, <3>3
  <2>5. ASSUME Status(h) PROVE Fine(h)
    <3> DEFINE r == task[h].run
    <3>1. CommitStatus(r) \in {"awaiting", "active", "unknown", "succeeded", "over"}
      BY DEF CommitStatus
    <3>2. CommitStatus(r) = "succeeded" => job[r] = "succeeded"
      BY DEF CommitStatus
    <3>3. Return(h) \/ (GoTo(h, "finish") /\ CommitStatus(r) = "succeeded")
      BY <2>5, <3>1 DEF Status
    <3>4. ASSUME GoTo(h, "finish"), job[r] = "succeeded" PROVE Fine(h)
      <4>1. task'[h].at = "finish" /\ task'[h].run = r BY <2>0, <3>4 DEF GoTo, TypeOK, Task
      <4> QED BY <1>0, <1>1, <3>4, <4>1
    <3> HIDE DEF Fine
    <3> QED BY <2>1, <3>2, <3>3, <3>4
  <2>6. g # h => task'[g] = task[g] BY <1>4 DEF Led
  <2>7. \/ task'[h] = task[h] \/ task'[h].at \notin {"finish", "close"}
        \/ Resume(h) \/ (Review(h) /\ task' # task) \/ Status(h)
    BY <1>4 DEF Led
  <2> HIDE DEF Fine
  <2> QED BY <1>2, <1>3, <2>3, <2>4, <2>5, <2>6, <2>7
<1>5. ASSUME NEW r \in Runs, ClientCall(r), NEW g \in Handlers PROVE Fine(g)
  <2>1. task'[g] = task[g] \/ task'[g].at \notin {"finish", "close"} BY <1>5 DEF ClientCall
  <2> HIDE DEF Fine
  <2> QED BY <1>2, <1>3, <2>1
<1>6. ASSUME Restarted, NEW g \in Handlers PROVE Fine(g)
  <2>1. task'[g].at \notin {"finish", "close"} BY <1>6 DEF Restarted
  <2> HIDE DEF Fine
  <2> QED BY <1>3, <2>1
<1>7. \A g \in Handlers : Fine(g)
  <2> HIDE DEF Fine
  <2> QED BY <1>2, <1>4, <1>5, <1>6, Actors DEF vars, procVars
<1> QED BY <1>7 DEF FinishInv

\* How the steps move the state of a run.  A run that is already over is left
\* alone by NeedsAttention, the other words are set by the service.
LEMMA RunSteps ==
  ASSUME TypeOK, RunInv, ReviewInv, [Next]_vars
  PROVE  \/ UNCHANGED run
         \/ \E r \in Runs : NeedsAttention(r) \/ Cancel(r)
         \/ \E r \in Runs, word \in RunState \ {"succeeded", "cancelled"} : Set(r, word)
         \/ \E r \in Runs : Set(r, run[r])
         \/ \E h \in Handlers :
              /\ task[h].at = "close" \/ task[h].at = "finish"
              /\ Set(task[h].run, "succeeded")
<1> DEFINE Goal == \/ UNCHANGED run
                   \/ \E r \in Runs : NeedsAttention(r) \/ Cancel(r)
                   \/ \E r \in Runs, word \in RunState \ {"succeeded", "cancelled"} : Set(r, word)
                   \/ \E r \in Runs : Set(r, run[r])
                   \/ \E h \in Handlers :
                        /\ task[h].at = "close" \/ task[h].at = "finish"
                        /\ Set(task[h].run, "succeeded")
<1>g. SUFFICES Goal OBVIOUS
<1>0. {"running", "waiting_for_user", "waiting_for_trusted_approval", "waiting_for_job",
       "waiting_for_recovery"} \subseteq RunState \ {"succeeded", "cancelled"}
  BY DEF RunState, RunWaits, RunOver
<1>1. ASSUME NEW h \in Handlers,
             \/ Claim(h) \/ Begin(h) \/ Reconcile(h) \/ EndPass(h) \/ Resume(h) \/ NextRead(h)
             \/ Commit(h) \/ CommitBack(h) \/ After(h) \/ AfterTail(h)
             \/ ReadReturns(h) \/ CommitReturns(h) \/ BeginPass(h)
      PROVE  UNCHANGED run
  BY <1>1 DEF Claim, Begin, Reconcile, EndPass, Resume, NextRead, Commit, CommitBack, After,
     AfterTail, ReadReturns, CommitReturns, BeginPass, dbVars
<1>2. ASSUME NEW h \in Handlers, task[h].at \in Working PROVE task[h].run \in Runs
  BY <1>2 DEF HasRun, RunInv
<1>3. ASSUME NEW h \in Handlers, Land(h) PROVE Goal
  <2>1. PICK r : UNCHANGED run \/ (run' = [run EXCEPT ![r] = "waiting_for_recovery"])
    BY <1>3 DEF Land
  <2>2. CASE r \in Runs
    BY <1>0, <2>1, <2>2 DEF Set
  <2>3. CASE r \notin Runs
    BY <2>1, <2>3 DEF TypeOK
  <2> QED BY <2>2, <2>3
<1>4. ASSUME NEW h \in Handlers, NextRun(h) PROVE Goal
  <2>1. PICK item \in task[h].todo : UNCHANGED run \/ NeedsAttention(item[1])
    BY <1>4 DEF NextRun
  <2>2. item[1] \in Runs BY DEF TypeOK, Task
  <2> QED BY <2>1, <2>2
<1>5. ASSUME NEW h \in Handlers, ReadBack(h) \/ Status(h) \/ Report(h) \/ Review(h) PROVE Goal
  <2> DEFINE r == task[h].run
  <2>1. task[h].at \in {"readBack", "status", "report", "review"}
    BY <1>5 DEF ReadBack, Status, Report, Review, At
  <2>2. r \in Runs BY <1>2, <2>1 DEF Working
  <2>3. CommitStatus(r) \in {"awaiting", "active", "unknown", "succeeded", "over"}
    BY DEF CommitStatus
  <2>4. CASE ReadBack(h)
    BY <2>2, <2>4 DEF ReadBack
  <2>5. CASE Status(h)
    <3>1. \/ UNCHANGED run \/ NeedsAttention(r)
          \/ Set(r, run[r])
          \/ \E word \in {"waiting_for_trusted_approval", "waiting_for_job", "waiting_for_recovery"} :
               Set(r, word)
      BY <2>3, <2>5 DEF Status
    <3> QED BY <1>0, <2>2, <3>1
  <2>6. CASE Report(h)
    <3>1. review[r] \in {"pending", "waiting", "succeeded"} BY <2>2 DEF TypeOK
    <3>2. UNCHANGED run \/ Set(r, "waiting_for_user") \/ Set(r, run[r])
      BY <2>6, <3>1 DEF Report
    <3> QED BY <1>0, <2>2, <3>2
  <2>7. CASE Review(h)
    <3>1. review[r] \in {"waiting", "succeeded"}
      BY <2>2, <2>7 DEF Review, At, ReviewInv, TypeOK
    <3>2. UNCHANGED run \/ Set(r, "running")
      BY <2>7, <3>1 DEF Review
    <3> QED BY <1>0, <2>2, <3>2
  <2> QED BY <1>5, <2>4, <2>5, <2>6, <2>7
<1>6. ASSUME NEW h \in Handlers, Close(h) \/ Finish(h) \/ Asked(h) PROVE Goal
  <2> DEFINE r == task[h].run
  <2>1. task[h].at \in {"close", "finish", "asked"} BY <1>6 DEF Close, Finish, Asked, At
  <2>2. r \in Runs BY <1>2, <2>1 DEF Working
  <2>3. \/ UNCHANGED run
        \/ Set(r, "running") \/ Set(r, "waiting_for_trusted_approval")
        \/ (task[h].at = "close" \/ task[h].at = "finish") /\ Set(r, "succeeded")
    BY <1>6 DEF Close, Finish, Asked, At
  <2> QED BY <1>0, <2>2, <2>3
<1>7. ASSUME NEW r \in Runs,
             Start(r) \/ Submit(r) \/ Cancel(r) \/ ControlRevoked(r) \/ Decide(r) \/ JobMoves(r)
      PROVE  Goal
  <2>1. CASE Start(r)
    <3>1. Set(r, "running") \/ Set(r, run[r]) BY <2>1 DEF Start, Set
    <3> QED BY <1>0, <3>1
  <2>2. CASE Submit(r) \/ Decide(r) \/ JobMoves(r)
    BY <2>2 DEF Submit, Decide, JobMoves, dbVars
  <2>3. CASE Cancel(r) \/ ControlRevoked(r)
    BY <2>3 DEF ControlRevoked
  <2> QED BY <1>7, <2>1, <2>2, <2>3
<1>8. CASE (\E x \in Slots : Lapse(x)) \/ Withdraw \/ Crash \/ UNCHANGED vars
  BY <1>8 DEF Lapse, Withdraw, Crash, vars, dbVars
<1> QED
  <2> HIDE DEF Goal
  <2>1. UNCHANGED run => Goal BY DEF Goal
  <2> QED BY <2>1, <1>1, <1>3, <1>4, <1>5, <1>6, <1>7, <1>8 DEF Next, Step

\* A run ends succeeded only where it is closed or finished, and cancelled only
\* by cancel_run, which spares a write that is started.
LEMMA RunEnds ==
  ASSUME TypeOK, RunInv, ReviewInv, [Next]_vars, NEW r \in Runs
  PROVE  /\ run'[r] \in RunState
         /\ run'[r] = "succeeded" =>
              \/ run[r] = "succeeded"
              \/ \E h \in Handlers : task[h].at \in {"close", "finish"} /\ task[h].run = r
         /\ run'[r] = "cancelled" => run[r] = "cancelled" \/ ~WriteStarted(r)
<1> DEFINE Goal == /\ run'[r] \in RunState
                   /\ run'[r] = "succeeded" =>
                        \/ run[r] = "succeeded"
                        \/ \E h \in Handlers : task[h].at \in {"close", "finish"} /\ task[h].run = r
                   /\ run'[r] = "cancelled" => run[r] = "cancelled" \/ ~WriteStarted(r)
<1>g. SUFFICES Goal OBVIOUS
<1>0. /\ run \in [Runs -> RunState]
      /\ {"succeeded", "needs_attention", "waiting_for_recovery", "cancelled"} \subseteq RunState
  BY DEF TypeOK, RunState, RunOver, RunWaits
<1>1. CASE UNCHANGED run
  BY <1>0, <1>1
<1>2. ASSUME NEW q \in Runs, NeedsAttention(q) PROVE Goal
  BY <1>0, <1>2 DEF NeedsAttention
<1>3. ASSUME NEW q \in Runs, Cancel(q) PROVE Goal
  BY <1>0, <1>3 DEF Cancel, Set
<1>4. ASSUME NEW q \in Runs, NEW word \in RunState \ {"succeeded", "cancelled"}, Set(q, word) PROVE Goal
  BY <1>0, <1>4 DEF Set
<1>5. ASSUME NEW q \in Runs, Set(q, run[q]) PROVE Goal
  BY <1>0, <1>5 DEF Set
<1>6. ASSUME NEW h \in Handlers, task[h].at = "close" \/ task[h].at = "finish",
             Set(task[h].run, "succeeded")
      PROVE  Goal
  BY <1>0, <1>6 DEF Set
<1> QED
  <2> HIDE DEF Goal
  <2> QED BY <1>1, <1>2, <1>3, <1>4, <1>5, <1>6, RunSteps

-----------------------------------------------------------------------------
(* Type correctness. *)

LEMMA RunType ==
  ASSUME TypeOK, RunInv, ReviewInv, [Next]_vars
  PROVE  run' \in [Runs -> RunState]
<1>1. \A r \in Runs : run'[r] \in RunState BY RunEnds
<1>2. run' = [r \in Runs |-> run'[r]]
  BY RunSteps DEF TypeOK, NeedsAttention, Cancel, Set
<1> QED BY <1>1, <1>2

LEMMA ActType ==
  ASSUME TypeOK, RunInv, [Next]_vars
  PROVE  act' \in [Slots -> ActionState] /\ sent' \in [Runs -> Nat]
<1> DEFINE Goal == act' \in [Slots -> ActionState] /\ sent' \in [Runs -> Nat]
<1>g. SUFFICES Goal OBVIOUS
<1>1. CASE ActKept
  BY <1>1 DEF ActKept, TypeOK
<1>2. ASSUME NEW r, Cancelled(r) PROVE Goal
  BY <1>2 DEF Cancelled, Undispatched, TypeOK, ActionState
<1>3. ASSUME NEW x, Queued(x) PROVE Goal
  BY <1>3 DEF Queued, TypeOK, ActionState
<1>4. ASSUME NEW word \in ActionState, NEW x,
             UNCHANGED act \/ act' = [act EXCEPT ![x] = word]
      PROVE  act' \in [Slots -> ActionState]
  BY <1>4 DEF TypeOK
<1>5. ASSUME NEW h \in Handlers,
             Claim(h) \/ Begin(h) \/ Land(h) \/ ReadReturns(h) \/ CommitReturns(h)
      PROVE  Goal
  <2>1. \E x : \E word \in {"claimed", "failed", "started", "outcome_unknown", "completed"} :
          UNCHANGED act \/ act' = [act EXCEPT ![x] = word]
    BY <1>5 DEF Claim, Begin, Land, ReadReturns, CommitReturns
  <2>2. {"claimed", "failed", "started", "outcome_unknown", "completed"} \subseteq ActionState
    BY DEF ActionState
  <2>3. UNCHANGED sent \/ \E r : sent' = [sent EXCEPT ![r] = @ + 1]
    BY <1>5 DEF Claim, Begin, Land, ReadReturns, CommitReturns, worldVars
  <2>4. sent' \in [Runs -> Nat] BY <2>3 DEF TypeOK
  <2> QED BY <1>4, <2>1, <2>2, <2>4
<1>6. ASSUME NEW h \in Handlers, Reconcile(h) PROVE Goal
  BY <1>6 DEF Reconcile, TypeOK, ActionState, worldVars
<1> QED
  <2> HIDE DEF Goal
  <2> QED BY <1>1, <1>2, <1>3, <1>5, <1>6, ActSteps

LEMMA JobType ==
  ASSUME TypeOK, RunInv, [Next]_vars
  PROVE  /\ intent' \in [Runs -> {"none", "awaiting", "released", "closed"}]
         /\ job' \in [Runs -> {"none", "active", "unknown", "succeeded", "failed"}]
         /\ commit' \in [Runs -> {"pending", "running", "waiting", "succeeded"}]
<1> DEFINE Goal == /\ intent' \in [Runs -> {"none", "awaiting", "released", "closed"}]
                   /\ job' \in [Runs -> {"none", "active", "unknown", "succeeded", "failed"}]
                   /\ commit' \in [Runs -> {"pending", "running", "waiting", "succeeded"}]
<1>g. SUFFICES Goal OBVIOUS
<1>1. CASE UNCHANGED <<intent, job, commit>>
  BY <1>1 DEF TypeOK
<1>2. ASSUME NEW h \in Handlers, Land(h) PROVE Goal
  <2>1. /\ UNCHANGED <<job, commit>>
        /\ \/ UNCHANGED intent
           \/ \E r : intent' = [intent EXCEPT ![r] = IF @ = "none" THEN "awaiting" ELSE @]
    BY <1>2 DEF Land
  <2> QED BY <2>1 DEF TypeOK
<1>3. ASSUME NEW h \in Handlers, Commit(h) \/ CommitBack(h) \/ Status(h) PROVE Goal
  <2>1. task[h].run \in Runs BY <1>3 DEF Commit, CommitBack, Status, At, HasRun, Working, RunInv
  <2>2. CommitStatus(task[h].run) \in {"awaiting", "active", "unknown", "succeeded", "over"}
    BY DEF CommitStatus
  <2>3. /\ UNCHANGED <<intent, job>>
        /\ \/ UNCHANGED commit
           \/ \E word \in {"running", "waiting", "succeeded"} :
                commit' = [commit EXCEPT ![task[h].run] = word]
    BY <1>3, <2>1, <2>2 DEF Commit, CommitBack, Status, TypeOK, worldVars
  <2> QED BY <2>3 DEF TypeOK
<1>4. ASSUME NEW r \in Runs, Decide(r) \/ JobMoves(r) PROVE Goal
  BY <1>4 DEF Decide, JobMoves, TypeOK, dbVars
<1> QED
  <2> HIDE DEF Goal
  <2> QED BY <1>1, <1>2, <1>3, <1>4, JobSteps

\* The rest of the rows and of the process.
RestTypes ==
  /\ stepped \in [Runs -> Nat]
  /\ review \in [Runs -> {"pending", "waiting", "succeeded"}]
  /\ answered \subseteq Runs
  /\ lapsed \subseteq Slots
  /\ revoked \in BOOLEAN /\ serving \in BOOLEAN
  /\ cast \in [runs : SUBSET Runs, handlers : SUBSET Handlers]
  /\ restarts \in 0..MaxRestart

LEMMA RestType ==
  ASSUME TypeOK, RunInv, ReviewInv, [Next]_vars
  PROVE  RestTypes'
<1>0. RestTypes BY DEF TypeOK, RestTypes
<1>1. ASSUME NEW h \in Handlers,
             \/ Begin(h) \/ NextRun(h) \/ Resume(h) \/ NextRead(h) \/ Close(h) \/ Commit(h)
             \/ CommitBack(h) \/ Asked(h) \/ After(h) \/ AfterTail(h) \/ Status(h) \/ Finish(h)
             \/ BeginPass(h)
      PROVE  RestTypes'
  BY <1>0, <1>1 DEF Begin, NextRun, Resume, NextRead, Close, Commit, CommitBack, Asked, After,
     AfterTail, Status, Finish, BeginPass, RestTypes, dbVars, settings
<1>2. ASSUME NEW h \in Handlers,
             Claim(h) \/ Land(h) \/ Reconcile(h) \/ ReadReturns(h) \/ CommitReturns(h)
      PROVE  RestTypes'
  <2>1. lapsed' \subseteq lapsed
    BY <1>2 DEF Claim, Land, Reconcile, ReadReturns, CommitReturns
  <2>2. UNCHANGED <<stepped, review, answered, revoked, settings>>
    BY <1>2 DEF Claim, Land, Reconcile, ReadReturns, CommitReturns
  <2> QED BY <1>0, <2>1, <2>2 DEF RestTypes, settings
<1>3. ASSUME NEW h \in Handlers, ReadBack(h) PROVE RestTypes'
  <2>1. task[h].read \in Nat BY DEF TypeOK, Task
  <2>2. UNCHANGED stepped \/ \E r : \E i \in Nat : stepped' = [stepped EXCEPT ![r] = IF @ < i THEN i ELSE @]
    BY <1>3, <2>1 DEF ReadBack
  <2>3. UNCHANGED <<review, answered, lapsed, revoked, settings>> BY <1>3 DEF ReadBack
  <2> QED BY <1>0, <2>2, <2>3 DEF RestTypes, settings
<1>4. ASSUME NEW h \in Handlers, Report(h) \/ Review(h) PROVE RestTypes'
  <2>1. task[h].run \in Runs /\ (Review(h) => review[task[h].run] # "pending")
    BY <1>4 DEF Report, Review, At, HasRun, Working, RunInv, ReviewInv
  <2>2. UNCHANGED review \/ \E word \in {"waiting", "succeeded"} : review' = [review EXCEPT ![task[h].run] = word]
    BY <1>4, <2>1 DEF Report, Review, TypeOK
  <2>3. UNCHANGED <<stepped, answered, lapsed, revoked, settings>> BY <1>4 DEF Report, Review
  <2> QED BY <1>0, <2>2, <2>3 DEF RestTypes, settings
<1>5. ASSUME NEW h \in Handlers, EndPass(h) PROVE RestTypes'
  BY <1>0, <1>5 DEF EndPass, RestTypes, dbVars
<1>6. ASSUME NEW r \in Runs,
             Start(r) \/ Cancel(r) \/ ControlRevoked(r) \/ Decide(r) \/ JobMoves(r)
      PROVE  RestTypes'
  BY <1>0, <1>6 DEF Start, Cancel, ControlRevoked, Decide, JobMoves, RestTypes, dbVars,
     procVars, settings
<1>7. ASSUME NEW r \in Runs, Submit(r) PROVE RestTypes'
  BY <1>0, <1>7 DEF Submit, RestTypes, settings
<1>8. CASE (\E x \in Slots : Lapse(x)) \/ Withdraw \/ UNCHANGED vars
  BY <1>0, <1>8 DEF Lapse, Withdraw, vars, RestTypes, dbVars, procVars, settings
<1>9. CASE Crash
  <2>1. restarts' \in 0..MaxRestart BY <1>9, RunsAssumption DEF Crash, TypeOK
  <2> QED BY <1>0, <1>9, <2>1 DEF Crash, RestTypes, dbVars
<1> QED BY <1>1, <1>2, <1>3, <1>4, <1>5, <1>6, <1>7, <1>8, <1>9 DEF Next, Step

-----------------------------------------------------------------------------
(* The theorems. *)

LEMMA InitIInv ==
  ASSUME Init
  PROVE  IInv
<1>1. TypeOK
  <2>1. cast \in [runs : SUBSET Runs, handlers : SUBSET Handlers]
    BY HandlersAssumption DEF Init
  <2>2. task \in [Handlers -> Task] BY IdleTask DEF Init
  <2>3. restarts \in 0..MaxRestart BY RunsAssumption DEF Init
  <2>4. run \in [Runs -> RunState] /\ act \in [Slots -> ActionState]
    BY DEF Init, RunState, ActionState
  <2>5. RestTypes BY <2>1, <2>3 DEF Init, RestTypes
  <2> QED BY <2>2, <2>4, <2>5 DEF Init, TypeOK, RestTypes
<1>2. \A h \in Handlers : task[h] = Idle /\ Idle.at = "idle"
  BY DEF Init, Idle
<1>3. Alone /\ RunInv /\ ReviewInv /\ ClaimInv /\ FinishInv
  BY <1>2 DEF Init, Alone, Suspended, RunInv, HasRun, Working, ReviewInv, ClaimInv, FinishInv
<1>4. SentInv /\ JobInv /\ NeverRedispatched /\ SucceededMeansCommitted
  BY DEF Init, SentInv, JobInv, NeverRedispatched, SucceededMeansCommitted, Runs
<1> QED BY <1>1, <1>3, <1>4 DEF IInv

LEMMA NextIInv ==
  ASSUME IInv, [Next]_vars
  PROVE  IInv'
<1> USE DEF IInv
<1>1. task' \in [Handlers -> Task]
  BY Actors DEF Led, ClientCall, Restarted, vars, procVars, TypeOK
<1>2. TypeOK'
  BY <1>1, RunType, ActType, JobType, RestType DEF TypeOK, RestTypes
<1>3. Alone' /\ RunInv' /\ ReviewInv' /\ ClaimInv' /\ FinishInv'
  BY AloneStep, RunStep, ReviewStep, ClaimStep, FinishStep
<1>4. SentInv' /\ NeverRedispatched' /\ JobInv'
  BY SentStep, JobStep
<1>5. SucceededMeansCommitted'
  <2> SUFFICES ASSUME NEW r \in Writes, run'[r] = "succeeded"
               PROVE  job'[r] = "succeeded"
    BY DEF SucceededMeansCommitted
  <2>1. r \in Runs BY DEF Runs
  <2>2. job[r] = "succeeded"
    BY <2>1, RunEnds DEF SucceededMeansCommitted, FinishInv
  <2> QED BY <2>1, <2>2, JobStep
<1> QED BY <1>2, <1>3, <1>4, <1>5

\* The inductive invariant: what runs, actions, handlers and jobs agree on.
THEOREM InvariantWorkflow == Spec => []IInv
BY InitIInv, NextIInv, PTL DEF Spec

\* The variables keep their types in every behaviour.
THEOREM WorkflowTypes == Spec => []TypeOK
<1>1. IInv => TypeOK BY DEF IInv
<1> QED BY <1>1, InvariantWorkflow, PTL

\* A commit is dispatched at most once in the life of a run, over any number of
\* lapsed leases, passes and restarts (claim_action, mark_dispatch_started,
\* reclaim_expired_actions).
THEOREM DispatchedOnce == Spec => []NeverRedispatched
<1>1. IInv => NeverRedispatched BY DEF IInv
<1> QED BY <1>1, InvariantWorkflow, PTL

\* A run reports success only of a job that succeeded
\* (_reconcile_commit_status, _finish_write_after_commit).
THEOREM SuccessIsReal == Spec => []SucceededMeansCommitted
<1>1. IInv => SucceededMeansCommitted BY DEF IInv
<1> QED BY <1>1, InvariantWorkflow, PTL

\* A write whose dispatch is under way or lost is not cancelled (cancel_run).
THEOREM StartedWriteSpared == Spec => StartedWriteNotCancelled
<1>1. ASSUME IInv, [Next]_vars
      PROVE  [\A r \in Writes :
                act[<<r, "commit">>] \in {"started", "outcome_unknown"} /\ run'[r] = "cancelled" =>
                  run[r] = "cancelled"]_run
  <2>1. \A r \in Writes : r \in Runs BY DEF Runs
  <2> QED BY <1>1, <2>1, RunEnds DEF IInv, WriteStarted
<1> QED BY <1>1, InvariantWorkflow, PTL DEF Spec, StartedWriteNotCancelled

\* One event loop: no two handlers are at work at once, whatever a pass, a
\* client's call and the actions they wait for do.
THEOREM OneAtATime == Spec => []Alone
<1>1. IInv => Alone BY DEF IInv
<1> QED BY <1>1, InvariantWorkflow, PTL
=============================================================================
