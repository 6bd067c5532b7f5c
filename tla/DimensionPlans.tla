---------------------------- MODULE DimensionPlans ----------------------------
(***************************************************************************)
(* Dimension plans of the MCP server: DimensionPlanStore                   *)
(* (dimension_plans.py), the annotation tools that use it                  *)
(* (auto_dimension_tool.py, with the patches of phase1_dimension_perf.py   *)
(* and phase3_dimension_scope.py that every entry point installs), and     *)
(* the AutoLISP that draws a plan (auto_dimension.lsp).                    *)
(*                                                                         *)
(* A plan is a preview of dimensions for the geometry of a drawing; it is  *)
(* approved by committing it at the revision the caller saw.  Tool calls   *)
(* interleave wherever one waits for AutoCAD, and the user works on in     *)
(* AutoCAD all the time.  The geometry of a drawing is its version; what a *)
(* plan selects of it, and the dimensions made for it, are left out.       *)
(*                                                                         *)
(* The File IPC backend is the one modelled: with ezdxf a commit runs      *)
(* without a wait.  What happens to its requests is in module FileIpc; a   *)
(* trigger whose caller has gone does not start.                           *)
(***************************************************************************)
EXTENDS Naturals, FiniteSets

CONSTANTS
  PlanLimit,     \* max_plans
  LastPlan,      \* bound: plans ever made
  ToolCalls,     \* calls of the tools
  Drawings,      \* drawings open in AutoCAD
  LastRevision,   \* bound: revisions of a plan
  MaxUserSteps     \* bound: what the user does in AutoCAD

ASSUME DimensionPlansAssumption ==
  /\ PlanLimit \in Nat \ {0} /\ LastPlan \in Nat /\ LastRevision \in Nat \ {0}
  /\ MaxUserSteps \in Nat

VARIABLES
  plans,         \* [DimPlans -> the plan and the context it was made in]
  shown,         \* plans some caller was told the id of
  tools,         \* [ToolCalls -> what the call is doing]
  snapshot,      \* the geometry detect_parts keeps for a while, or NoGeometry
  current,       \* the active drawing
  shapes,        \* [Drawings -> the version of its geometry]
  inHand,        \* the plan AutoCAD was asked to draw, or NoWork
  reports,       \* [ToolCalls -> what AutoCAD reported, or NoReport]
  timesDrawn,    \* history: [DimPlans -> times it was drawn]
  unheard,       \* history: [DimPlans -> commits that ended without a report]
  drawnAs,       \* history: a plan, its revision when drawn, the one asked for
  changes        \* changes of the user so far

dimVars == <<plans, shown, tools, snapshot, current, shapes, inHand, reports, timesDrawn, unheard,
             drawnAs, changes>>
autocad == <<current, shapes, changes>>
drawnVars == <<timesDrawn, unheard, drawnAs>>

DimPlans == 1 .. LastPlan
NoGeometry == [of |-> "none"]
NoWork == [started |-> FALSE]
NoReport == "no report"
Geometries == [drawing : Drawings, shape : 0 .. MaxUserSteps]
NoPlan == [status |-> "none"]
NotCalled == [stage |-> "new"]
CallEnded == [stage |-> "over"]

DimTypeOK ==
  /\ \A p \in DimPlans : plans[p] \in
       {NoPlan} \cup [status : {"draft", "committing", "committed", "gone"},
                      revision : 1 .. LastRevision, drawing : Drawings, geometry : Geometries,
                      cached : BOOLEAN]
  /\ shown \subseteq DimPlans /\ snapshot \in {NoGeometry} \cup [of : Drawings, geometry : Geometries]
  /\ current \in Drawings /\ shapes \in [Drawings -> 0 .. MaxUserSteps] /\ changes \in 0 .. MaxUserSteps
  /\ \A c \in ToolCalls : tools[c].stage \in
       {"new", "collected", "checking", "locking", "locked", "drawing", "over"}
  /\ reports \in [ToolCalls -> {NoReport, "drawn", "undone"}]

DimInit ==
  /\ plans = [p \in DimPlans |-> NoPlan] /\ shown = {}
  /\ tools = [c \in ToolCalls |-> NotCalled]
  /\ snapshot = NoGeometry /\ inHand = NoWork
  /\ current \in Drawings /\ shapes = [d \in Drawings |-> 0] /\ changes = 0
  /\ reports = [c \in ToolCalls |-> NoReport]
  /\ timesDrawn = [p \in DimPlans |-> 0] /\ unheard = timesDrawn /\ drawnAs = {}

-----------------------------------------------------------------------------
(* What the tools read of AutoCAD.                                         *)

\* The export waits its turn behind a plan that is being drawn.
AutocadFree == inHand = NoWork

\* annotation-export-dimension-geometry: the active drawing as it is now.
Exported == [drawing |-> current, shape |-> shapes[current]]

At(c, stage) == tools[c].stage = stage
Goto(c, stage) == tools' = [tools EXCEPT ![c].stage = stage]
EndCall(c) == tools' = [tools EXCEPT ![c] = CallEnded]

-----------------------------------------------------------------------------
(* Making a plan.                                                          *)

\* collect_dimension_records_scoped, for detect_parts, plan_dimensions and
\* auto_dimension: an export, or for the last two the snapshot of this drawing.
Collect(c, tool, geometry, fromCache) ==
  /\ At(c, "new")
  /\ \/ fromCache /\ tool # "detect" /\ snapshot = [of |-> current, geometry |-> geometry]
     \/ ~fromCache /\ AutocadFree /\ geometry = Exported
  /\ tools' = [tools EXCEPT ![c] = [stage |-> "collected", tool |-> tool, geometry |-> geometry,
                                    cached |-> fromCache]]
  /\ UNCHANGED <<plans, shown, snapshot, autocad, inHand, reports, drawnVars>>

\* batch_create_dimensions brings its own geometry.
StartBatch(c) ==
  /\ At(c, "new")
  /\ tools' = [tools EXCEPT ![c] = [stage |-> "collected", tool |-> "batch",
                                    geometry |-> Exported, cached |-> FALSE]]
  /\ UNCHANGED <<plans, shown, snapshot, autocad, inHand, reports, drawnVars>>

Unused(p) == plans[p].status = "none" /\ \A q \in 1 .. p - 1 : plans[q].status # "none"
Slots == {p \in DimPlans : plans[p].status \in {"draft", "committing", "committed"}}
OldestCommitted(p) ==
  plans[p].status = "committed" /\ \A q \in 1 .. p - 1 : plans[q].status # "committed"
WithStatus(p, status) == [plans EXCEPT ![p].status = status]

MadeRoom == {plans} \cup {WithStatus(q, "gone") : q \in Slots}

\* DimensionPlanStore.create: the oldest committed plan makes room; with a plan
\* under way in every slot there is none.
Room(kept) ==
  \/ Cardinality(Slots) < PlanLimit /\ kept = plans
  \/ /\ Cardinality(Slots) = PlanLimit
     /\ \E q \in DimPlans : OldestCommitted(q) /\ kept = WithStatus(q, "gone")

\* create, and the context kept beside the plan: its drawing is the one active by
\* now.  plan_dimensions tells the id, if the preview can be drawn; the two other
\* tools go on to the commit, and auto_dimension checks a snapshot first.
CreatePlan(c, p) ==
  /\ At(c, "collected") /\ tools[c].tool # "detect" /\ Unused(p)
  /\ \E kept \in MadeRoom :
       /\ Room(kept)
       /\ plans' = [kept EXCEPT ![p] =
            [status |-> "draft", revision |-> 1, drawing |-> current,
             geometry |-> tools[c].geometry, cached |-> tools[c].cached]]
  /\ IF tools[c].tool = "plan"
     THEN EndCall(c) /\ shown' \in {shown, shown \cup {p}}
     ELSE /\ UNCHANGED shown
          /\ tools' = [tools EXCEPT ![c] =
               [stage |-> IF tools[c].cached THEN "checking" ELSE "locking",
                plan |-> p, asked |-> 1]]
  /\ UNCHANGED <<snapshot, autocad, inHand, reports, drawnVars>>

NoRoom(c) ==
  /\ At(c, "collected") /\ tools[c].tool # "detect"
  /\ ~\E kept \in MadeRoom : Room(kept)
  /\ EndCall(c)
  /\ UNCHANGED <<plans, shown, snapshot, autocad, inHand, reports, drawnVars>>

\* DimensionPlanStore.revise and discard: a draft the caller knows, and for a
\* revision the one it saw last.
Revise(p) ==
  /\ p \in shown /\ plans[p].status = "draft" /\ plans[p].revision < LastRevision
  /\ plans' = [plans EXCEPT ![p].revision = @ + 1]
  /\ UNCHANGED <<shown, tools, snapshot, autocad, inHand, reports, drawnVars>>

Discard(p) ==
  /\ p \in shown /\ plans[p].status = "draft"
  /\ plans' = WithStatus(p, "gone")
  /\ UNCHANGED <<shown, tools, snapshot, autocad, inHand, reports, drawnVars>>

\* _run_scoped_detect_parts, _store_geometry_snapshot and _prune_cache: filed under
\* the drawing that is active by now.
KeepSnapshot(c) ==
  /\ At(c, "collected") /\ tools[c].tool = "detect"
  /\ snapshot' = [of |-> current, geometry |-> tools[c].geometry]
  /\ EndCall(c)
  /\ UNCHANGED <<plans, shown, autocad, inHand, reports, drawnVars>>
SnapshotExpires ==
  /\ snapshot # NoGeometry /\ snapshot' = NoGeometry
  /\ UNCHANGED <<plans, shown, tools, autocad, inHand, reports, drawnVars>>

-----------------------------------------------------------------------------
(* Committing one.                                                         *)

\* commit_dimension_plan: the plan and revision are looked up before a draft is
\* checked, and only a draft is.
CallCommit(c, p, r) ==
  /\ At(c, "new") /\ p \in shown /\ plans[p].status # "gone" /\ plans[p].revision = r
  /\ tools' = [tools EXCEPT ![c] =
       [stage |-> IF plans[p].status = "draft" THEN "checking" ELSE "locking",
        plan |-> p, asked |-> r]]
  /\ UNCHANGED <<plans, shown, snapshot, autocad, inHand, reports, drawnVars>>

\* _validate_scoped_commit_context: the drawing is the active one, and exports what
\* was planned for.
Unchanged(plan) == current = plan.drawing /\ Exported = plan.geometry

CheckGeometry(c) ==
  /\ At(c, "checking") /\ AutocadFree
  /\ IF Unchanged(plans[tools[c].plan]) THEN Goto(c, "locking") ELSE EndCall(c)
  /\ UNCHANGED <<plans, shown, snapshot, autocad, inHand, reports, drawnVars>>

CommitLockFree == \A c \in ToolCalls : tools[c].stage \notin {"locked", "drawing"}

\* Mutant: a plan is looked up once, before the wait for the lock.
AsLookedUp(p, r) == plans[p].status = "draft"
\* Mutant: a plan that is done is drawn again.
OfThatRevision(p, r) == plans[p].revision = r /\ plans[p].status # "gone"

\* DimensionPlanStore.commit, under its lock: still there, of that revision, and a
\* draft.
ToDraw(p, r) == plans[p].revision = r /\ plans[p].status = "draft"

\* A plan committed meanwhile is answered with its first result.
TakeLock(c) ==
  /\ At(c, "locking") /\ CommitLockFree
  /\ LET p == tools[c].plan IN
       IF ToDraw(p, tools[c].asked) THEN plans' = WithStatus(p, "committing") /\ Goto(c, "locked")
       ELSE UNCHANGED plans /\ EndCall(c)
  /\ UNCHANGED <<shown, snapshot, autocad, inHand, reports, drawnVars>>

\* _commit_file_ipc: the plan is written to a file and the request routed to the
\* drawing that is active now.
SendPlan(c) ==
  /\ At(c, "locked") /\ AutocadFree
  /\ Goto(c, "drawing")
  /\ inHand' = [plan |-> tools[c].plan, call |-> c, revision |-> plans[tools[c].plan].revision,
             asked |-> tools[c].asked, drawing |-> current, started |-> FALSE]
  /\ UNCHANGED <<plans, shown, snapshot, autocad, reports, drawnVars>>

\* mcp-commit-dimension-plan-file reports: counted and committed, or put back.
HearReport(c) ==
  /\ At(c, "drawing") /\ reports[c] # NoReport
  /\ IF reports[c] = "drawn"
     THEN /\ plans' = WithStatus(tools[c].plan, "committed")
          /\ shown' = shown \cup {tools[c].plan}
     ELSE plans' = WithStatus(tools[c].plan, "draft") /\ UNCHANGED shown
  /\ EndCall(c)
  /\ reports' = [reports EXCEPT ![c] = NoReport]
  /\ UNCHANGED <<snapshot, autocad, inHand, drawnVars>>

\* The request is refused, times out, is cancelled, or ends with another drawing
\* active; its files are deleted.  The plan is a draft again.
CommitGivesUp(c) ==
  /\ tools[c].stage \in {"locked", "drawing"}
  /\ plans' = WithStatus(tools[c].plan, "draft")
  /\ unheard' = [unheard EXCEPT ![tools[c].plan] = @ + IF At(c, "drawing") THEN 1 ELSE 0]
  /\ inHand' = IF inHand # NoWork /\ ~inHand.started /\ inHand.call = c THEN NoWork ELSE inHand
  /\ EndCall(c)
  /\ reports' = [reports EXCEPT ![c] = NoReport]
  /\ UNCHANGED <<shown, snapshot, autocad, timesDrawn, drawnAs>>

-----------------------------------------------------------------------------
(* AutoCAD.                                                                *)

\* The trigger runs in its drawing, and the plan file is read.
StartDrawing ==
  /\ inHand # NoWork /\ ~inHand.started /\ inHand.drawing = current
  /\ inHand' = [inHand EXCEPT !.started = TRUE]
  /\ UNCHANGED <<plans, shown, tools, snapshot, autocad, reports, drawnVars>>

\* A caller that still waits gets the report.
Reported(word) ==
  /\ reports' = IF At(inHand.call, "drawing") /\ tools[inHand.call].plan = inHand.plan
                THEN [reports EXCEPT ![inHand.call] = word] ELSE reports
  /\ inHand' = NoWork
  /\ UNCHANGED <<plans, shown, tools, snapshot, autocad, unheard>>

\* mcp-ad-commit-instructions: every dimension of the plan was made.
DrawPlan ==
  /\ inHand.started
  /\ timesDrawn' = [timesDrawn EXCEPT ![inHand.plan] = @ + 1]
  /\ drawnAs' = drawnAs \cup {[plan |-> inHand.plan, revision |-> inHand.revision,
                               asked |-> inHand.asked]}
  /\ Reported("drawn")

\* An error or an instruction that failed undoes the group.
UndoPlan ==
  /\ inHand.started
  /\ Reported("undone") /\ UNCHANGED <<timesDrawn, drawnAs>>

UserChanges ==
  /\ ~inHand.started /\ changes < MaxUserSteps /\ changes' = changes + 1
  /\ \/ UNCHANGED shapes /\ current' \in Drawings \ {current}
     \/ UNCHANGED current /\ shapes' = [shapes EXCEPT ![current] = @ + 1]
  /\ UNCHANGED <<plans, shown, tools, snapshot, inHand, reports, drawnVars>>

-----------------------------------------------------------------------------
DimNext ==
  \/ \E c \in ToolCalls :
       \/ \E tool \in {"detect", "plan", "auto"}, fromCache \in BOOLEAN, g \in Geometries :
            Collect(c, tool, g, fromCache)
       \/ StartBatch(c) \/ KeepSnapshot(c) \/ NoRoom(c)
       \/ \E p \in DimPlans : CreatePlan(c, p) \/ \E r \in 1 .. LastRevision : CallCommit(c, p, r)
       \/ CheckGeometry(c) \/ TakeLock(c) \/ SendPlan(c) \/ HearReport(c) \/ CommitGivesUp(c)
  \/ \E p \in DimPlans : Revise(p) \/ Discard(p)
  \/ SnapshotExpires
  \/ StartDrawing \/ DrawPlan \/ UndoPlan \/ UserChanges

DimSpec == DimInit /\ [][DimNext]_dimVars

-----------------------------------------------------------------------------
\* A plan is drawn a second time only after a commit of it that ended without
\* AutoCAD's report: commits of one plan that wait for each other, and a plan
\* committed already, draw nothing (DimensionPlanStore.commit).
DrawnAgainOnlyAfterSilence == \A p \in DimPlans : timesDrawn[p] <= 1 + unheard[p]

\* What is drawn is the plan at the revision its caller named, whoever revised it
\* while the caller's check of the drawing or its wait for the lock went on, and a
\* plan said to be committed stays what was drawn (commit_dimension_plan, revise).
DrawnAsApproved ==
  /\ \A d \in drawnAs : d.revision = d.asked
  /\ \A p \in DimPlans : plans[p].status = "committed" =>
       \E d \in drawnAs : d.plan = p /\ d.revision = plans[p].revision
=============================================================================
