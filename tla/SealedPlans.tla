----------------------------- MODULE SealedPlans -----------------------------
(***************************************************************************)
(* The gate of Phase 8: revisions of one program, the plan sealed for each *)
(* of them, and what must still hold of a plan when it is previewed,       *)
(* committed, released and carried out.                                    *)
(*                                                                         *)
(* A plan is sealed for a revision of the drawing, a build of the Managed  *)
(* Host and a rollout policy; it needs a pack of operations, and server    *)
(* evidence that the build supports it.  All of these change behind its    *)
(* back: the drawing is edited, AutoCAD is upgraded or its packs switched  *)
(* off, the Gateway restarts under another policy, evidence lapses, a      *)
(* preview's time passes, and the program itself is revised.               *)
(*                                                                         *)
(* Consents are Approval's subject, the delivery of a job JobDelivery's;   *)
(* here an intent is approved in one step and a job goes out in one.       *)
(***************************************************************************)
EXTENDS Naturals, Sequences

CONSTANTS
  Builds,          \* builds of the Managed Host
  Packs,           \* packs of operations (create, transform)
  MaxLineage,      \* bound: revisions of the program
  MaxEpoch,        \* bound: rollout policies
  MaxUpsets        \* bound: changes behind the back of a plan

ASSUME SealedPlansAssumption ==
  Builds # {} /\ MaxLineage \in Nat /\ MaxEpoch \in Nat \ {0} /\ MaxUpsets \in Nat

VARIABLES
  rollout,         \* the Gateway's policy: its epoch and the packs it enables
  runtime,         \* the build that runs, and the packs enabled in Agent and Host
  drawn,           \* the revision of the drawing
  heard,           \* what the session last reported: build and revision
  certified,       \* certified[b]: the evidence on record for a build
  lineage,         \* rows of phase8_program_revisions with their plans
  tasks,           \* previews, intents and the jobs released for them
  upsets           \* such changes so far

sealedVars == <<rollout, runtime, drawn, heard, certified, lineage, tasks, upsets>>

Supports == {"preview_only", "lab_commit", "certified"}
\* _SUPPORT_RANK, SupportRank.
SupportRank(support) ==
  CASE support = "preview_only" -> 2 [] support = "lab_commit" -> 3 [] OTHER -> 4
\* What a build reports of itself (Phase8CapabilityStates).
SelfReport == "lab_commit"
Unsupported == [support |-> "none"]
Unsealed == 0
NotRun == [unrun |-> TRUE]
Root == 0

RevisionIds == 1 .. Len(lineage)
Tasks == 1 .. Len(tasks)

PlansTypeOK ==
  /\ rollout.epoch \in 1 .. MaxEpoch /\ rollout.packs \subseteq Packs
  /\ runtime.build \in Builds /\ runtime.packs \subseteq Packs
  /\ drawn \in Nat /\ upsets \in 0 .. MaxUpsets
  /\ heard.build \in Builds /\ heard.revision \in 0 .. drawn
  /\ \A b \in Builds : certified[b].support \in Supports \cup {"none"}
  /\ Len(lineage) <= MaxLineage
  /\ \A r \in RevisionIds :
       /\ lineage[r].parent \in 0 .. r - 1 /\ lineage[r].base \in 0 .. drawn
       /\ lineage[r].build \in Builds /\ lineage[r].pack \in Packs
       /\ lineage[r].epoch \in 0 .. MaxEpoch /\ lineage[r].open \in BOOLEAN
  /\ \A t \in Tasks :
       /\ tasks[t].plan \in RevisionIds /\ tasks[t].of \in 0 .. t - 1
       /\ tasks[t].at \in {"awaiting", "approved", "queued", "sent", "ran", "refused"}
       /\ tasks[t].told \in {"none", "succeeded", "failed"}

FirstBuild == CHOOSE b \in Builds : TRUE

PlansInit ==
  /\ rollout = [epoch |-> 1, packs |-> Packs]
  /\ runtime = [build |-> FirstBuild, packs |-> Packs]
  /\ heard = [build |-> FirstBuild, revision |-> 0]
  /\ drawn = 0 /\ upsets = 0
  /\ \E support \in Supports : certified = [b \in Builds |-> [support |-> support]]
  /\ lineage = <<>> /\ tasks = <<>>

-----------------------------------------------------------------------------
(* What changes behind a plan's back.                                      *)

Upset == upsets < MaxUpsets /\ upsets' = upsets + 1

\* The user draws.
EditByHand ==
  /\ Upset /\ drawn' = drawn + 1
  /\ UNCHANGED <<rollout, runtime, heard, certified, lineage, tasks>>

\* A heartbeat, or the session of another AutoCAD.
Report ==
  /\ heard' = [build |-> runtime.build, revision |-> drawn]
  /\ UNCHANGED <<rollout, runtime, drawn, certified, lineage, tasks, upsets>>

\* AutoCAD and the Agent start again: another build, or other packs.
ReplaceRuntime ==
  /\ Upset
  /\ \E b \in Builds, packs \in SUBSET Packs : runtime' = [build |-> b, packs |-> packs]
  /\ UNCHANGED <<rollout, drawn, heard, certified, lineage, tasks>>

\* Phase8FeatureFlags: the Gateway starts again under another policy.
ChangePolicy ==
  /\ Upset /\ rollout.epoch < MaxEpoch
  /\ \E packs \in SUBSET Packs : rollout' = [epoch |-> rollout.epoch + 1, packs |-> packs]
  /\ UNCHANGED <<runtime, drawn, heard, certified, lineage, tasks>>

\* record_capability_evidence, by whoever certifies builds.
Certify(b, support) ==
  /\ Upset /\ support # certified[b].support
  /\ certified' = [certified EXCEPT ![b] = [support |-> support]]
  /\ UNCHANGED <<rollout, runtime, drawn, heard, lineage, tasks>>

\* valid_until passes, of the evidence on record and of what commands carry of it.
LapseEvidence(b) ==
  /\ Upset /\ certified[b] # Unsupported
  /\ certified' = [certified EXCEPT ![b] = Unsupported]
  /\ tasks' = [t \in Tasks |-> IF lineage[tasks[t].plan].build = b
                               THEN [tasks[t] EXCEPT !.stale = TRUE] ELSE tasks[t]]
  /\ UNCHANGED <<rollout, runtime, drawn, heard, lineage>>

-----------------------------------------------------------------------------
(* RevisionIds and their plans.                                              *)

\* create_revision: the next row of the program.
Revised(parent, base, epoch, open, pack, build) ==
  Append(lineage, [parent |-> parent, base |-> base, epoch |-> epoch, open |-> open,
                   pack |-> pack, build |-> build, released |-> FALSE])

\* canonical_rollout_policy_digest: the policy a plan is sealed under.
PolicyDigest == rollout.epoch

\* prepare_root: the revision, then in a transaction of its own the plan.  A stop
\* between the two leaves a revision without plan.
PrepareRoot ==
  /\ lineage = <<>>
  /\ \E pack \in Packs, epoch \in {Unsealed, PolicyDigest} :
       lineage' = Revised(Root, heard.revision, epoch, FALSE, pack, heard.build)
  /\ UNCHANGED <<rollout, runtime, drawn, heard, certified, tasks, upsets>>

\* The same request again: its revision is found, and is sealed now.
PrepareRootAgain ==
  /\ lineage # <<>> /\ lineage[1].epoch = Unsealed
  /\ heard.revision = lineage[1].base /\ heard.build = lineage[1].build
  /\ lineage' = [lineage EXCEPT ![1].epoch = PolicyDigest]
  /\ UNCHANGED <<rollout, runtime, drawn, heard, certified, tasks, upsets>>

\* require_revision_revisable.
Revisable(r) == r \in RevisionIds /\ ~lineage[r].released

\* next_revision: only the latest revision is revised.
Latest(r) == r = Len(lineage) /\ r < MaxLineage

\* What becomes of the new revision: a plan, a report of conflicts that nobody
\* closes, or, when the Gateway stops, neither.
Revisings == {[epoch |-> PolicyDigest, open |-> FALSE], [epoch |-> Unsealed, open |-> TRUE],
              [epoch |-> Unsealed, open |-> FALSE]}

\* patch: for the drawing as the parent saw it.
Patch(r) ==
  /\ Revisable(r) /\ Latest(r)
  /\ \E o \in Revisings :
       lineage' = Revised(r, lineage[r].base, o.epoch, o.open,
                          lineage[r].pack, lineage[r].build)
  /\ UNCHANGED <<rollout, runtime, drawn, heard, certified, tasks, upsets>>

\* rebase: for the drawing as a later snapshot saw it.
Rebase(r) ==
  /\ Revisable(r) /\ Latest(r)
  /\ \E o \in Revisings :
       lineage' = Revised(r, heard.revision, o.epoch, o.open,
                          lineage[r].pack, lineage[r].build)
  /\ UNCHANGED <<rollout, runtime, drawn, heard, certified, tasks, upsets>>

-----------------------------------------------------------------------------
(* Admission by the Gateway.                                               *)

\* _phase8_current_binding: by what the session reported.
CurrentBinding(r) == heard.revision = lineage[r].base /\ heard.build = lineage[r].build

\* The policy it was sealed under is still the policy, and enables its pack.
PolicyHolds(r) == lineage[r].epoch = PolicyDigest /\ lineage[r].pack \in rollout.packs

\* matching_capability_evidence: on record, not lapsed, of the support needed.
Needed(kind) == IF kind = "commit" THEN "lab_commit" ELSE "preview_only"
Enough(support, kind) == SupportRank(support) >= SupportRank(Needed(kind))
Evidenced(b, kind) == certified[b] # Unsupported /\ Enough(certified[b].support, kind)

\* Mutant: the policy was looked at when the plan was previewed.
AdmitOnce(r, kind) ==
  /\ r \in RevisionIds /\ lineage[r].epoch # Unsealed
  /\ CurrentBinding(r) /\ Evidenced(lineage[r].build, kind)
  /\ kind = "preview" => PolicyHolds(r)

\* admit.
Admit(r, kind) ==
  /\ r \in RevisionIds /\ lineage[r].epoch # Unsealed
  /\ CurrentBinding(r) /\ PolicyHolds(r) /\ Evidenced(lineage[r].build, kind)

Task(kind, r, of, at) ==
  [kind |-> kind, plan |-> r, of |-> of, at |-> at, told |-> "none", stale |-> FALSE,
   support |-> IF at = "queued" THEN certified[lineage[r].build].support ELSE "none",
   epoch |-> PolicyDigest, overdue |-> FALSE, ran |-> NotRun]

\* preview_program: one preview a plan.
AskPreview(r) ==
  /\ Admit(r, "preview")
  /\ \A t \in Tasks : tasks[t].plan # r
  /\ tasks' = Append(tasks, Task("preview", r, 0, "queued"))
  /\ UNCHANGED <<rollout, runtime, drawn, heard, certified, lineage, upsets>>

\* _phase8_preview_result.
PreviewResult(p) == p \in Tasks /\ tasks[p].kind = "preview" /\ tasks[p].told = "succeeded"

\* commit_program, bind_intent and bind_consent: one intent a plan.
AskCommit(p) ==
  /\ PreviewResult(p) /\ Admit(tasks[p].plan, "commit")
  /\ \A t \in Tasks : tasks[t].kind = "commit" => tasks[t].plan # tasks[p].plan
  /\ tasks' = Append(tasks, Task("commit", tasks[p].plan, p, "awaiting"))
  /\ UNCHANGED <<rollout, runtime, drawn, heard, certified, lineage, upsets>>

\* _phase8_approved_consent: the operator has consented.
Consented(c) ==
  /\ c \in Tasks /\ tasks[c].at = "awaiting"
  /\ tasks' = [tasks EXCEPT ![c].at = "approved"]
  /\ UNCHANGED <<rollout, runtime, drawn, heard, certified, lineage, upsets>>

\* A write of the document that is not over holds its lock.
DrawingUnlocked == \A t \in Tasks : tasks[t].at \notin {"queued", "sent"}

\* _record_phase8_release_usage.
Released(r) == [lineage EXCEPT ![r].released = TRUE]

\* _phase8_commit_payload_provider: everything again, then job and usage together.
ReleasePlan(c) ==
  /\ c \in Tasks /\ tasks[c].at = "approved" /\ DrawingUnlocked
  /\ Admit(tasks[c].plan, "commit")
  /\ tasks' = [tasks EXCEPT ![c].at = "queued", ![c].stale = FALSE, ![c].epoch = PolicyDigest,
                            ![c].support = certified[lineage[tasks[c].plan].build].support]
  /\ lineage' = Released(tasks[c].plan)
  /\ UNCHANGED <<rollout, runtime, drawn, heard, certified, upsets>>

\* _program_dispatch_failure: what the session reports of the build; neither the
\* policy nor the evidence again.
SendTask(t) ==
  /\ t \in Tasks /\ tasks[t].at = "queued" /\ heard.build = lineage[tasks[t].plan].build
  /\ tasks' = [tasks EXCEPT ![t].at = "sent"]
  /\ UNCHANGED <<rollout, runtime, drawn, heard, certified, lineage, upsets>>

-----------------------------------------------------------------------------
(* Agent and Host.                                                         *)

\* expires_at of a preview passes.
PreviewLapses(p) ==
  /\ Upset /\ p \in Tasks /\ tasks[p].kind = "preview" /\ ~tasks[p].overdue
  /\ tasks' = [tasks EXCEPT ![p].overdue = TRUE]
  /\ UNCHANGED <<rollout, runtime, drawn, heard, certified, lineage>>

\* _effective_capabilities: the lower of what the build says and the server certified.
Effective(t) == IF SupportRank(tasks[t].support) < SupportRank(SelfReport)
                THEN tasks[t].support ELSE SelfReport

\* select_write_runtime and _verify_effect_boundary.
AgentFits(t) ==
  runtime.build = lineage[tasks[t].plan].build /\ lineage[tasks[t].plan].pack \in runtime.packs

\* _verify_evidence.
EvidenceHolds(t) == ~tasks[t].stale /\ Enough(Effective(t), tasks[t].kind)

\* _verify_approval.
ApprovalHolds(c) == tasks[c].kind = "commit" => ~tasks[tasks[c].of].overdue

\* AssertRuntime and AssertPins.
HostFits(t) == runtime.build = lineage[tasks[t].plan].build

\* AssertAllowed: the pack.
HostAllows(t) == lineage[tasks[t].plan].pack \in runtime.packs

\* ParseCapabilityEvidence: by the server's word alone.
HostEvidence(t) == ~tasks[t].stale /\ Enough(tasks[t].support, tasks[t].kind)

\* _validate_document_binding and AssertRevision: the revision of the drawing itself.
RevisionIs(t) == drawn = lineage[tasks[t].plan].base

\* verify and Parse, one after the other.
Executable(t) ==
  /\ t \in Tasks /\ tasks[t].at = "sent"
  /\ AgentFits(t) /\ EvidenceHolds(t) /\ ApprovalHolds(t)
  /\ HostFits(t) /\ HostAllows(t) /\ HostEvidence(t) /\ RevisionIs(t)

\* _effect_identity and EffectIdentityDigest: each hashes the support it goes by.
AgentIdentity(c) == [plan |-> tasks[c].plan, support |-> Effective(c)]
HostIdentity(c) == [plan |-> tasks[c].plan, support |-> tasks[c].support]

\* verify_result: another identity is a failure, like one found before the Host acted.
VerifyResult(t) ==
  IF tasks[t].kind = "commit" /\ AgentIdentity(t) # HostIdentity(t) THEN "failed" ELSE "succeeded"

\* _execute_host: a preview is undone, a commit changes the drawing.
ExecuteTask(t) ==
  /\ Executable(t)
  /\ drawn' = IF tasks[t].kind = "commit" THEN drawn + 1 ELSE drawn
  /\ tasks' = [tasks EXCEPT ![t].at = "ran", ![t].told = VerifyResult(t),
                            ![t].ran = [revision |-> drawn, build |-> runtime.build]]
  /\ UNCHANGED <<rollout, runtime, heard, certified, lineage, upsets>>

\* Any check that fails, of the Gateway at dispatch, the Agent or the Host.
RefuseTask(t) ==
  /\ t \in Tasks /\ tasks[t].at \in {"queued", "sent"}
  /\ tasks' = [tasks EXCEPT ![t].at = "refused", ![t].told = "failed"]
  /\ UNCHANGED <<rollout, runtime, drawn, heard, certified, lineage, upsets>>

-----------------------------------------------------------------------------
PlansNext ==
  \/ EditByHand \/ Report \/ ReplaceRuntime \/ ChangePolicy
  \/ \E b \in Builds : LapseEvidence(b) \/ \E support \in Supports : Certify(b, support)
  \/ PrepareRoot \/ PrepareRootAgain
  \/ \E r \in RevisionIds : Patch(r) \/ Rebase(r) \/ AskPreview(r)
  \/ \E t \in Tasks : \/ AskCommit(t) \/ Consented(t) \/ ReleasePlan(t) \/ SendTask(t)
                      \/ PreviewLapses(t) \/ ExecuteTask(t) \/ RefuseTask(t)

PlansSpec == PlansInit /\ [][PlansNext]_sealedVars
-----------------------------------------------------------------------------
CommitsRun == {t \in Tasks : tasks[t].kind = "commit" /\ tasks[t].at = "ran"}

\* A plan changes the drawing only as it was sealed, previewed and released: on the
\* revision and the build of both, and released under the policy it was sealed under,
\* whatever was edited, upgraded, reconfigured or revised in between (admit,
\* _phase8_commit_payload_provider, verify, Parse).
CommittedAsSealed ==
  \A c \in CommitsRun :
    LET sealed == lineage[tasks[c].plan]
        preview == tasks[tasks[c].of]
    IN /\ \A run \in {tasks[c].ran, preview.ran} :
            run.revision = sealed.base /\ run.build = sealed.build
       /\ preview.plan = tasks[c].plan /\ tasks[c].epoch = sealed.epoch

\* A commit that was started and whose receipt was not accepted is not reported as
\* failed: it may have changed the drawing (verify_result).
FailedLeftDrawing ==
  \A c \in Tasks : tasks[c].told = "failed" => tasks[c].at # "ran"
=============================================================================
