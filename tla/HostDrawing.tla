----------------------------- MODULE HostDrawing -----------------------------
(***************************************************************************)
(* One drawing under the Managed Host: what the host's drawing operations  *)
(* do to it, and the evidence they leave inside it.                        *)
(*                                                                         *)
(* A commit writes its effect, a receipt and a rollback checkpoint in one  *)
(* AutoCAD transaction; all three belong to the drawing, are saved with it *)
(* and are lost with what is not saved.  What ties a preview to its commit,*)
(* and a commit to its rollback, is the drawing's revision: a number that  *)
(* every change raises, restored from a file beside the drawing when the   *)
(* saved drawing is opened again, and drawn anew when that file does not   *)
(* fit.  Previews and rollback plans live in the host's memory.            *)
(*                                                                         *)
(* One plan is followed, of one of four families: a CAD program of version *)
(* 0.2, a Phase 8 plan that creates entities, one that copies entities of  *)
(* the drawing, and one that changes them.  The first two may ensure a     *)
(* layer, which their commit makes unless it is there, and which no        *)
(* rollback takes out again; a plan that ensures none is one whose layer   *)
(* is there from the start.  What other plans and the operator do to the   *)
(* drawing are edits to it.                                                *)
(***************************************************************************)
EXTENDS Naturals

CONSTANTS
  Edits,         \* what the operator, or another plan, may draw
  MaxChanges,    \* bound: changes of the drawing in one sitting of it
  MaxSeeds       \* bound: revisions drawn anew

ASSUME DrawingAssumption == MaxChanges \in Nat /\ MaxSeeds \in Nat \ {0}

VARIABLES
  family,        \* the plan's: "program", "create", "copy" or "change"
  content,       \* the drawing in memory, the saved one while it is closed
  saved,         \* the drawing on disk
  drawingOpen,   \* whether the drawing is open
  drawingAt,     \* its revision: DocumentRevisionState
  sidecar,       \* the revision recorded for the saved drawing, or Nothing
  seeds,         \* revisions drawn anew so far
  asked,         \* what the Gateway holds of the plan's last preview, or Nothing
  remembered,    \* whether the host holds that preview
  rollback,      \* the rollback plan the host holds, or Nothing
  orphaned       \* history: whether unsaved work was given up since the preview

drawingVars == <<family, content, saved, drawingOpen, drawingAt, sidecar, seeds, asked,
                 remembered, rollback, orphaned>>
hostMemory == <<remembered, rollback>>
onDisk == <<saved, sidecar>>

Nothing == [nothing |-> TRUE]
Families == {"program", "create", "copy", "change"}

\* The families of plans that may hold an ensure_layer operation.
Creating == {"program", "create"}

\* A revision is a seed, random in the code, and the changes since.
Seeded(seed) == [seed |-> seed, n |-> 0]
Revisions == [seed : 1 .. MaxSeeds, n : 0 .. MaxChanges]
IncrementRevision(r) == [r EXCEPT !.n = @ + 1]

\* The fingerprint of the plan's entities: as they were, as its commit left them,
\* or otherwise.
Fingerprints == {"base", "effect", "other"}

\* What can be seen of a drawing, as opposed to the ledgers inside it.
Visible(c) == [drawn |-> c.drawn, shape |-> c.shape, layer |-> c.layer]

DrawingTypeOK ==
  /\ family \in Families
  /\ \A c \in {content, saved} :
       /\ c.drawn \subseteq Edits /\ c.shape \in Fingerprints /\ c.layer \in BOOLEAN
       /\ c.receipt # Nothing => c.receipt.after \in Revisions
       /\ c.undone \in BOOLEAN
  /\ drawingOpen \in BOOLEAN /\ remembered \in BOOLEAN /\ orphaned \in BOOLEAN
  /\ drawingAt \in Revisions /\ sidecar \in Revisions \cup {Nothing}
  /\ seeds \in 1 .. MaxSeeds
  /\ asked # Nothing => asked.rev \in Revisions
  /\ rollback # Nothing => rollback.rev \in Revisions

DrawingInit ==
  /\ family \in Families
  /\ \E layer \in BOOLEAN :
       /\ family \notin Creating => ~layer
       /\ content = [drawn |-> {}, shape |-> "base", layer |-> layer, receipt |-> Nothing,
                     undone |-> FALSE]
  /\ saved = content
  /\ drawingOpen = TRUE /\ drawingAt = Seeded(1) /\ sidecar = Nothing /\ seeds = 1
  /\ asked = Nothing /\ remembered = FALSE /\ rollback = Nothing /\ orphaned = FALSE

-----------------------------------------------------------------------------
(* The commit.                                                             *)

\* EnsureLayer, of a drawing or of what can be seen of one.
Ensured(c) == IF family \in Creating THEN [c EXCEPT !.layer = TRUE] ELSE c

\* Apply, in a transaction.
Applied(c) == Ensured([c EXCEPT !.shape = "effect"])

\* A preview is applied in a transaction that is aborted, at the revision asked for.
Previewed(kept) ==
  /\ drawingOpen /\ content.receipt = Nothing
  /\ asked' = [rev |-> drawingAt, saw |-> Visible(content)]
  /\ remembered' = kept
  /\ orphaned' = FALSE
  /\ UNCHANGED <<family, content, drawingOpen, drawingAt, seeds, onDisk, rollback>>

\* Preview: the host keeps a program's preview, and repeats a Phase 8 plan's.
PreviewProgram == family = "program" /\ Previewed(TRUE)
PreviewCreate == family = "create" /\ Previewed(FALSE)
PreviewManaged == family \in {"copy", "change"} /\ Previewed(FALSE)

\* CadPreviewLedger: the preview expires, or makes room for a later one.
Forget ==
  /\ remembered /\ remembered' = FALSE
  /\ UNCHANGED <<family, content, drawingOpen, drawingAt, seeds, asked, onDisk, rollback, orphaned>>

\* Mutant: the revision is not compared.
AtAnyRevision == TRUE

\* AssertRevision, before the transaction opens.
AtItsRevision == drawingAt = asked.rev

\* What the commit leaves: the effect, the receipt and the checkpoint, together.
\* "saw", "plan" and "orphan" are history.
Written ==
  [Applied(content) EXCEPT
     !.receipt = [after |-> IncrementRevision(drawingAt), saw |-> Visible(content),
                  plan |-> asked.saw, orphan |-> orphaned]]

\* The end of every commit: one transaction, then the revision.  One that finds
\* its receipt answers with it and changes nothing, as does one that is refused
\* (its ledger full, AutoCAD in a command, the deadline past).
Committed ==
  /\ drawingOpen /\ asked # Nothing /\ content.receipt = Nothing
  /\ AtItsRevision /\ drawingAt.n < MaxChanges
  /\ content' = Written
  /\ drawingAt' = IncrementRevision(drawingAt)
  /\ UNCHANGED <<family, drawingOpen, seeds, asked, onDisk, hostMemory, orphaned>>

\* Commit of a program needs its preview on record.
CommitProgram == family = "program" /\ remembered /\ Committed

\* Commit of a plan that creates makes its preview again and compares its digest,
\* in which there is nothing of the drawing.
CommitCreate == family = "create" /\ Committed

\* RequireEntity: the plan's targets are what they were when it was sealed.
TargetsAsSealed == asked # Nothing /\ content.shape = asked.saw.shape

\* CommitManaged: the preview made again must find its targets.
CommitManaged == family \in {"copy", "change"} /\ TargetsAsSealed /\ Committed

-----------------------------------------------------------------------------
(* The rollback.                                                           *)

\* InspectRollbackEntity, RequireExactCreatedEntity, Validate: every entity is
\* there, with the fingerprint the commit recorded.
EntitiesAsLeft == content.shape = "effect"

\* The drawing is at the revision the commit left it at.
AtCheckpoint == content.receipt # Nothing /\ content.receipt.after = drawingAt

PlannedRollback(verdict) ==
  /\ drawingOpen
  /\ rollback' = [rev |-> drawingAt, checkpoint |-> content.receipt, eligible |-> verdict]
  /\ UNCHANGED <<family, content, drawingOpen, drawingAt, seeds, asked, onDisk, remembered, orphaned>>

\* PreviewRollback: a program's plan is kept with its verdict, a Phase 8 plan is
\* kept only if the verdict is good.
PreviewRollbackProgram ==
  family = "program" /\ PlannedRollback(AtCheckpoint /\ EntitiesAsLeft)
PreviewRollbackCreate ==
  family = "create" /\ AtCheckpoint /\ EntitiesAsLeft /\ PlannedRollback(TRUE)
PreviewRollbackManaged ==
  family \in {"copy", "change"} /\ AtCheckpoint /\ EntitiesAsLeft /\ PlannedRollback(TRUE)

\* Restore puts the recorded pre-image back; the other rollbacks erase the entities
\* that the checkpoint names, and leave a layer that the commit made.
Restored(c) ==
  [c EXCEPT !.shape = IF family = "change" THEN c.receipt.saw.shape ELSE "base",
            !.undone = TRUE]

\* The end of every rollback: the entities and the rollback receipt in one
\* transaction, then the revision.  The commit's receipt and checkpoint stay.
RolledBack ==
  /\ drawingOpen /\ rollback # Nothing /\ rollback.eligible
  /\ content.receipt = rollback.checkpoint /\ ~content.undone
  /\ EntitiesAsLeft /\ drawingAt.n < MaxChanges
  /\ content' = Restored(content)
  /\ drawingAt' = IncrementRevision(drawingAt)
  /\ UNCHANGED <<family, drawingOpen, seeds, asked, onDisk, hostMemory, orphaned>>

\* CommitRollback of a program: at the revision of its plan, and its checkpoint's.
CommitRollbackProgram ==
  family = "program" /\ rollback # Nothing /\ rollback.rev = drawingAt /\ AtCheckpoint /\ RolledBack

\* CommitRollback of a plan that creates: at the revision of its plan.
CommitRollbackCreate ==
  family = "create" /\ rollback # Nothing /\ rollback.rev = drawingAt /\ RolledBack

\* Mutant: a plan once found clean needs only its entities.
OnceClean == TRUE

\* CommitManagedRollback does not look at the plan's revision again; Restore and
\* RollbackCreatedOutputs look at the checkpoint's.
ManagedClean == AtCheckpoint
CommitRollbackManaged == family \in {"copy", "change"} /\ ManagedClean /\ RolledBack

\* ValidateRollback: what it answers about the rollback receipt.
RollbackValid(c) ==
  c.shape = IF family = "change" THEN c.receipt.saw.shape ELSE "base"

-----------------------------------------------------------------------------
(* The operator and AutoCAD.                                               *)

\* RecordObject: a change of an entity or a layer raises the revision.
Change(c) ==
  /\ drawingOpen /\ drawingAt.n < MaxChanges
  /\ content' = c
  /\ drawingAt' = IncrementRevision(drawingAt)
  /\ UNCHANGED <<family, drawingOpen, seeds, asked, onDisk, hostMemory, orphaned>>

Draw(e) == e \notin content.drawn /\ Change([content EXCEPT !.drawn = @ \cup {e}])

\* The operator changes the plan's entities.
Alter ==
  /\ family = "change" \/ content.shape = "effect"
  /\ content.shape # "other"
  /\ Change([content EXCEPT !.shape = "other"])

\* The operator or another plan makes the layer; the operator takes it out again,
\* which AutoCAD allows while nothing is on it.
MakeLayer ==
  /\ family \in Creating /\ ~content.layer
  /\ Change([content EXCEPT !.layer = TRUE])
PurgeLayer ==
  /\ family \in Creating /\ content.layer /\ content.shape # "effect"
  /\ Change([content EXCEPT !.layer = FALSE])

\* Persist: the revision goes beside the saved drawing, unless writing it fails.
SaveDrawing ==
  /\ drawingOpen
  /\ saved' = content
  /\ sidecar' \in {drawingAt, Nothing}
  /\ UNCHANGED <<family, content, drawingOpen, drawingAt, seeds, asked, hostMemory, orphaned>>

\* TryRead: the file's digest is no longer the recorded one, since somebody saved
\* it without the host.
SaveElsewhere(e) ==
  /\ ~drawingOpen /\ e \notin saved.drawn
  /\ saved' = [saved EXCEPT !.drawn = @ \cup {e}] /\ content' = saved'
  /\ sidecar' = Nothing
  /\ UNCHANGED <<family, drawingOpen, drawingAt, seeds, asked, hostMemory, orphaned>>

\* The drawing is closed, or AutoCAD stops and the host's memory is gone.  What
\* was not saved is lost, and the recorded revision will count it again.
CloseDrawing ==
  /\ drawingOpen /\ drawingOpen' = FALSE
  /\ content' = saved
  /\ orphaned' = (orphaned \/ (asked # Nothing /\ sidecar \notin {drawingAt, Nothing}))
  /\ \/ UNCHANGED hostMemory
     \/ remembered' = FALSE /\ rollback' = Nothing
  /\ UNCHANGED <<family, drawingAt, seeds, asked, onDisk>>

\* CreateEntry: the recorded revision if it fits the file, else a random one.
OpenDrawing ==
  /\ ~drawingOpen /\ drawingOpen' = TRUE
  /\ IF sidecar # Nothing
     THEN drawingAt' = sidecar /\ UNCHANGED seeds
     ELSE /\ seeds < MaxSeeds /\ seeds' = seeds + 1
          /\ drawingAt' = Seeded(seeds')
  /\ UNCHANGED <<family, content, asked, onDisk, hostMemory, orphaned>>

-----------------------------------------------------------------------------
DrawingNext ==
  \/ PreviewProgram \/ PreviewCreate \/ PreviewManaged \/ Forget
  \/ CommitProgram \/ CommitCreate \/ CommitManaged
  \/ PreviewRollbackProgram \/ PreviewRollbackCreate \/ PreviewRollbackManaged
  \/ CommitRollbackProgram \/ CommitRollbackCreate \/ CommitRollbackManaged
  \/ Alter \/ MakeLayer \/ PurgeLayer \/ \E e \in Edits : Draw(e) \/ SaveElsewhere(e)
  \/ SaveDrawing \/ CloseDrawing \/ OpenDrawing

DrawingSpec == DrawingInit /\ [][DrawingNext]_drawingVars

-----------------------------------------------------------------------------
\* A plan is applied to the drawing its preview was made on, not to one that
\* merely carries the same revision number, across saves, reopenings and lost
\* sidecars (Commit, AssertRevision, TryRead).  The exception is real: when unsaved
\* work was given up after the preview, the recorded revision comes back and counts
\* the same numbers again over other changes.
PreviewedIsCommitted ==
  content.receipt # Nothing /\ ~content.receipt.orphan
    => content.receipt.plan = content.receipt.saw

\* A rollback leaves the drawing as the commit found it, save for a layer the commit
\* had to make, which stays (ensure_layer, Phase-7.md), and its validation says so.
\* What anybody drew, or other plans did, in between is not touched, because there
\* was nothing: a rollback never takes back a commit that others have built on, nor
\* the layer they work on (CommitRollback, Restore, RollbackCreatedOutputs,
\* ValidateRollback).
RollbackRestores ==
  [][drawingOpen /\ drawingOpen' /\ content'.undone /\ ~content.undone
     => Visible(content') = Ensured(content.receipt.saw) /\ RollbackValid(content')]_drawingVars
=============================================================================
