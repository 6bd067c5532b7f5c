--------------------------- MODULE ProgramContract ---------------------------
(***************************************************************************)
(* What the two ends accept of one CAD program, and what is left of it.    *)
(*                                                                         *)
(* The Gateway checks a program and seals it by its digest; the Agent      *)
(* sends it to the Managed Host in a frame; the Host reads it under rules  *)
(* of its own, previews it in a transaction it aborts, and on commit       *)
(* writes entities, a receipt and a rollback checkpoint in one             *)
(* transaction.  Afterwards a duplicate, a validation and the recovery of  *)
(* an unknown outcome are answered from that record.                       *)
(*                                                                         *)
(* Sizes are weights: an operation of a program and an entity of a record  *)
(* weigh 1; a long text, a long name of a layer and extents with all their *)
(* digits add 2.  Who approves is Approval's subject, deadlines and        *)
(* deliveries are JobDelivery's, runtimes and their pins CadPrograms'.     *)
(***************************************************************************)
EXTENDS Naturals, Sequences, FiniteSets

CONSTANTS
  MaxOperations,   \* bound: operations of a program, at most three
  EntityBudget,    \* max_entities of the program's budgets
  RecordLimit,     \* what a record in the drawing may weigh (65,536 bytes)
  HostFrame,       \* what a frame of the Host may weigh (MaxFrameBytes)
  MaxMeddling      \* bound: edits by the user and restarts of AutoCAD

ASSUME ContractAssumption ==
  /\ MaxOperations \in Nat /\ EntityBudget \in Nat /\ RecordLimit \in Nat
  /\ HostFrame \in Nat \ {0} /\ MaxMeddling \in Nat

VARIABLES
  program,         \* the program the Gateway has sealed
  standing,        \* what the Gateway knows of it
  layers,          \* the layers of the drawing
  atRevision,      \* its revision
  previewHeld,     \* the Host's memory holds the preview
  record,          \* receipt and checkpoint in the drawing
  lastAnswer,      \* the Host's last answer, and whether the Agent could read it
  meddled          \* edits and restarts so far

contractVars ==
  <<program, standing, layers, atRevision, previewHeld, record, lastAnswer, meddled>>

NoProgram == [operations |-> <<>>]
NoRecord == [weight |-> 0]
Silence == [ask |-> "none"]

-----------------------------------------------------------------------------
(* Programs.  A layer is named, or referred to by the first operation.     *)

EntityKinds == {"create_line", "create_circle", "create_polyline", "create_rectangle",
                "create_text", "create_dimension_linear"}

\* The drawing measures their extents: no number of the program gives them.
Measured == {"create_text", "create_dimension_linear"}

\* What an operation may have that a reader looks at: points that coincide, a
\* measure over the program's own budgets, extents beyond the coordinates allowed,
\* a long text, a control character below space or above it.
Traits(kind) ==
  CASE kind = "create_line" -> {"plain", "degenerate", "over"}
    [] kind = "create_circle" -> {"plain", "outer", "over"}
    [] kind = "create_polyline" -> {"plain", "degenerate", "over"}
    [] kind = "create_rectangle" -> {"plain", "degenerate"}
    [] kind = "create_text" -> {"plain", "wordy", "control"}
    [] kind = "create_dimension_linear" -> {"plain", "degenerate", "over"}
    [] OTHER -> {"plain", "control", "delete"}

Operations ==
  [kind : {"ensure_layer"}, layer : {"new", "long"}, trait : Traits("ensure_layer")]
    \cup UNION {[kind : {kind}, layer : {"drawn", "new", "first"}, trait : Traits(kind)]
                : kind \in EntityKinds}

Usual(op) == op.kind \in {"ensure_layer", "create_line"} /\ op.trait = "plain"

\* Bound: at most one operation is out of the usual.
OperationLists(n) ==
  {ops \in [1 .. n -> Operations] : Cardinality({i \in 1 .. n : ~Usual(ops[i])}) <= 1}

\* With the postcondition it states, if any, and whether the last operation bears
\* the identifier of the first.
ContractPrograms ==
  [operations : UNION {OperationLists(n) : n \in 1 .. MaxOperations},
   post : {"none", "one entity", "first exists"},
   repeats : BOOLEAN, base : {0}]

Entities(p) == {i \in DOMAIN p.operations : p.operations[i].kind \in EntityKinds}
Some(p, kinds, traits) ==
  \E i \in DOMAIN p.operations :
    p.operations[i].kind \in kinds /\ p.operations[i].trait \in traits

FirstIsLayer(p) == 1 \notin Entities(p)

\* The layer an operation ends up on (LayerTarget).
LayerOf(p, i) ==
  IF p.operations[i].layer = "first" THEN p.operations[1].layer ELSE p.operations[i].layer

\* _validate_program_semantics, and ParseProgram again: identifiers are unique, a
\* reference names an earlier ensure_layer, counts stay within the budgets.
WellFormed(p) ==
  /\ ~(p.repeats /\ Len(p.operations) > 1)
  /\ FirstIsLayer(p) \/ ( /\ p.post # "first exists"
                          /\ \A i \in Entities(p) : p.operations[i].layer # "first" )
  /\ Cardinality(Entities(p)) <= EntityBudget

\* CadProgram: measures within the budgets, the text of a dimension counted with
\* the others; a layer's name without control characters below space.
GatewayAccepts(p) ==
  /\ WellFormed(p)
  /\ ~Some(p, EntityKinds, {"over"})
  /\ ~Some(p, {"ensure_layer"}, {"control"})

\* ParseProgram and the parsers it calls: no coinciding points and no control
\* character of any kind; the text of a dimension is not counted.
HostParses(p) ==
  /\ WellFormed(p)
  /\ ~Some(p, EntityKinds \ {"create_dimension_linear"}, {"over"})
  /\ ~Some(p, EntityKinds \cup {"ensure_layer"}, {"degenerate", "control", "delete"})

\* Program and bindings in one frame; a commit names its preview and receipt too.
PreviewFrame(p) ==
  Len(p.operations) + 2 * Cardinality({i \in Entities(p) : p.operations[i].trait = "wordy"})
CommitFrame(p) == PreviewFrame(p) + 1

\* DurableProgramReceiptV02.Serialize, CadRollbackCheckpointV1.Serialize, CommitResult:
\* each repeats every entity with its layer, the receipt alone with its extents; the
\* reply carries the checkpoint.
EntityWeight(p) ==
  Cardinality(Entities(p)) + 2 * Cardinality({i \in Entities(p) : LayerOf(p, i) = "long"})
ReceiptWeight(p) ==
  EntityWeight(p) + 2 * Cardinality({i \in Entities(p) : p.operations[i].kind \in Measured})
CheckpointWeight(p) == EntityWeight(p) + 1
ReplyWeight(r) == r.listed + 1

-----------------------------------------------------------------------------
ContractTypeOK ==
  /\ program = NoProgram \/ ( /\ program.base \in 0 .. atRevision
                              /\ [program EXCEPT !.base = 0] \in ContractPrograms )
  /\ standing \in {"none", "sealed", "previewed", "unknown", "committed"}
  /\ layers \subseteq {"drawn", "new", "long"} /\ atRevision \in Nat
  /\ previewHeld \in BOOLEAN /\ meddled \in 0 .. MaxMeddling
  /\ record = NoRecord \/ ( /\ record.weight \in Nat /\ record.listed \in Nat
                            /\ record.after \in 1 .. atRevision
                            /\ record.outer \in BOOLEAN /\ record.intact \in BOOLEAN )
  /\ lastAnswer = Silence \/ lastAnswer.heard \in BOOLEAN

ContractInit ==
  /\ program = NoProgram /\ standing = "none"
  /\ layers = {"drawn"} /\ atRevision = 0
  /\ previewHeld = FALSE /\ record = NoRecord /\ lastAnswer = Silence /\ meddled = 0

\* build_semantic_program, seal_program: for the revision the drawing has.
Seal ==
  /\ standing = "none"
  /\ \E p \in ContractPrograms :
       GatewayAccepts(p) /\ program' = [p EXCEPT !.base = atRevision]
  /\ standing' = "sealed" /\ lastAnswer' = Silence
  /\ UNCHANGED <<layers, atRevision, previewHeld, record, meddled>>

\* The first of the checks, in the order of the code, that refuses.
Verdict(checks, otherwise) ==
  LET failing == {i \in DOMAIN checks : checks[i][2]}
  IN IF failing = {} THEN otherwise
     ELSE checks[CHOOSE i \in failing : \A k \in failing : i <= k][1]

\* An answer is a frame of the Host again (FrameCodec.WriteAsync); when it is too
\* large, or the request was (ReadAsync), the session ends without an answer.
Says(ask, answer, weight) ==
  [ask |-> ask, answer |-> answer, heard |-> answer # "unread" /\ weight <= HostFrame]

\* RequireLayer, in the order of the operations.
LayersThere(p) ==
  \A i \in Entities(p) :
    \/ LayerOf(p, i) \in layers
    \/ \E k \in 1 .. i - 1 : k \notin Entities(p) /\ p.operations[k].layer = LayerOf(p, i)

\* AssertPostconditions: of the plan, so that a layer is not looked for.
PlanFits(p) == p.post = "one entity" => Cardinality(Entities(p)) = 1

\* Mutant: a preview that plans and does not apply.
PreviewAnswerOfPlan ==
  Verdict(<< <<"unread", PreviewFrame(program) > HostFrame>>,
             <<"program_invalid", ~HostParses(program)>>,
             <<"document_changed", atRevision # program.base>>,
             <<"program_invalid", ~PlanFits(program)>> >>, "previewed")

\* ParseRequest, Preview: applied, looked at and aborted.
PreviewAnswer ==
  Verdict(<< <<"unread", PreviewFrame(program) > HostFrame>>,
             <<"program_invalid", ~HostParses(program)>>,
             <<"document_changed", atRevision # program.base>>,
             <<"program_invalid", ~PlanFits(program)>>,
             <<"program_invalid", ~LayersThere(program)>> >>, "previewed")

Preview ==
  /\ standing \in {"sealed", "previewed"}
  /\ lastAnswer' = Says("preview", PreviewAnswer, 1)
  /\ standing' = IF PreviewAnswer = "previewed" THEN "previewed" ELSE standing
  /\ previewHeld' = (previewHeld \/ PreviewAnswer = "previewed")
  /\ UNCHANGED <<program, layers, atRevision, record, meddled>>

\* Mutant: whatever Serialize returns is stored.
AnyReceiptRecordFits(p) == TRUE
\* Serialize throws program_invalid: the transaction is not committed.
ReceiptRecordFits(p) == ReceiptWeight(p) <= RecordLimit
\* CadRollbackCheckpointV1.Create and Serialize throw rollback_conflict: at least
\* one entity, and a record of bounded size.
CheckpointFits(p) == Entities(p) # {} /\ CheckpointWeight(p) <= RecordLimit

\* DurableProgramReceiptV02.Parse: extents beyond the coordinates allowed, or a
\* record longer than it accepts, make it ledger_corrupt.
Readable(r) == ~r.outer /\ r.weight <= RecordLimit

\* ParseRequest, Commit, for a preview not yet committed.
CommitAnswer ==
  Verdict(<< <<"unread", CommitFrame(program) > HostFrame>>,
             <<"program_invalid", ~HostParses(program)>>,
             <<"preview_required", ~previewHeld>>,
             <<"document_changed", atRevision # program.base>>,
             <<"program_invalid", ~LayersThere(program)>>,
             <<"program_invalid", ~ReceiptRecordFits(program)>>,
             <<"rollback_conflict", ~CheckpointFits(program)>> >>, "committed")

RecordOf(p) ==
  [weight |-> ReceiptWeight(p), listed |-> CheckpointWeight(p), after |-> atRevision + 1,
   intact |-> TRUE, outer |-> Some(p, {"create_circle"}, {"outer"})]

\* The Gateway learns of the commit, of its refusal, or nothing at all.
Learned(answer) ==
  IF ~answer.heard THEN "unknown"
  ELSE IF answer.answer \in {"committed", "duplicate"} THEN "committed" ELSE "sealed"

Commit ==
  /\ standing = "previewed"
  /\ IF CommitAnswer = "committed"
     THEN /\ record' = RecordOf(program)
          /\ lastAnswer' = Says("commit", CommitAnswer, ReplyWeight(RecordOf(program)))
          /\ atRevision' = atRevision + 1
          /\ layers' = layers \cup {LayerOf(program, i) : i \in DOMAIN program.operations}
     ELSE /\ lastAnswer' = Says("commit", CommitAnswer, 1)
          /\ UNCHANGED <<record, atRevision, layers>>
  /\ standing' = Learned(lastAnswer')
  /\ UNCHANGED <<program, previewHeld, meddled>>

\* The same commit again finds its receipt (FindV02, AssertDuplicate).
CommitAgain ==
  /\ standing \in {"unknown", "committed"} /\ record # NoRecord
  /\ lastAnswer' = IF Readable(record) THEN Says("commit", "duplicate", ReplyWeight(record))
             ELSE Says("commit", "ledger_corrupt", 1)
  /\ standing' = IF standing = "unknown" /\ lastAnswer'.answer = "duplicate"
                 THEN Learned(lastAnswer') ELSE standing
  /\ UNCHANGED <<program, layers, atRevision, previewHeld, record, meddled>>

\* QueryReceipt, the question of the recovery.
QueryReceipt ==
  /\ standing = "unknown"
  /\ lastAnswer' = Says("receipt", IF record = NoRecord THEN "absent"
                             ELSE IF Readable(record) THEN "found" ELSE "ledger_corrupt", 1)
  /\ standing' = IF lastAnswer'.answer = "found" THEN "committed" ELSE standing
  /\ UNCHANGED <<program, layers, atRevision, previewHeld, record, meddled>>

\* QueryCheckpoint: the answer carries every entity.
QueryCheckpoint ==
  /\ standing = "committed"
  /\ lastAnswer' = Says("checkpoint", "found", ReplyWeight(record))
  /\ UNCHANGED <<program, standing, layers, atRevision, previewHeld, record, meddled>>

\* Validate, ReadEntity: the entities are as the receipt has them.
Validate ==
  /\ standing = "committed"
  /\ lastAnswer' = Says("validate",
                  Verdict(<< <<"document_changed", atRevision # record.after>>,
                             <<"ledger_corrupt", ~Readable(record)>>,
                             <<"document_changed", ~record.intact>> >>, "valid"), 1)
  /\ UNCHANGED <<program, standing, layers, atRevision, previewHeld, record, meddled>>

-----------------------------------------------------------------------------
Meddle == meddled < MaxMeddling /\ meddled' = meddled + 1 /\ lastAnswer' = Silence

\* The user makes or purges a layer, or changes what the program drew.
UserEdits ==
  /\ Meddle
  /\ atRevision' = atRevision + 1
  /\ \/ record = NoRecord /\ layers' \in {layers \cup {"new"}, layers \ {"drawn"}}
        /\ UNCHANGED record
     \/ record # NoRecord /\ record' = [record EXCEPT !.intact = FALSE] /\ UNCHANGED layers
  /\ UNCHANGED <<program, standing, previewHeld>>

\* CadPreviewLedger lives as long as AutoCAD; the drawing was saved.
Reopen ==
  /\ Meddle
  /\ previewHeld' = FALSE
  /\ UNCHANGED <<program, standing, layers, atRevision, record>>

ContractNext ==
  \/ Seal \/ Preview \/ Commit \/ CommitAgain
  \/ QueryReceipt \/ QueryCheckpoint \/ Validate
  \/ UserEdits \/ Reopen

ContractSpec == ContractInit /\ [][ContractNext]_contractVars

-----------------------------------------------------------------------------
Unrecordable(p) ==
  Entities(p) = {} \/ ReceiptWeight(p) > RecordLimit \/ CheckpointWeight(p) > RecordLimit

\* A commit is refused after its preview only because the drawing changed or the
\* Host forgot the preview -- or because the program draws nothing or its record is
\* too large, which a preview does not try (Preview, Commit, Serialize, Create).
PreviewTellsCommit ==
  lastAnswer # Silence /\ lastAnswer.ask = "commit"
    /\ lastAnswer.answer \in {"program_invalid", "rollback_conflict"} => Unrecordable(program)

\* What was committed can be confirmed: the record can be read back, unless extents
\* lie beyond the coordinates allowed; and an answer that did not fit a frame leaves
\* the receipt query, whose answer always fits (Parse, WriteAsync, QueryReceipt).
CommittedIsConfirmed ==
  lastAnswer # Silence /\ record # NoRecord =>
    /\ lastAnswer.answer = "ledger_corrupt" => record.outer
    /\ ~lastAnswer.heard => lastAnswer.ask # "receipt" /\ ReplyWeight(record) > HostFrame
=============================================================================
