------------------------------- MODULE Scenes --------------------------------
(***************************************************************************)
(* Scenes: what the Gateway infers from a snapshot, and who reads it.      *)
(*                                                                         *)
(* A scene is built once from a snapshot under the options of the server   *)
(* and is immutable; it lapses, and is deleted by the next build that      *)
(* meets it or by the maintenance pass.  An idempotency key is bound to    *)
(* the scene it was answered with.  A client pages through a section with  *)
(* signed cursors; a workflow run builds, queries and validates, and its   *)
(* actions may be carried out twice.                                       *)
(*                                                                         *)
(* One owner and one section; an item is its number.  The repository does  *)
(* not suspend, so that a query is one step; but it looks at the clock at  *)
(* each of its reads.  Steps, leases and states of a run are Workflow's.   *)
(***************************************************************************)
EXTENDS Naturals, Sequences, SequencesExt

CONSTANTS
  SceneKeys,       \* idempotency keys of clients
  Snapshots,       \* what a scene is built from; snapshots are never deleted
  ItemCount,       \* items of a section, one more with mechanical features
  PageLimits,      \* limits a client asks for
  AuditLimit,      \* limit of the query of an audit
  SelectionLimit,  \* limit of the query of a selection (200)
  MaxScenes,       \* bound: scenes ever built
  MaxConfigs       \* bound: restarts of the server with another configuration

ASSUME ScenesAssumption ==
  /\ ItemCount \in Nat /\ PageLimits \subseteq Nat \ {0} /\ MaxScenes \in Nat /\ MaxConfigs \in Nat
  /\ AuditLimit \in Nat /\ SelectionLimit \in Nat

VARIABLES
  scenes,          \* scenes in the order they were built, deleted ones included
  sceneOf,         \* what a key is bound to
  told,            \* ghost: the scene a key was last answered with
  config,          \* options of the build, and the secret of the cursors
  configs,         \* restarts so far
  reader,          \* a client paging through a scene
  sceneRun         \* a run that reads a scene

sceneVars == <<scenes, sceneOf, told, config, configs, reader, sceneRun>>

RunKey == "run"
AllSceneKeys == SceneKeys \cup {RunKey}
Ids == 1 .. Len(scenes)
BuildOptions == {"geometry", "features"}
Secrets == {"none", "old", "new"}
SceneRequests == [snapshot : Snapshots, sections : {"few", "all"}]

NoBinding == [scene |-> 0]
NoReader == [stage |-> "none"]
NoSceneRun == [stage |-> "none"]

Live(s) == scenes[s].status = "live"

\* project_artifact: the same items whoever asks, for a snapshot and the options in
\* force.
Items(s) ==
  [i \in 1 .. (IF scenes[s].options = "features" THEN ItemCount + 1 ELSE ItemCount) |-> i]

ScenesTypeOK ==
  /\ Len(scenes) <= MaxScenes
  /\ \A s \in Ids : scenes[s] \in [status : {"live", "lapsed", "deleted"},
                                   snapshot : Snapshots, options : BuildOptions]
  /\ told \in [AllSceneKeys -> 0 .. MaxScenes]
  /\ \A k \in AllSceneKeys : sceneOf[k].scene \in 0 .. Len(scenes)
  /\ config \in [options : BuildOptions, secret : Secrets] /\ configs \in 0 .. MaxConfigs
  /\ reader.stage \in {"none", "reading", "ended", "refused"}
  /\ sceneRun.stage \in {"none", "build", "query", "validate", "done", "attention"}

ScenesInit ==
  /\ scenes = <<>>
  /\ sceneOf = [k \in AllSceneKeys |-> NoBinding]
  /\ told = [k \in AllSceneKeys |-> 0]
  /\ config \in [options : BuildOptions, secret : {"none", "old"}] /\ configs = 0
  /\ reader = NoReader /\ sceneRun = NoSceneRun

-----------------------------------------------------------------------------
(* SceneRepository.create, one transaction.                                *)

\* The scene the key is bound to, unless it has lapsed.
Replayed(k) == IF sceneOf[k] # NoBinding /\ Live(sceneOf[k].scene) THEN {sceneOf[k].scene} ELSE {}

\* The row with the same identity: snapshot and options.
Twins(request) ==
  {s \in Ids : /\ scenes[s].status # "deleted"
               /\ scenes[s].snapshot = request.snapshot
               /\ scenes[s].options = config.options}

\* What the transaction meets and finds lapsed it deletes.
MetLapsed(k, request) ==
  {s \in ({sceneOf[k].scene} \ {0}) \cup Twins(request) : scenes[s].status = "lapsed"}

Conflicts(k, request) ==
  /\ Replayed(k) # {}
  /\ sceneOf[k].request # request \/ sceneOf[k].options # config.options

\* What the key is answered with; the number after the last is a new scene.
AnswerTo(k, request) ==
  IF Replayed(k) # {} THEN sceneOf[k].scene
  ELSE IF \E s \in Twins(request) : Live(s) THEN CHOOSE s \in Twins(request) : Live(s)
  ELSE Len(scenes) + 1

\* Mutant: only the key that built a scene is bound to it.
BindingOfBuilder(k, request) ==
  IF AnswerTo(k, request) \in Ids THEN sceneOf[k]
  ELSE [scene |-> AnswerTo(k, request), request |-> request, options |-> config.options]

BindingOf(k, request) ==
  IF Replayed(k) # {} THEN sceneOf[k]
  ELSE [scene |-> AnswerTo(k, request), request |-> request, options |-> config.options]

\* The rows of bindings go with their scene.
Cascaded(gone) ==
  [k \in AllSceneKeys |-> IF sceneOf[k].scene \in gone THEN NoBinding ELSE sceneOf[k]]

RowsWithout(gone) == [s \in Ids |-> IF s \in gone THEN [scenes[s] EXCEPT !.status = "deleted"]
                                ELSE scenes[s]]

\* build_scene: the same scene from the same snapshot.
Built(request) ==
  [status |-> "live", snapshot |-> request.snapshot, options |-> config.options]

Create(k, request) ==
  LET gone == MetLapsed(k, request)
  IN /\ ~Conflicts(k, request)
     /\ AnswerTo(k, request) <= MaxScenes
     /\ scenes' = IF AnswerTo(k, request) \in Ids THEN RowsWithout(gone)
                  ELSE Append(RowsWithout(gone), Built(request))
     /\ sceneOf' = [Cascaded(gone) EXCEPT ![k] = BindingOf(k, request)]
     /\ told' = [told EXCEPT ![k] = AnswerTo(k, request)]

\* build, of a client.  A conflict changes nothing.
BuildScene(k) ==
  /\ \E request \in SceneRequests : Create(k, request)
  /\ UNCHANGED <<config, configs, reader, sceneRun>>

-----------------------------------------------------------------------------
(* Time, maintenance, restarts.                                            *)

LapsedIn(set) == [s \in Ids |-> IF s \in set THEN [scenes[s] EXCEPT !.status = "lapsed"]
                                ELSE scenes[s]]

SceneLapses ==
  /\ \E s \in Ids : Live(s) /\ scenes' = LapsedIn({s})
  /\ UNCHANGED <<sceneOf, told, config, configs, reader, sceneRun>>

\* delete_expired, of the maintenance pass.
SweepScenes ==
  LET gone == {s \in Ids : scenes[s].status = "lapsed"}
  IN /\ gone # {}
     /\ scenes' = RowsWithout(gone) /\ sceneOf' = Cascaded(gone)
     /\ UNCHANGED <<told, config, configs, reader, sceneRun>>

Reconfigure ==
  /\ configs < MaxConfigs
  /\ configs' = configs + 1
  /\ config' \in [options : BuildOptions, secret : Secrets] \ {config}
  /\ UNCHANGED <<scenes, sceneOf, told, reader, sceneRun>>

-----------------------------------------------------------------------------
(* query.                                                                  *)

\* Whether the scene lapses between the first and the second read of a query, or
\* between the second and the third.
Moments == {"never", "after record", "after items"}

\* The items of one entity are found through the evidence, which is read last; a
\* scene that has lapsed by then has none.
Selected(s, filter, moment) ==
  IF filter = "all" THEN Items(s)
  ELSE IF moment = "after items" THEN <<>>
  ELSE [i \in 1 .. (Len(Items(s)) + 1) \div 2 |-> 2 * i - 1]

\* Mutant: a cursor counts in pages.
OffsetOfPage(offset, limit) == ((offset \div limit) + 1) * limit
NextOffset(offset, limit) == offset + limit

\* What follows the offset, at most limit items.
ItemsFrom(selected, offset, limit) ==
  SubSeq(selected, offset + 1, Min({offset + limit, Len(selected)}))

\* decode_cursor: a first page has none.
CursorHolds(offset, secret) == offset = 0 \/ (config.secret # "none" /\ secret = config.secret)

\* A page that needs a cursor is refused where cursors cannot be signed.
QueryAnswered(selected, offset, limit) ==
  /\ offset <= Len(selected)
  /\ NextOffset(offset, limit) < Len(selected) => config.secret # "none"

\* Bound: a behaviour has one kind of reader, a client or a run.
OpenScene ==
  /\ reader.stage # "reading" /\ sceneRun = NoSceneRun
  /\ \E s \in Ids, filter \in {"all", "entity"} :
       reader' = [stage |-> "reading", scene |-> s, filter |-> filter, offset |-> 0,
                  secret |-> "none", shown |-> <<>>, torn |-> FALSE]
  /\ UNCHANGED <<scenes, sceneOf, told, config, configs, sceneRun>>

NextScenePage ==
  /\ reader.stage = "reading"
  /\ \E limit \in PageLimits, moment \in Moments :
       LET selected == Selected(reader.scene, reader.filter, moment)
           next == NextOffset(reader.offset, limit)
       IN /\ moment # "never" => Live(reader.scene)
          /\ scenes' = IF moment = "never" THEN scenes ELSE LapsedIn({reader.scene})
          /\ reader' =
               IF /\ Live(reader.scene) /\ moment # "after record"
                  /\ CursorHolds(reader.offset, reader.secret)
                  /\ QueryAnswered(selected, reader.offset, limit)
               THEN [reader EXCEPT
                       !.shown = @ \o ItemsFrom(selected, reader.offset, limit),
                       !.torn = @ \/ (reader.filter = "entity" /\ moment = "after items"),
                       !.stage = IF next < Len(selected) THEN "reading" ELSE "ended",
                       !.offset = next, !.secret = config.secret]
               ELSE [reader EXCEPT !.stage = "refused"]
  /\ UNCHANGED <<sceneOf, told, config, configs, sceneRun>>

-----------------------------------------------------------------------------
(* A run: _advance_scene_cleanup_audit, _auto_dimension_scene_inputs.      *)

StartSceneRun ==
  /\ sceneRun = NoSceneRun /\ reader = NoReader
  /\ \E kind \in {"audit", "selection"}, snapshot \in Snapshots :
       sceneRun' = [stage |-> "build", kind |-> kind, snapshot |-> snapshot,
                    scene |-> 0, items |-> <<>>]
  /\ UNCHANGED <<scenes, sceneOf, told, config, configs, reader>>

RunRequest == [snapshot |-> sceneRun.snapshot, sections |-> "few"]

\* The action is carried out; its result is stored, or lost with the process that
\* held the lease, and the action is carried out again.
RunBuilds ==
  /\ sceneRun.stage = "build"
  /\ Create(RunKey, RunRequest)
  /\ \/ sceneRun' = [sceneRun EXCEPT !.stage = "query", !.scene = AnswerTo(RunKey, RunRequest)]
     \/ UNCHANGED sceneRun
  /\ UNCHANGED <<config, configs, reader>>

RunNeedsAttention ==
  /\ sceneRun' = [sceneRun EXCEPT !.stage = "attention"]
  /\ UNCHANGED <<scenes, sceneOf, told, config, configs, reader>>

RunConflicts ==
  /\ sceneRun.stage = "build" /\ Conflicts(RunKey, RunRequest)
  /\ RunNeedsAttention

RunLimit == IF sceneRun.kind = "audit" THEN AuditLimit ELSE SelectionLimit

\* dispatch hands no filter on; what a selection takes it looks for in all items.
RunItems == ItemsFrom(Items(sceneRun.scene), 0, RunLimit)

RunQueries ==
  /\ sceneRun.stage = "query"
  /\ Live(sceneRun.scene) /\ QueryAnswered(Items(sceneRun.scene), 0, RunLimit)
  /\ sceneRun.kind = "selection" => Len(RunItems) = Len(Items(sceneRun.scene))
  /\ sceneRun' = [sceneRun EXCEPT !.items = RunItems,
                    !.stage = IF sceneRun.kind = "audit" THEN "validate" ELSE "done"]
  /\ UNCHANGED <<scenes, sceneOf, told, config, configs, reader>>

\* The scene has lapsed or cursors cannot be signed; a selection is refused too when
\* it was truncated or an entity asked for has no evidence in it.
RunQueryFails ==
  /\ sceneRun.stage = "query"
  /\ \/ ~Live(sceneRun.scene) \/ ~QueryAnswered(Items(sceneRun.scene), 0, RunLimit)
     \/ sceneRun.kind = "selection"
  /\ RunNeedsAttention

RunValidates ==
  /\ sceneRun.stage = "validate"
  /\ IF Live(sceneRun.scene)
     THEN /\ sceneRun' = [sceneRun EXCEPT !.stage = "done"]
          /\ UNCHANGED <<scenes, sceneOf, told, config, configs, reader>>
     ELSE RunNeedsAttention

ScenesNext ==
  \/ \E k \in SceneKeys : BuildScene(k)
  \/ SceneLapses \/ SweepScenes \/ Reconfigure
  \/ OpenScene \/ NextScenePage
  \/ StartSceneRun \/ RunBuilds \/ RunConflicts
  \/ RunQueries \/ RunQueryFails \/ RunValidates

ScenesSpec == ScenesInit /\ [][ScenesNext]_sceneVars

-----------------------------------------------------------------------------
\* Who reads a scene reads what it holds: the pages of a chain of cursors are the
\* beginning of the items asked for, and all of them at the end, although limits and
\* configuration change on the way -- unless the scene lapsed within a query that
\* looks for evidence, which then answers an empty page as if it were all.  What a
\* run goes on with is its own snapshot's, and a selection is from all the items
\* (query, encode_cursor, _auto_dimension_scene_inputs).
ReadersSeeTheScene ==
  /\ reader.stage # "none" /\ ~reader.torn =>
       LET whole == Selected(reader.scene, reader.filter, "never")
       IN /\ IsPrefix(reader.shown, whole)
          /\ reader.stage = "ended" => reader.shown = whole
  /\ sceneRun.stage = "done" =>
       /\ scenes[sceneRun.scene].snapshot = sceneRun.snapshot
       /\ sceneRun.items = IF sceneRun.kind = "selection" THEN Items(sceneRun.scene)
                           ELSE ItemsFrom(Items(sceneRun.scene), 0, AuditLimit)

\* A key is not answered with another scene while the first one lives, whatever
\* other keys built, deleted or share and however the server was configured since
\* (SceneRepository.create).
KeyKeepsItsScene ==
  [][\A k \in AllSceneKeys :
       told[k] # 0 /\ told'[k] # told[k] => ~Live(told[k])]_sceneVars
=============================================================================
