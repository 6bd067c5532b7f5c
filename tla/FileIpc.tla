------------------------------- MODULE FileIpc -------------------------------
(***************************************************************************)
(* The File IPC backend: FileIPCBackend (file_ipc.py) and its policy       *)
(* wrapper (safe_file_ipc.py) in each client process, the dispatcher they  *)
(* call in AutoCAD (mcp_dispatch.lsp), and the user at the screen.         *)
(*                                                                         *)
(* A request is a command file, a trigger posted to one document, and a    *)
(* result file.  The trigger runs when AutoCAD gets to it, which may be    *)
(* after its caller has given up; posting it may fail and have posted it   *)
(* all the same, and is then tried another way.  Processes share the       *)
(* directory of the files, AutoCAD runs one trigger at a time, and every   *)
(* inspection of AutoCAD is out of date when it is used.                   *)
(*                                                                         *)
(* The dispatcher's manual entry point, which picks the oldest command     *)
(* file of anybody, is left out.                                           *)
(***************************************************************************)
EXTENDS Naturals, FiniteSets

CONSTANTS
  Clients,       \* processes with a File IPC backend
  IpcRequests,      \* request ids
  ClientOf,      \* [IpcRequests -> Clients]
  RetryOf,       \* the second attempt of each request that may have one (ping)
  Documents,     \* documents that may be open in AutoCAD
  MaxMoves       \* bound: moves of the user, and processes that stop

ASSUME RequestsAssumption ==
  /\ ClientOf \in [IpcRequests -> Clients]
  /\ DOMAIN RetryOf \subseteq IpcRequests
  /\ \A r \in DOMAIN RetryOf : RetryOf[r] \in IpcRequests /\ ClientOf[RetryOf[r]] = ClientOf[r]
  /\ \A r, q \in DOMAIN RetryOf : RetryOf[r] = RetryOf[q] => r = q
  /\ MaxMoves \in Nat

VARIABLES
  clientUp,      \* [Clients -> "new", "up" or "gone"]
  call,          \* [IpcRequests -> where its caller is]
  answered,      \* [IpcRequests -> what the caller was told, or Unanswered]
  expected,      \* [IpcRequests -> the document it was routed to]
  seen,          \* [IpcRequests -> the result its caller has read]
  cmdFile,       \* requests whose command file exists
  resultFile,    \* [IpcRequests -> the content of its result file, or Unanswered]
  triggers,      \* [IpcRequests -> triggers posted and not yet run]
  dispatching,   \* the request the dispatcher has in hand, its stage and outcome
  activeDoc,     \* the active document, or NoDocument
  loaded,        \* documents with the dispatcher loaded
  modal,         \* whether AutoCAD shows a dialog
  commandActive, \* whether the user is in a command
  ranTimes,      \* history: [IpcRequests -> times its command was run]
  moves          \* such moves so far

ipcFiles == <<cmdFile, resultFile>>
ipcCalls == <<call, answered, expected, seen>>
screen == <<activeDoc, loaded, modal, commandActive>>
ipcVars == <<clientUp, ipcCalls, ipcFiles, triggers, dispatching, screen, ranTimes, moves>>

Unanswered == "no answer"
NoDocument == "no document"
NotDispatching == [request |-> Unanswered]
Retries == {RetryOf[r] : r \in DOMAIN RetryOf}
Outcomes == {"done", "command_failed"}
Results == Outcomes \cup {"ipc_command_missing", "dispatcher_missing"}
Refusals == {"no_active_document", "modal_dialog_active", "autocad_busy", "command_routing_failed",
             "active_document_changed", "dispatcher_timeout"}

IpcTypeOK ==
  /\ clientUp \in [Clients -> {"new", "up", "gone"}]
  /\ call \in [IpcRequests -> {"new", "waiting", "polling", "settling", "over"}]
  /\ answered \in [IpcRequests -> Results \cup Refusals \cup {Unanswered}]
  /\ expected \in [IpcRequests -> Documents \cup {NoDocument}]
  /\ seen \in [IpcRequests -> Results \cup {Unanswered}]
  /\ resultFile \in [IpcRequests -> Results \cup {Unanswered}]
  /\ cmdFile \subseteq IpcRequests /\ triggers \in [IpcRequests -> 0 .. 2]
  /\ dispatching = NotDispatching
       \/ dispatching \in [request : IpcRequests, stage : {"read", "ran", "told"}, outcome : Outcomes]
  /\ activeDoc \in Documents \cup {NoDocument} /\ loaded \subseteq Documents
  /\ modal \in BOOLEAN /\ commandActive \in BOOLEAN
  /\ ranTimes \in [IpcRequests -> Nat] /\ moves \in 0 .. MaxMoves

IpcInit ==
  /\ clientUp = [c \in Clients |-> "new"]
  /\ call = [r \in IpcRequests |-> "new"]
  /\ answered = [r \in IpcRequests |-> Unanswered] /\ seen = answered /\ resultFile = answered
  /\ expected = [r \in IpcRequests |-> NoDocument]
  /\ cmdFile = {} /\ triggers = [r \in IpcRequests |-> 0] /\ ranTimes = triggers
  /\ dispatching = NotDispatching
  /\ activeDoc \in Documents \cup {NoDocument} /\ loaded = {activeDoc} \ {NoDocument}
  /\ modal = FALSE /\ commandActive = FALSE /\ moves = 0

-----------------------------------------------------------------------------
(* What a client sees of AutoCAD.                                          *)

\* _inspect_runtime: IsQuiescent and CMDACTIVE.
Quiescent == ~commandActive /\ dispatching = NotDispatching

\* What an inspection finds wrong, in the order the code looks.
Trouble ==
  IF activeDoc = NoDocument THEN "no_active_document"
  ELSE IF modal THEN "modal_dialog_active"
  ELSE IF ~Quiescent THEN "autocad_busy"
  ELSE Unanswered

Ready == Trouble = Unanswered

\* After the trigger: the document comes before AutoCAD's own state of business
\* while settling, after it at a timeout.
TroubleSettling(r) ==
  IF Trouble \in {"autocad_busy", Unanswered} /\ activeDoc # expected[r]
  THEN "active_document_changed" ELSE Trouble
TroubleAtTimeout(r) ==
  IF ~Ready THEN Trouble
  ELSE IF activeDoc # expected[r] THEN "active_document_changed" ELSE "dispatcher_timeout"

-----------------------------------------------------------------------------
(* The client.                                                             *)

\* asyncio.Lock: one request of a process at a time.
LockFree(c) == \A r \in IpcRequests : ClientOf[r] = c => call[r] \in {"new", "over"}

\* initialize, _cleanup_stale_files: a new process deletes files it finds old, be
\* they left over or, with a long timeout, in use.
ClientStarts(c) ==
  /\ clientUp[c] = "new" /\ clientUp' = [clientUp EXCEPT ![c] = "up"]
  /\ \E old \in SUBSET (cmdFile \cup {r \in IpcRequests : resultFile[r] # Unanswered}) :
       /\ cmdFile' = cmdFile \ old
       /\ resultFile' = [r \in IpcRequests |-> IF r \in old THEN Unanswered ELSE resultFile[r]]
  /\ UNCHANGED <<ipcCalls, triggers, dispatching, screen, ranTimes, moves>>

\* The process ends; its files stay.
ClientStops(c) ==
  /\ clientUp[c] = "up" /\ clientUp' = [clientUp EXCEPT ![c] = "gone"]
  /\ moves < MaxMoves /\ moves' = moves + 1
  /\ call' = [r \in IpcRequests |-> IF ClientOf[r] = c THEN "over" ELSE call[r]]
  /\ UNCHANGED <<answered, expected, seen, ipcFiles, triggers, dispatching, screen, ranTimes>>

\* _dispatch: the lock is taken.
Begin(r) ==
  /\ clientUp[ClientOf[r]] = "up" /\ LockFree(ClientOf[r])
  /\ call[r] = "new" /\ r \notin Retries
  /\ call' = [call EXCEPT ![r] = "waiting"]
  /\ UNCHANGED <<clientUp, answered, expected, seen, ipcFiles, triggers, dispatching, screen,
                 ranTimes, moves>>

\* The files of a request are unlinked, whatever its end; an error is ignored, as
\* when the dispatcher has the command file open.
Unlinked(r) ==
  /\ \/ cmdFile' = cmdFile \ {r}
     \/ dispatching.request = r /\ dispatching.stage = "read" /\ UNCHANGED cmdFile
  /\ resultFile' = [resultFile EXCEPT ![r] = Unanswered]

\* A second attempt, of a ping that timed out or met another document, if AutoCAD
\* is ready for it.
TriedAgain(r, word) ==
  r \in DOMAIN RetryOf /\ word \in {"dispatcher_timeout", "active_document_changed"} /\ Ready

\* The end of _dispatch_once.
Told(r, word) ==
  /\ answered' = [answered EXCEPT ![r] = word]
  /\ call' = [q \in IpcRequests |-> IF q = r THEN "over"
                                 ELSE IF TriedAgain(r, word) /\ q = RetryOf[r] THEN "waiting"
                                 ELSE call[q]]
  /\ UNCHANGED <<clientUp, expected, dispatching, screen, ranTimes, moves>>

\* _wait_until_idle: trouble, or AutoCAD busy to the end of the wait.
RefuseCall(r) ==
  /\ call[r] = "waiting" /\ ~Ready
  /\ Told(r, Trouble)
  /\ UNCHANGED <<seen, ipcFiles, triggers>>

\* _route: PostCommand, then SendCommand.  An attempt that raised may have posted
\* the trigger.
RouteCommand(r) ==
  /\ call[r] = "waiting" /\ Ready
  /\ cmdFile' = cmdFile \cup {r} /\ expected' = [expected EXCEPT ![r] = activeDoc]
  /\ \E n \in 1 .. 2 : triggers' = [triggers EXCEPT ![r] = n]
  /\ call' = [call EXCEPT ![r] = "polling"]
  /\ UNCHANGED <<clientUp, answered, seen, resultFile, dispatching, screen, ranTimes, moves>>

\* Both raised.
RoutingFails(r) ==
  /\ call[r] = "waiting" /\ Ready
  /\ \E n \in 0 .. 2 : triggers' = [triggers EXCEPT ![r] = n]
  /\ answered' = [answered EXCEPT ![r] = "command_routing_failed"]
  /\ call' = [call EXCEPT ![r] = "over"]
  /\ expected' = [expected EXCEPT ![r] = activeDoc]
  /\ UNCHANGED <<clientUp, seen, ipcFiles, dispatching, screen, ranTimes, moves>>

\* The result file is there.
ReadResult(r) ==
  /\ call[r] = "polling" /\ resultFile[r] # Unanswered
  /\ seen' = [seen EXCEPT ![r] = resultFile[r]]
  /\ call' = [call EXCEPT ![r] = "settling"]
  /\ UNCHANGED <<clientUp, answered, expected, ipcFiles, triggers, dispatching, screen,
                 ranTimes, moves>>

\* The result is passed on if AutoCAD is idle in the document of the request; if
\* not, the caller is told of that and not of the result.
Settle(r) ==
  /\ call[r] = "settling"
  /\ Told(r, IF TroubleSettling(r) = Unanswered THEN seen[r] ELSE TroubleSettling(r))
  /\ Unlinked(r)
  /\ UNCHANGED <<seen, triggers>>

\* No result before the deadline.
TimeOut(r) ==
  /\ call[r] = "polling"
  /\ Told(r, TroubleAtTimeout(r))
  /\ Unlinked(r)
  /\ UNCHANGED <<seen, triggers>>

\* drawing_open: Documents.Open, under the lock, when AutoCAD is ready.
OpenDocument(c, d) ==
  /\ clientUp[c] = "up" /\ LockFree(c) /\ Ready /\ d # activeDoc /\ moves < MaxMoves
  /\ activeDoc' = d /\ moves' = moves + 1
  /\ UNCHANGED <<clientUp, ipcCalls, ipcFiles, triggers, dispatching, loaded, modal,
                 commandActive, ranTimes>>

-----------------------------------------------------------------------------
(* AutoCAD: triggers run in their document, when it is active and idle.    *)

TriggerRuns(r) ==
  /\ Ready /\ triggers[r] > 0 /\ activeDoc = expected[r]
  /\ triggers' = [triggers EXCEPT ![r] = @ - 1]

RunnerKept == UNCHANGED <<clientUp, ipcCalls, screen, moves>>

\* _missing_dispatcher_expression: no dispatcher in this document; a result that
\* is there stays.
TriggerUnloaded(r) ==
  /\ TriggerRuns(r) /\ activeDoc \notin loaded
  /\ resultFile' = [resultFile EXCEPT ![r] = IF @ = Unanswered THEN "dispatcher_missing" ELSE @]
  /\ RunnerKept /\ UNCHANGED <<cmdFile, dispatching, ranTimes>>

\* mcp-process-request: the command file is gone.
TriggerTooLate(r) ==
  /\ TriggerRuns(r) /\ activeDoc \in loaded /\ r \notin cmdFile
  /\ resultFile' = [resultFile EXCEPT ![r] = "ipc_command_missing"]
  /\ RunnerKept /\ UNCHANGED <<cmdFile, dispatching, ranTimes>>

\* mcp-process-request: it is read.
TriggerReads(r) ==
  /\ TriggerRuns(r) /\ activeDoc \in loaded /\ r \in cmdFile
  /\ \E o \in Outcomes : dispatching' = [request |-> r, stage |-> "read", outcome |-> o]
  /\ RunnerKept /\ UNCHANGED <<ipcFiles, ranTimes>>

AtStage(stage) == dispatching # NotDispatching /\ dispatching.stage = stage
StageDone(stage) == dispatching' = [dispatching EXCEPT !.stage = stage]

\* mcp-dispatch-command: every error is caught, a command left open is cancelled,
\* the system variables are put back.  The command may change the active document.
RunCommand ==
  /\ AtStage("read") /\ StageDone("ran")
  /\ ranTimes' = [ranTimes EXCEPT ![dispatching.request] = @ + 1]
  /\ activeDoc' \in Documents
  /\ UNCHANGED <<clientUp, ipcCalls, ipcFiles, triggers, loaded, modal, commandActive, moves>>

\* mcp-write-result-v32: a temporary file, renamed; an old result is deleted.
WriteIpcResult ==
  /\ AtStage("ran") /\ StageDone("told")
  /\ resultFile' = [resultFile EXCEPT ![dispatching.request] = dispatching.outcome]
  /\ RunnerKept /\ UNCHANGED <<cmdFile, triggers, ranTimes>>

\* Mutant: the command file is left to its client.
Kept(r) == cmdFile

\* vl-file-delete, at the end of mcp-process-request.
Consumed(r) == cmdFile \ {r}

EndDispatch ==
  /\ AtStage("told")
  /\ cmdFile' = Consumed(dispatching.request)
  /\ dispatching' = NotDispatching
  /\ RunnerKept /\ UNCHANGED <<resultFile, triggers, ranTimes>>

-----------------------------------------------------------------------------
(* The user.                                                               *)

UserMoves ==
  /\ moves < MaxMoves /\ moves' = moves + 1 /\ dispatching = NotDispatching
  /\ UNCHANGED <<clientUp, ipcCalls, ipcFiles, triggers, dispatching, ranTimes>>

SwitchDocument ==
  /\ ~modal /\ activeDoc' \in (Documents \cup {NoDocument}) \ {activeDoc}
  /\ UserMoves /\ UNCHANGED <<loaded, modal, commandActive>>
Dialog == modal' = ~modal /\ UserMoves /\ UNCHANGED <<activeDoc, loaded, commandActive>>
UserCommand ==
  /\ ~modal /\ activeDoc # NoDocument /\ commandActive' = ~commandActive
  /\ UserMoves /\ UNCHANGED <<activeDoc, loaded, modal>>
LoadDispatcher ==
  /\ activeDoc \in Documents \ loaded /\ loaded' = loaded \cup {activeDoc}
  /\ UserMoves /\ UNCHANGED <<activeDoc, modal, commandActive>>

-----------------------------------------------------------------------------
IpcNext ==
  \/ \E c \in Clients : ClientStarts(c) \/ ClientStops(c) \/ \E d \in Documents : OpenDocument(c, d)
  \/ \E r \in IpcRequests :
       \/ Begin(r) \/ RefuseCall(r) \/ RouteCommand(r) \/ RoutingFails(r)
       \/ ReadResult(r) \/ Settle(r) \/ TimeOut(r)
       \/ TriggerUnloaded(r) \/ TriggerTooLate(r) \/ TriggerReads(r)
  \/ RunCommand \/ WriteIpcResult \/ EndDispatch
  \/ SwitchDocument \/ Dialog \/ UserCommand \/ LoadDispatcher

IpcSpec == IpcInit /\ [][IpcNext]_ipcVars

-----------------------------------------------------------------------------
\* A command runs at most once, though its trigger may be posted twice, run late
\* and meet the files of other processes, and one reported done has run (_route,
\* _dispatch_once, mcp-process-request).
RequestRunsOnce ==
  \A r \in IpcRequests : ranTimes[r] <= 1 /\ (answered[r] = "done" => ranTimes[r] = 1)
=============================================================================
