----------------------------- MODULE HostProofs ------------------------------
(***************************************************************************)
(* Proofs about what stands next to AutoCAD: the File IPC backend          *)
(* (FileIpc), the events of a document (DocumentEvents), the transactions  *)
(* of the Managed Host (HostDrawing) and its link to the Agent (HostLink). *)
(* The components are proved one after the other; none depends on another. *)
(***************************************************************************)
EXTENDS FileIpc, DocumentEvents, HostDrawing, HostLink, FiniteSetTheorems, TLAPS

-----------------------------------------------------------------------------
(* File IPC.                                                               *)

Answers == Results \cup Refusals \cup {Unanswered}
Dispatches == [request : IpcRequests, stage : {"read", "ran", "told"}, outcome : Outcomes]

\* Type correctness of what a request consists of.
IpcTypes ==
  /\ call \in [IpcRequests -> {"new", "waiting", "polling", "settling", "over"}]
  /\ answered \in [IpcRequests -> Answers]
  /\ seen \in [IpcRequests -> Answers] /\ resultFile \in [IpcRequests -> Answers]
  /\ cmdFile \subseteq IpcRequests /\ triggers \in [IpcRequests -> Nat]
  /\ dispatching \in {NotDispatching} \cup Dispatches
  /\ ranTimes \in [IpcRequests -> Nat]

Handles(r) == dispatching # NotDispatching /\ dispatching.request = r

\* A request that has not been routed has left nothing behind.
CallInv ==
  \A r \in IpcRequests : call[r] \in {"new", "waiting"} =>
    /\ r \notin cmdFile /\ triggers[r] = 0 /\ ranTimes[r] = 0 /\ ~Handles(r)
    /\ resultFile[r] = Unanswered /\ seen[r] = Unanswered /\ answered[r] = Unanswered

\* A second attempt comes after the first is over.
RetryInv == \A r \in DOMAIN RetryOf : call[RetryOf[r]] # "new" => call[r] = "over"

\* The dispatcher runs what it has read, and the file of what has run is there only
\* until it has been told.
RunInv ==
  /\ \A r \in IpcRequests :
       /\ ranTimes[r] <= 1
       /\ ranTimes[r] = 1 /\ r \in cmdFile => Handles(r) /\ dispatching.stage # "read"
  /\ dispatching # NotDispatching =>
       ranTimes[dispatching.request] = IF dispatching.stage = "read" THEN 0 ELSE 1

\* What says done has run.
DoneInv ==
  \A r \in IpcRequests :
    "done" \in {resultFile[r], seen[r], answered[r]} => ranTimes[r] = 1

IpcInv == IpcTypes /\ CallInv /\ RetryInv /\ RunInv /\ DoneInv

LEMMA IpcInitially == IpcInit => IpcInv
<1> SUFFICES ASSUME IpcInit PROVE IpcInv
  OBVIOUS
<1>1. /\ call = [r \in IpcRequests |-> "new"] /\ cmdFile = {} /\ dispatching = NotDispatching
      /\ answered = [r \in IpcRequests |-> Unanswered] /\ seen = answered /\ resultFile = answered
      /\ triggers = [r \in IpcRequests |-> 0] /\ ranTimes = triggers
  BY DEF IpcInit
<1>2. IpcTypes
  BY <1>1 DEF IpcTypes, Answers
<1>3. CallInv /\ RunInv /\ DoneInv
  <2>1. \A r \in IpcRequests :
          /\ resultFile[r] = Unanswered /\ seen[r] = Unanswered /\ answered[r] = Unanswered
          /\ triggers[r] = 0 /\ ranTimes[r] = 0 /\ ~Handles(r)
    BY <1>1 DEF Handles
  <2> QED
    <3>1. CallInv
      BY <1>1, <2>1 DEF CallInv
    <3>2. RunInv
      BY <1>1, <2>1 DEF RunInv
    <3>3. DoneInv
      BY <2>1 DEF DoneInv, Unanswered
    <3> QED
      BY <3>1, <3>2, <3>3
<1>4. RetryInv
  BY <1>1, RequestsAssumption DEF RetryInv
<1> QED
  BY <1>2, <1>3, <1>4 DEF IpcInv

\* Steps of clients that do not end a request, and of the user.
LEMMA IpcScreenSteps ==
  ASSUME IpcInv,
         UNCHANGED <<call, answered, seen, cmdFile, resultFile, triggers, dispatching, ranTimes>>
  PROVE  IpcInv'
  BY DEF IpcInv, IpcTypes, CallInv, RetryInv, RunInv, DoneInv, Handles

LEMMA ClientSteps ==
  ASSUME IpcInv, NEW c \in Clients, ClientStarts(c) \/ ClientStops(c)
  PROVE  IpcInv'
<1>1. IpcTypes /\ CallInv /\ RetryInv /\ RunInv /\ DoneInv
  BY DEF IpcInv
<1>2. CASE ClientStarts(c)
  <2>1. PICK old \in SUBSET (cmdFile \cup {r \in IpcRequests : resultFile[r] # Unanswered}) :
          /\ cmdFile' = cmdFile \ old
          /\ resultFile' = [r \in IpcRequests |-> IF r \in old THEN Unanswered ELSE resultFile[r]]
    BY <1>2 DEF ClientStarts
  <2>2. UNCHANGED <<call, answered, expected, seen, triggers, dispatching, ranTimes>>
    BY <1>2 DEF ClientStarts, ipcCalls
  <2>3. IpcTypes' /\ RetryInv' /\ RunInv'
    BY <1>1, <2>1, <2>2 DEF IpcTypes, RetryInv, RunInv, Handles, Answers
  <2>4. CallInv' /\ DoneInv'
    BY <1>1, <2>1, <2>2 DEF CallInv, DoneInv, Handles, Unanswered
  <2> QED
    BY <2>3, <2>4 DEF IpcInv
<1>3. CASE ClientStops(c)
  <2>1. /\ call' = [r \in IpcRequests |-> IF ClientOf[r] = c THEN "over" ELSE call[r]]
        /\ UNCHANGED <<answered, seen, cmdFile, resultFile, triggers, dispatching, ranTimes>>
    BY <1>3 DEF ClientStops, ipcFiles
  <2>2. IpcTypes' /\ CallInv' /\ RunInv' /\ DoneInv'
    BY <1>1, <2>1 DEF IpcTypes, CallInv, RunInv, DoneInv, Handles
  <2>3. RetryInv'
    BY <1>1, <2>1, RequestsAssumption DEF RetryInv
  <2> QED
    BY <2>2, <2>3 DEF IpcInv
<1> QED
  BY <1>2, <1>3

LEMMA BeginStep == ASSUME IpcInv, NEW r \in IpcRequests, Begin(r) PROVE IpcInv'
<1>1. IpcTypes /\ CallInv /\ RetryInv /\ RunInv /\ DoneInv
  BY DEF IpcInv
<1>2. /\ call[r] = "new" /\ r \notin Retries /\ call' = [call EXCEPT ![r] = "waiting"]
      /\ UNCHANGED <<answered, seen, cmdFile, resultFile, triggers, dispatching, ranTimes>>
  BY DEF Begin, ipcFiles
<1>3. IpcTypes' /\ CallInv' /\ RunInv' /\ DoneInv'
  BY <1>1, <1>2 DEF IpcTypes, CallInv, RunInv, DoneInv, Handles
<1>4. RetryInv'
  BY <1>1, <1>2, RequestsAssumption DEF RetryInv, Retries, IpcTypes
<1> QED
  BY <1>3, <1>4 DEF IpcInv

\* The end of an attempt: what the caller is told is no result but the one it read,
\* and the files of the request may go.
LEMMA ToldStep ==
  ASSUME IpcInv, NEW r \in IpcRequests, call[r] \in {"waiting", "polling", "settling"},
         NEW word \in Answers, word = "done" => seen[r] = "done", Told(r, word),
         UNCHANGED <<seen, triggers>>, cmdFile' = cmdFile \/ cmdFile' = cmdFile \ {r},
         resultFile' = resultFile \/ resultFile' = [resultFile EXCEPT ![r] = Unanswered]
  PROVE  IpcInv'
<1>1. IpcTypes /\ CallInv /\ RetryInv /\ RunInv /\ DoneInv
  BY DEF IpcInv
<1>2. /\ answered' = [answered EXCEPT ![r] = word] /\ UNCHANGED <<dispatching, ranTimes>>
      /\ call' = [q \in IpcRequests |-> IF q = r THEN "over"
                                     ELSE IF TriedAgain(r, word) /\ q = RetryOf[r] THEN "waiting"
                                     ELSE call[q]]
  BY DEF Told
<1>3. r \in DOMAIN RetryOf => call[RetryOf[r]] = "new" /\ RetryOf[r] \in IpcRequests
  BY <1>1, RequestsAssumption DEF RetryInv
<1>4. TriedAgain(r, word) => r \in DOMAIN RetryOf
  BY DEF TriedAgain
<1>5. \A q \in IpcRequests :
        \/ q = r /\ call'[q] = "over"
        \/ q # r /\ call'[q] = call[q]
        \/ q # r /\ r \in DOMAIN RetryOf /\ q = RetryOf[r] /\ call[q] = "new" /\ call'[q] = "waiting"
  BY <1>2, <1>3, <1>4
<1>6. IpcTypes'
  BY <1>1, <1>2 DEF IpcTypes, Answers
<1>7. CallInv'
  <2> SUFFICES ASSUME NEW q \in IpcRequests, call'[q] \in {"new", "waiting"}
               PROVE  /\ q \notin cmdFile' /\ triggers'[q] = 0 /\ ranTimes'[q] = 0 /\ ~Handles(q)'
                      /\ resultFile'[q] = Unanswered /\ seen'[q] = Unanswered
                      /\ answered'[q] = Unanswered
    BY DEF CallInv
  <2>1. q # r /\ call[q] \in {"new", "waiting"}
    BY <1>5
  <2> QED
    BY <1>1, <1>2, <2>1 DEF CallInv, IpcTypes, Handles
<1>8. RetryInv'
  <2> SUFFICES ASSUME NEW p \in DOMAIN RetryOf, call'[RetryOf[p]] # "new" PROVE call'[p] = "over"
    BY DEF RetryInv
  <2>1. p \in IpcRequests /\ RetryOf[p] \in IpcRequests
    BY RequestsAssumption
  <2>2. CASE RetryOf[p] = r
    <3>1. call[p] = "over"
      BY <1>1, <2>2 DEF RetryInv
    <3> QED
      BY <1>5, <2>1, <3>1
  <2>3. CASE RetryOf[p] # r /\ call[RetryOf[p]] # "new"
    <3>1. call[p] = "over"
      BY <1>1, <2>3 DEF RetryInv
    <3> QED
      BY <1>5, <2>1, <3>1
  <2>4. CASE RetryOf[p] # r /\ call[RetryOf[p]] = "new"
    <3>1. r \in DOMAIN RetryOf /\ RetryOf[p] = RetryOf[r]
      BY <1>5, <2>1, <2>4
    <3>2. p = r
      BY <3>1, RequestsAssumption
    <3> QED
      BY <1>5, <3>2
  <2> QED
    BY <2>2, <2>3, <2>4
<1>9. RunInv'
  BY <1>1, <1>2 DEF RunInv, Handles
<1>10. DoneInv'
  <2> SUFFICES ASSUME NEW q \in IpcRequests, "done" \in {resultFile'[q], seen'[q], answered'[q]}
               PROVE  ranTimes'[q] = 1
    BY DEF DoneInv
  <2>1. "done" \in {resultFile[q], seen[q], answered[q]}
    BY <1>1, <1>2 DEF IpcTypes, Unanswered
  <2> QED
    BY <1>1, <1>2, <2>1 DEF DoneInv
<1> QED
  BY <1>6, <1>7, <1>8, <1>9, <1>10 DEF IpcInv

LEMMA TroubleTyped ==
  /\ Trouble \in Answers /\ Trouble # "done"
  /\ \A r : TroubleSettling(r) \in Answers /\ TroubleSettling(r) # "done"
  /\ \A r : TroubleAtTimeout(r) \in Answers /\ TroubleAtTimeout(r) # "done"
<1>1. Trouble \in Answers /\ Trouble # "done"
  BY DEF Trouble, Answers, Refusals, Unanswered
<1> QED
  BY <1>1 DEF TroubleSettling, TroubleAtTimeout, Answers, Refusals

LEMMA EndingSteps ==
  ASSUME IpcInv, NEW r \in IpcRequests, RefuseCall(r) \/ Settle(r) \/ TimeOut(r)
  PROVE  IpcInv'
<1>1. CASE RefuseCall(r)
  <2>1. /\ call[r] = "waiting" /\ Told(r, Trouble) /\ UNCHANGED <<seen, triggers, cmdFile, resultFile>>
    BY <1>1 DEF RefuseCall, ipcFiles
  <2> QED
    BY <2>1, ToldStep, TroubleTyped
<1>2. CASE Settle(r)
  <2> DEFINE word == IF TroubleSettling(r) = Unanswered THEN seen[r] ELSE TroubleSettling(r)
  <2>1. call[r] = "settling" /\ Told(r, word) /\ Unlinked(r) /\ UNCHANGED <<seen, triggers>>
    BY <1>2 DEF Settle
  <2>2. word \in Answers /\ (word = "done" => seen[r] = "done")
    BY TroubleTyped DEF IpcInv, IpcTypes
  <2> HIDE DEF word
  <2> QED
    BY <2>1, <2>2, ToldStep DEF Unlinked
<1>3. CASE TimeOut(r)
  <2>1. call[r] = "polling" /\ Told(r, TroubleAtTimeout(r)) /\ Unlinked(r) /\ UNCHANGED <<seen, triggers>>
    BY <1>3 DEF TimeOut
  <2> QED
    BY <2>1, ToldStep, TroubleTyped DEF Unlinked
<1> QED
  BY <1>1, <1>2, <1>3

\* A request is routed, or is not, and its result is read.
LEMMA RoutingSteps ==
  ASSUME IpcInv, NEW r \in IpcRequests, RouteCommand(r) \/ RoutingFails(r) \/ ReadResult(r)
  PROVE  IpcInv'
<1>1. IpcTypes /\ CallInv /\ RetryInv /\ RunInv /\ DoneInv
  BY DEF IpcInv
<1>2. /\ UNCHANGED <<resultFile, dispatching, ranTimes>> /\ call[r] \in {"waiting", "polling"}
      /\ \E word \in {"polling", "settling", "over"} : call' = [call EXCEPT ![r] = word]
      /\ \/ triggers' = triggers
         \/ \E n \in 0 .. 2 : triggers' = [triggers EXCEPT ![r] = n]
      /\ \/ cmdFile' = cmdFile
         \/ cmdFile' = cmdFile \cup {r} /\ call[r] = "waiting"
      /\ seen' = seen \/ seen' = [seen EXCEPT ![r] = resultFile[r]]
      /\ answered' = answered \/ answered' = [answered EXCEPT ![r] = "command_routing_failed"]
  <2>1. CASE RouteCommand(r)
    <3>1. \E n \in 0 .. 2 : triggers' = [triggers EXCEPT ![r] = n]
      <4>1. PICK n \in 1 .. 2 : triggers' = [triggers EXCEPT ![r] = n]
        BY <2>1 DEF RouteCommand
      <4>2. n \in 0 .. 2
        OBVIOUS
      <4> QED
        BY <4>1, <4>2
    <3>2. \E word \in {"polling", "settling", "over"} : call' = [call EXCEPT ![r] = word]
      BY <2>1 DEF RouteCommand
    <3>3. /\ UNCHANGED <<resultFile, dispatching, ranTimes, seen, answered>>
          /\ call[r] = "waiting" /\ cmdFile' = cmdFile \cup {r}
      BY <2>1 DEF RouteCommand
    <3> QED
      BY <3>1, <3>2, <3>3
  <2>2. CASE RoutingFails(r)
    BY <2>2 DEF RoutingFails, ipcFiles
  <2>3. CASE ReadResult(r)
    BY <2>3 DEF ReadResult, ipcFiles
  <2> QED
    BY <2>1, <2>2, <2>3
<1>3. /\ call'[r] \in {"polling", "settling", "over"}
      /\ \A q \in IpcRequests : q # r => call'[q] = call[q] /\ triggers'[q] = triggers[q]
                                         /\ (q \in cmdFile' <=> q \in cmdFile)
                                         /\ seen'[q] = seen[q] /\ answered'[q] = answered[q]
  BY <1>1, <1>2 DEF IpcTypes
<1>4. IpcTypes'
  BY <1>1, <1>2 DEF IpcTypes, Answers, Refusals
<1>5. CallInv'
  BY <1>1, <1>2, <1>3 DEF CallInv, Handles
<1>6. RetryInv'
  <2> SUFFICES ASSUME NEW p \in DOMAIN RetryOf, call'[RetryOf[p]] # "new" PROVE call'[p] = "over"
    BY DEF RetryInv
  <2>1. p \in IpcRequests /\ RetryOf[p] \in IpcRequests /\ call[r] # "new" /\ call[r] # "over"
    BY <1>2, RequestsAssumption
  <2>2. call[RetryOf[p]] # "new"
    BY <1>3, <2>1
  <2>3. call[p] = "over"
    BY <1>1, <2>2 DEF RetryInv
  <2> QED
    BY <1>3, <2>1, <2>3
<1>7. RunInv'
  <2>1. r \in cmdFile' /\ r \notin cmdFile => ranTimes[r] = 0
    BY <1>1, <1>2 DEF CallInv
  <2> QED
    BY <1>1, <1>2, <1>3, <2>1 DEF RunInv, Handles
<1>8. DoneInv'
  <2> SUFFICES ASSUME NEW q \in IpcRequests, "done" \in {resultFile'[q], seen'[q], answered'[q]}
               PROVE  ranTimes'[q] = 1
    BY DEF DoneInv
  <2>1. "done" \in {resultFile[q], seen[q], answered[q]}
    BY <1>1, <1>2 DEF IpcTypes
  <2> QED
    BY <1>1, <1>2, <2>1 DEF DoneInv
<1> QED
  BY <1>4, <1>5, <1>6, <1>7, <1>8 DEF IpcInv

\* A trigger runs: too late, without a dispatcher, or it reads the command.
LEMMA TriggerSteps ==
  ASSUME IpcInv, NEW r \in IpcRequests, TriggerUnloaded(r) \/ TriggerTooLate(r) \/ TriggerReads(r)
  PROVE  IpcInv'
<1>1. IpcTypes /\ CallInv /\ RetryInv /\ RunInv /\ DoneInv
  BY DEF IpcInv
<1>2. /\ UNCHANGED <<call, answered, seen, cmdFile, ranTimes>>
      /\ triggers[r] > 0 /\ triggers' = [triggers EXCEPT ![r] = @ - 1] /\ dispatching = NotDispatching
  BY DEF TriggerUnloaded, TriggerTooLate, TriggerReads, TriggerRuns, RunnerKept, ipcCalls, ipcFiles,
         Ready, Trouble, Quiescent, NoDocument, Unanswered
<1>3. call[r] \notin {"new", "waiting"} /\ triggers[r] \in Nat
  BY <1>1, <1>2 DEF CallInv, IpcTypes
<1>4. triggers' \in [IpcRequests -> Nat]
  BY <1>1, <1>2, <1>3 DEF IpcTypes
<1>5. \/ dispatching' = NotDispatching
      \/ r \in cmdFile /\ \E o \in Outcomes : dispatching' = [request |-> r, stage |-> "read", outcome |-> o]
  BY <1>2 DEF TriggerUnloaded, TriggerTooLate, TriggerReads
<1>6. \/ resultFile' = resultFile
      \/ \E word \in {"dispatcher_missing", "ipc_command_missing"} :
           resultFile' = [resultFile EXCEPT ![r] = word]
  <2>1. CASE TriggerUnloaded(r)
    BY <1>1, <2>1 DEF TriggerUnloaded, IpcTypes
  <2>2. CASE TriggerTooLate(r)
    BY <2>2 DEF TriggerTooLate
  <2>3. CASE TriggerReads(r)
    BY <2>3 DEF TriggerReads, ipcFiles
  <2> QED
    BY <2>1, <2>2, <2>3
<1>7. \/ dispatching' = NotDispatching
      \/ /\ dispatching' \in Dispatches /\ dispatching'.request = r /\ dispatching'.stage = "read"
         /\ r \in cmdFile
  BY <1>5 DEF Dispatches
<1>8. \A q \in IpcRequests : Handles(q)' => q = r
  BY <1>7 DEF Handles
<1>9. IpcTypes'
  BY <1>1, <1>2, <1>4, <1>6, <1>7 DEF IpcTypes, Answers, Results
<1>10. CallInv'
  <2> SUFFICES ASSUME NEW q \in IpcRequests, call[q] \in {"new", "waiting"}
               PROVE  /\ q \notin cmdFile' /\ triggers'[q] = 0 /\ ranTimes'[q] = 0 /\ ~Handles(q)'
                      /\ resultFile'[q] = Unanswered /\ seen'[q] = Unanswered
                      /\ answered'[q] = Unanswered
    BY <1>2 DEF CallInv
  <2>1. q # r
    BY <1>3
  <2>2. triggers'[q] = triggers[q] /\ resultFile'[q] = resultFile[q]
    BY <1>1, <1>2, <1>6, <2>1 DEF IpcTypes
  <2> QED
    BY <1>1, <1>2, <1>8, <2>1, <2>2 DEF CallInv
<1>11. RetryInv'
  BY <1>1, <1>2 DEF RetryInv
<1>12. RunInv'
  <2>1. \A q \in IpcRequests : ranTimes[q] = 1 => q \notin cmdFile
    BY <1>1, <1>2 DEF RunInv, Handles
  <2>2. r \in cmdFile => ranTimes[r] = 0
    BY <1>1, <2>1 DEF RunInv, IpcTypes
  <2> QED
    BY <1>1, <1>2, <1>7, <2>1, <2>2 DEF RunInv
<1>13. DoneInv'
  <2> SUFFICES ASSUME NEW q \in IpcRequests, "done" \in {resultFile'[q], seen'[q], answered'[q]}
               PROVE  ranTimes'[q] = 1
    BY DEF DoneInv
  <2>1. "done" \in {resultFile[q], seen[q], answered[q]}
    BY <1>1, <1>2, <1>6 DEF IpcTypes
  <2> QED
    BY <1>1, <1>2, <2>1 DEF DoneInv
<1> QED
  BY <1>9, <1>10, <1>11, <1>12, <1>13 DEF IpcInv

\* The dispatcher: it runs the command it has read, tells of it, and lets go of it.
LEMMA DispatcherSteps ==
  ASSUME IpcInv, RunCommand \/ WriteIpcResult \/ EndDispatch
  PROVE  IpcInv'
<1>1. IpcTypes /\ CallInv /\ RetryInv /\ RunInv /\ DoneInv
  BY DEF IpcInv
<1>2. UNCHANGED <<call, answered, seen, triggers>> /\ dispatching # NotDispatching
  BY DEF RunCommand, WriteIpcResult, EndDispatch, AtStage, RunnerKept, ipcCalls, ipcFiles
<1>3. dispatching \in Dispatches
  BY <1>1, <1>2 DEF IpcTypes
<1>4. PICK r \in IpcRequests : r = dispatching.request
  BY <1>3 DEF Dispatches
<1>5. Handles(r) /\ \A q \in IpcRequests : Handles(q) => q = r
  BY <1>2, <1>4 DEF Handles
<1>6. call[r] \notin {"new", "waiting"}
  BY <1>1, <1>5 DEF CallInv
<1>7. RetryInv'
  BY <1>1, <1>2 DEF RetryInv
<1>8. CASE RunCommand
  <2>1. /\ dispatching.stage = "read" /\ dispatching' = [dispatching EXCEPT !.stage = "ran"]
        /\ ranTimes' = [ranTimes EXCEPT ![r] = @ + 1] /\ UNCHANGED <<cmdFile, resultFile>>
    BY <1>4, <1>8 DEF RunCommand, AtStage, StageDone, ipcFiles
  <2>2. /\ dispatching' \in Dispatches /\ dispatching'.request = r /\ dispatching'.stage = "ran"
        /\ dispatching' # NotDispatching
    <3>1. dispatching' \in Dispatches /\ dispatching'.request = r /\ dispatching'.stage = "ran"
      BY <1>3, <1>4, <2>1 DEF Dispatches
    <3> QED
      BY <3>1 DEF NotDispatching, Dispatches
  <2>3. ranTimes[r] = 0
    BY <1>1, <1>2, <1>4, <2>1 DEF RunInv
  <2>4. ranTimes' \in [IpcRequests -> Nat] /\ ranTimes'[r] = 1
        /\ \A q \in IpcRequests : q # r => ranTimes'[q] = ranTimes[q]
    BY <1>1, <2>1, <2>3 DEF IpcTypes
  <2>5. \A q \in IpcRequests : Handles(q)' <=> q = r
    BY <2>2 DEF Handles
  <2>6. IpcTypes'
    BY <1>1, <1>2, <2>1, <2>2, <2>4 DEF IpcTypes
  <2>7. CallInv'
    BY <1>1, <1>2, <1>6, <2>1, <2>4, <2>5 DEF CallInv
  <2>8. RunInv' /\ DoneInv'
    BY <1>1, <1>2, <1>5, <2>1, <2>2, <2>4, <2>5 DEF RunInv, DoneInv
  <2> QED
    BY <1>7, <2>6, <2>7, <2>8 DEF IpcInv
<1>9. CASE WriteIpcResult
  <2>1. /\ dispatching.stage = "ran" /\ dispatching' = [dispatching EXCEPT !.stage = "told"]
        /\ resultFile' = [resultFile EXCEPT ![r] = dispatching.outcome]
        /\ UNCHANGED <<cmdFile, ranTimes>>
    BY <1>4, <1>9 DEF WriteIpcResult, AtStage, StageDone
  <2>2. /\ dispatching' \in Dispatches /\ dispatching'.request = r /\ dispatching'.stage = "told"
        /\ dispatching' # NotDispatching /\ dispatching.outcome \in Answers
    <3>1. /\ dispatching' \in Dispatches /\ dispatching'.request = r /\ dispatching'.stage = "told"
          /\ dispatching.outcome \in Answers
      BY <1>3, <1>4, <2>1 DEF Dispatches, Answers, Results
    <3> QED
      BY <3>1 DEF NotDispatching, Dispatches
  <2>3. ranTimes[r] = 1
    BY <1>1, <1>2, <1>4, <2>1 DEF RunInv
  <2>4. \A q \in IpcRequests : Handles(q)' <=> q = r
    BY <2>2 DEF Handles
  <2>5. \A q \in IpcRequests : q # r => resultFile'[q] = resultFile[q]
    BY <1>1, <2>1 DEF IpcTypes
  <2>6. IpcTypes'
    BY <1>1, <1>2, <2>1, <2>2 DEF IpcTypes
  <2>7. CallInv'
    BY <1>1, <1>2, <1>6, <2>1, <2>4, <2>5 DEF CallInv
  <2>8. RunInv' /\ DoneInv'
    BY <1>1, <1>2, <1>5, <2>1, <2>2, <2>3, <2>4, <2>5 DEF RunInv, DoneInv
  <2> QED
    BY <1>7, <2>6, <2>7, <2>8 DEF IpcInv
<1>10. CASE EndDispatch
  <2>1. /\ cmdFile' = cmdFile \ {r} /\ dispatching' = NotDispatching /\ UNCHANGED <<resultFile, ranTimes>>
    BY <1>4, <1>10 DEF EndDispatch, Consumed
  <2>2. \A q \in IpcRequests : ~Handles(q)'
    BY <2>1 DEF Handles
  <2>3. IpcTypes' /\ CallInv' /\ DoneInv'
    BY <1>1, <1>2, <2>1, <2>2 DEF IpcTypes, CallInv, DoneInv
  <2>4. RunInv'
    BY <1>1, <1>5, <2>1, <2>2 DEF RunInv
  <2> QED
    BY <1>7, <2>3, <2>4 DEF IpcInv
<1> QED
  BY <1>8, <1>9, <1>10

LEMMA IpcStep == IpcInv /\ [IpcNext]_ipcVars => IpcInv'
<1> SUFFICES ASSUME IpcInv, [IpcNext]_ipcVars PROVE IpcInv'
  OBVIOUS
<1>1. CASE \/ UNCHANGED ipcVars \/ \E c \in Clients, d \in Documents : OpenDocument(c, d)
           \/ SwitchDocument \/ Dialog \/ UserCommand \/ LoadDispatcher
  <2>1. UNCHANGED <<call, answered, seen, cmdFile, resultFile, triggers, dispatching, ranTimes>>
    BY <1>1 DEF ipcVars, ipcCalls, ipcFiles, OpenDocument, SwitchDocument, Dialog, UserCommand,
                LoadDispatcher, UserMoves
  <2> QED
    BY <2>1, IpcScreenSteps
<1> QED
  BY <1>1, ClientSteps, BeginStep, EndingSteps, RoutingSteps, TriggerSteps, DispatcherSteps DEF IpcNext

\* However often a trigger was posted and whenever it runs, its command runs once at
\* most, and what was told to be done has run (_route, _dispatch_once,
\* mcp-process-request).
THEOREM CommandRunsOnce == IpcSpec => []RequestRunsOnce
<1>1. IpcInv => RequestRunsOnce
  BY DEF IpcInv, RunInv, DoneInv, RequestRunsOnce
<1> QED
  BY <1>1, IpcInitially, IpcStep, PTL DEF IpcSpec
-----------------------------------------------------------------------------
(* Document events.                                                        *)

EventBatches == [kind : Kinds, first : Nat, last : Nat]

\* Batches follow one another up to number n, and leave out nothing after the first.
EventChain(b, n) ==
  /\ b \in Seq(EventBatches)
  /\ \A i \in 1 .. Len(b) : b[i].first <= b[i].last /\ b[i].last <= n
  /\ \A i, j \in 1 .. Len(b) : i < j => b[i].last < b[j].first
  /\ \A x \in Nat : b # <<>> /\ b[1].first <= x /\ x <= n =>
       \E k \in 1 .. Len(b) : b[k].first <= x /\ x <= b[k].last

EventsInv ==
  /\ eventSequence \in Nat /\ EventChain(batches, eventSequence)
  /\ cursor \in Nat /\ cursor <= eventSequence
  /\ NoSilentGap

LEMMA EventsInitially == EventsInit => EventsInv
<1> SUFFICES ASSUME EventsInit PROVE EventsInv
  OBVIOUS
<1>1. eventSequence = 0 /\ batches = <<>> /\ cursor = 0 /\ reported = {}
  BY DEF EventsInit
<1>2. EventChain(<<>>, 0)
  BY DEF EventChain
<1>3. 1 .. 0 = {}
  OBVIOUS
<1> QED
  BY <1>1, <1>2, <1>3 DEF EventsInv, NoSilentGap

\* The members of a chain.
LEMMA ChainTyped ==
  ASSUME NEW b, NEW n, EventChain(b, n), NEW i \in 1 .. Len(b)
  PROVE  /\ b[i] \in EventBatches /\ b[i].first \in Nat /\ b[i].last \in Nat
         /\ b[i].last <= n /\ b[i].first <= b[i].last
<1>1. b[i] \in EventBatches
  BY DEF EventChain
<1>2. b[i].first \in Nat /\ b[i].last \in Nat
  BY <1>1 DEF EventBatches
<1> QED
  BY <1>1, <1>2 DEF EventChain

\* An event in a batch of its own, one folded into the last batch, and the oldest
\* batch dropped.
LEMMA ChainAppended ==
  ASSUME NEW b, NEW n \in Nat, EventChain(b, n), NEW kind \in Kinds
  PROVE  EventChain(Append(b, [kind |-> kind, first |-> n + 1, last |-> n + 1]), n + 1)
<1> DEFINE e == [kind |-> kind, first |-> n + 1, last |-> n + 1]
           c == Append(b, e)
<1>1. /\ b \in Seq(EventBatches) /\ e \in EventBatches /\ Len(b) \in Nat
      /\ e.first = n + 1 /\ e.last = n + 1
  BY DEF EventChain, EventBatches
<1> HIDE DEF e
<1>2. /\ c \in Seq(EventBatches) /\ Len(c) = Len(b) + 1 /\ c[Len(b) + 1] = e
      /\ \A i \in 1 .. Len(b) : c[i] = b[i]
  BY <1>1
<1> HIDE DEF c
<1>3. \A i \in 1 .. Len(c) : i = Len(b) + 1 \/ i \in 1 .. Len(b)
  BY <1>1, <1>2
<1>4. \A i \in 1 .. Len(b) : b[i].first \in Nat /\ b[i].last \in Nat /\ b[i].last <= n
                             /\ b[i].first <= b[i].last
  BY ChainTyped
<1>5. \A i \in 1 .. Len(c) : c[i].first <= c[i].last /\ c[i].last <= n + 1
  BY <1>1, <1>2, <1>3, <1>4
<1>6. ASSUME NEW i \in 1 .. Len(c), NEW j \in 1 .. Len(c), i < j PROVE c[i].last < c[j].first
  <2>1. i \in 1 .. Len(b)
    BY <1>1, <1>2, <1>3, <1>6
  <2>2. CASE j = Len(b) + 1
    BY <1>1, <1>2, <1>4, <2>1, <2>2
  <2>3. CASE j \in 1 .. Len(b)
    BY <1>2, <1>6, <2>1, <2>3 DEF EventChain
  <2> QED
    BY <1>3, <2>2, <2>3
<1>7. ASSUME NEW x \in Nat, c # <<>>, c[1].first <= x, x <= n + 1
      PROVE  \E k \in 1 .. Len(c) : c[k].first <= x /\ x <= c[k].last
  <2>1. CASE x = n + 1
    BY <1>1, <1>2, <2>1
  <2>2. CASE x # n + 1
    <3>1. b # <<>>
      <4>1. SUFFICES ASSUME b = <<>> PROVE FALSE
        OBVIOUS
      <4>2. Len(b) = 0
        BY <4>1
      <4>3. c[1] = e
        BY <1>2, <4>2
      <4> QED
        BY <1>1, <1>7, <2>2, <4>3
    <3>2. Len(b) >= 1 /\ c[1] = b[1]
      BY <1>1, <1>2, <3>1
    <3>3. PICK k \in 1 .. Len(b) : b[k].first <= x /\ x <= b[k].last
      BY <1>7, <2>2, <3>1, <3>2 DEF EventChain
    <3> QED
      BY <1>1, <1>2, <3>3
  <2> QED
    BY <2>1, <2>2
<1>8. EventChain(c, n + 1)
  BY <1>2, <1>5, <1>6, <1>7 DEF EventChain
<1> QED
  BY <1>8 DEF c, e

LEMMA ChainExtended ==
  ASSUME NEW b, NEW n \in Nat, EventChain(b, n), b # <<>>
  PROVE  EventChain([b EXCEPT ![Len(b)].last = n + 1], n + 1)
<1> DEFINE m == Len(b)
           e == [b[m] EXCEPT !.last = n + 1]
           c == [b EXCEPT ![m] = e]
<1>1. b \in Seq(EventBatches) /\ m \in Nat /\ m \in 1 .. m
  BY DEF EventChain
<1>2. \A i \in 1 .. m : /\ b[i] \in EventBatches /\ b[i].first \in Nat /\ b[i].last \in Nat
                        /\ b[i].last <= n /\ b[i].first <= b[i].last
  BY ChainTyped
<1>3. e \in EventBatches /\ e.first = b[m].first /\ e.last = n + 1
  BY <1>1, <1>2 DEF EventBatches
<1> HIDE DEF e
<1>4. c \in Seq(EventBatches) /\ Len(c) = m /\ c[m] = e /\ \A i \in 1 .. m : i # m => c[i] = b[i]
  BY <1>1, <1>3
<1> HIDE DEF c
<1>5. \A i \in 1 .. m : c[i].first = b[i].first /\ b[i].last <= c[i].last
  BY <1>1, <1>2, <1>3, <1>4
<1>6. \A i \in 1 .. m : c[i].first <= c[i].last /\ c[i].last <= n + 1
  BY <1>1, <1>2, <1>3, <1>4
<1>7. ASSUME NEW i \in 1 .. m, NEW j \in 1 .. m, i < j PROVE c[i].last < c[j].first
  <2>1. i # m /\ c[i] = b[i]
    BY <1>1, <1>4, <1>7
  <2> QED
    BY <1>5, <1>7, <2>1 DEF EventChain
<1>8. ASSUME NEW x \in Nat, c[1].first <= x, x <= n + 1
      PROVE  \E k \in 1 .. m : c[k].first <= x /\ x <= c[k].last
  <2>1. CASE x = n + 1
    <3>1. c[m].first <= n + 1 /\ c[m].last = n + 1
      BY <1>1, <1>3, <1>4, <1>6
    <3> QED
      BY <1>1, <2>1, <3>1
  <2>2. CASE x # n + 1
    <3>1. 1 \in 1 .. m /\ x <= n
      BY <1>1, <1>8, <2>2
    <3>2. PICK k \in 1 .. m : b[k].first <= x /\ x <= b[k].last
      BY <1>5, <1>8, <3>1 DEF EventChain
    <3>3. c[k].first <= x /\ b[k].last <= c[k].last /\ c[k].last \in Nat /\ b[k].last \in Nat
      BY <1>2, <1>3, <1>4, <1>5, <3>2
    <3> QED
      BY <3>2, <3>3
  <2> QED
    BY <2>1, <2>2
<1>9. EventChain(c, n + 1)
  BY <1>4, <1>6, <1>7, <1>8 DEF EventChain
<1> QED
  BY <1>9 DEF c, e

LEMMA ChainDropped ==
  ASSUME NEW b, NEW n \in Nat, EventChain(b, n), b # <<>>
  PROVE  EventChain(Tail(b), n)
<1> DEFINE c == Tail(b)
<1>1. b \in Seq(EventBatches) /\ Len(b) \in Nat \ {0}
  BY DEF EventChain
<1>2. /\ c \in Seq(EventBatches) /\ Len(c) = Len(b) - 1
      /\ \A i \in 1 .. Len(c) : i + 1 \in 1 .. Len(b) /\ c[i] = b[i + 1]
  BY <1>1
<1> HIDE DEF c
<1>3. \A i \in 1 .. Len(b) : b[i].first \in Nat /\ b[i].last \in Nat
  BY ChainTyped
<1>4. \A i \in 1 .. Len(c) : c[i].first <= c[i].last /\ c[i].last <= n
  BY <1>2 DEF EventChain
<1>5. ASSUME NEW i \in 1 .. Len(c), NEW j \in 1 .. Len(c), i < j PROVE c[i].last < c[j].first
  <2>1. i + 1 \in 1 .. Len(b) /\ j + 1 \in 1 .. Len(b) /\ i + 1 < j + 1
    BY <1>2, <1>5
  <2> QED
    BY <1>2, <2>1 DEF EventChain
<1>6. ASSUME NEW x \in Nat, c # <<>>, c[1].first <= x, x <= n
      PROVE  \E k \in 1 .. Len(c) : c[k].first <= x /\ x <= c[k].last
  <2>1. Len(c) >= 1 /\ 1 \in 1 .. Len(c) /\ 1 \in 1 .. Len(b) /\ 2 \in 1 .. Len(b)
    BY <1>1, <1>2, <1>6
  <2>2. c[1] = b[2] /\ b[1].last < b[2].first /\ b[1].first <= b[1].last
    BY <1>2, <2>1 DEF EventChain
  <2>3. b[1].first <= x /\ b[1].last < x
    BY <1>3, <1>6, <2>1, <2>2
  <2>4. PICK k \in 1 .. Len(b) : b[k].first <= x /\ x <= b[k].last
    BY <1>6, <2>3 DEF EventChain
  <2>5. k # 1
    BY <1>3, <2>3, <2>4
  <2>6. k - 1 \in 1 .. Len(c) /\ (k - 1) + 1 = k
    BY <1>1, <1>2, <2>4, <2>5
  <2>7. c[k - 1] = b[k]
    BY <1>2, <2>6
  <2> QED
    BY <2>4, <2>6, <2>7
<1>7. EventChain(c, n)
  BY <1>2, <1>4, <1>5, <1>6 DEF EventChain
<1> QED
  BY <1>7 DEF c

LEMMA RecordStep ==
  ASSUME EventsInv, NEW kind \in Kinds, NEW changesContent \in BOOLEAN, RecordEvent(kind, changesContent)
  PROVE  EventsInv'
<1>1. eventSequence \in Nat /\ EventChain(batches, eventSequence) /\ cursor \in Nat
      /\ cursor <= eventSequence /\ NoSilentGap
  BY DEF EventsInv
<1>2. eventSequence' = eventSequence + 1 /\ UNCHANGED <<cursor, reported>>
  BY DEF RecordEvent
<1>3. EventChain(batches', eventSequence + 1)
  <2>1. CASE batches # <<>> /\ batches' = Extended(kind, eventSequence')
    <3>1. batches' = [batches EXCEPT ![Len(batches)].last = eventSequence + 1]
      BY <1>2, <2>1 DEF Extended
    <3> QED
      BY <1>1, <2>1, <3>1, ChainExtended
  <2>2. CASE batches' = Started(kind, eventSequence')
    <3> DEFINE longer ==
          Append(batches, [kind |-> kind, first |-> eventSequence + 1, last |-> eventSequence + 1])
    <3>1. EventChain(longer, eventSequence + 1)
      BY <1>1, ChainAppended
    <3>2. longer # <<>>
      BY <1>1 DEF EventChain
    <3>3. batches' = longer \/ batches' = Tail(longer)
      BY <1>2, <2>2 DEF Started
    <3> HIDE DEF longer
    <3>4. eventSequence + 1 \in Nat
      BY <1>1
    <3> QED
      BY <3>1, <3>2, <3>3, <3>4, ChainDropped
  <2> QED
    BY <2>1, <2>2 DEF RecordEvent
<1>4. EventChain(batches, eventSequence)'
  BY <1>2, <1>3 DEF EventChain
<1> QED
  BY <1>1, <1>2, <1>4 DEF EventsInv, NoSilentGap

\* A page leaves out no batch between two of its own.
LEMMA PageClosed ==
  ASSUME NEW size \in PageSizes, NEW i \in Page(cursor, size), NEW k \in Beyond(cursor),
         EventsInv, k <= i
  PROVE  k \in Page(cursor, size)
<1> DEFINE upTo(j) == {l \in Beyond(cursor) : l <= j}
<1>1. Beyond(cursor) \subseteq 1 .. Len(batches) /\ Len(batches) \in Nat
  BY DEF Beyond, EventsInv, EventChain
<1>2. IsFiniteSet(Beyond(cursor))
  <2>1. IsFiniteSet(1 .. Len(batches))
    BY <1>1, FS_Interval
  <2> QED
    BY <1>1, <2>1, FS_Subset
<1>3. IsFiniteSet(upTo(i)) /\ upTo(k) \subseteq upTo(i)
  <2>1. i \in Beyond(cursor)
    BY DEF Page
  <2>2. \A l \in Beyond(cursor) : l <= k => l <= i
    BY <1>1, <2>1
  <2> QED
    BY <1>2, <2>2, FS_Subset
<1>4. Cardinality(upTo(k)) <= Cardinality(upTo(i)) /\ Cardinality(upTo(k)) \in Nat
      /\ Cardinality(upTo(i)) \in Nat
  BY <1>3, FS_Subset, FS_CardinalityType
<1>5. Cardinality(upTo(i)) <= size
  BY DEF Page
<1> HIDE DEF upTo
<1>6. Cardinality(upTo(k)) <= size
  BY <1>4, <1>5, EventsAssumption
<1> QED
  BY <1>6 DEF Page, upTo

LEMMA ReadStep == ASSUME EventsInv, NEW size \in PageSizes, ReadPage(size) PROVE EventsInv'
<1> DEFINE page == Page(cursor, size)
<1>1. eventSequence \in Nat /\ EventChain(batches, eventSequence) /\ cursor \in Nat
      /\ cursor <= eventSequence /\ NoSilentGap
  BY DEF EventsInv
<1>2. /\ ~StaleCursor(cursor) /\ UNCHANGED <<eventSequence, batches>>
      /\ reported' = reported \cup Numbers(page) \cup (IF cursor = 0 THEN 1 .. Oldest - 1 ELSE {})
      /\ \/ UNCHANGED cursor
         \/ \E i \in page : cursor' = batches[i].last
  BY DEF ReadPage
<1>3. page \subseteq Beyond(cursor)
  BY DEF Page
<1> HIDE DEF page
<1>4. EventChain(batches, eventSequence)'
  BY <1>1, <1>2 DEF EventChain
<1>5. CASE UNCHANGED cursor
  BY <1>1, <1>2, <1>4, <1>5 DEF EventsInv, NoSilentGap
<1>6. CASE \E i \in page : cursor' = batches[i].last
  <2>1. PICK i \in page : cursor' = batches[i].last
    BY <1>6
  <2>2. i \in 1 .. Len(batches) /\ batches \in Seq(EventBatches) /\ batches # <<>> /\ Len(batches) \in Nat
    BY <1>1, <1>3, <2>1 DEF Beyond, EventChain
  <2>3. \A k \in 1 .. Len(batches) : batches[k].first \in Nat /\ batches[k].last \in Nat
    BY <1>1, ChainTyped
  <2>4. cursor' \in Nat /\ cursor' <= eventSequence
    BY <1>1, <2>1, <2>2, <2>3 DEF EventChain
  <2>5. ASSUME NEW x \in 1 .. batches[i].last PROVE x \in reported'
    <3>1. x \in Nat /\ x >= 1 /\ x <= batches[i].last /\ x <= eventSequence
      BY <1>1, <2>1, <2>2, <2>3, <2>4
    <3>2. CASE x <= cursor
      BY <1>1, <1>2, <3>1, <3>2 DEF NoSilentGap
    <3>3. CASE ~(x <= cursor) /\ x < Oldest
      <4>1. Oldest = batches[1].first /\ Oldest \in Nat
        BY <2>2, <2>3 DEF Oldest
      <4>2. cursor = 0
        BY <1>1, <1>2, <2>2, <3>1, <3>3, <4>1 DEF StaleCursor
      <4>3. x \in 1 .. Oldest - 1
        BY <3>1, <3>3, <4>1
      <4> QED
        BY <1>2, <4>2, <4>3
    <3>4. CASE ~(x <= cursor) /\ ~(x < Oldest)
      <4>1. Oldest = batches[1].first /\ Oldest \in Nat
        BY <2>2, <2>3 DEF Oldest
      <4>2. PICK k \in 1 .. Len(batches) : batches[k].first <= x /\ x <= batches[k].last
        BY <1>1, <2>2, <3>1, <3>4, <4>1 DEF EventChain
      <4>3. k <= i
        <5>1. i < k => batches[i].last < batches[k].first
          BY <1>1, <2>2, <4>2 DEF EventChain
        <5> QED
          BY <2>2, <2>3, <3>1, <4>2, <5>1
      <4>4. k \in Beyond(cursor)
        BY <1>1, <2>2, <2>3, <3>1, <3>4, <4>2 DEF Beyond
      <4>5. k \in page
        BY <2>1, <4>3, <4>4, PageClosed DEF page
      <4>6. x \in batches[k].first .. batches[k].last
        BY <2>3, <3>1, <4>2
      <4>7. x \in Numbers(page)
        BY <4>5, <4>6 DEF Numbers
      <4> QED
        BY <1>2, <4>7
    <3> QED
      BY <3>2, <3>3, <3>4
  <2>6. NoSilentGap'
    BY <2>1, <2>5 DEF NoSilentGap
  <2> QED
    BY <1>1, <1>2, <1>4, <2>4, <2>6 DEF EventsInv
<1> QED
  BY <1>2, <1>5, <1>6

LEMMA EventsStep == EventsInv /\ [EventsNext]_eventVars => EventsInv'
<1> SUFFICES ASSUME EventsInv, [EventsNext]_eventVars PROVE EventsInv'
  OBVIOUS
<1>1. CASE SuppressChanges \/ EndSuppression \/ UNCHANGED eventVars
  BY <1>1 DEF EventsInv, EventChain, NoSilentGap, SuppressChanges, EndSuppression, eventVars
<1>2. CASE StartOver
  <2>1. /\ cursor' = eventSequence /\ reported' = 1 .. eventSequence
        /\ UNCHANGED <<eventSequence, batches>>
    BY <1>2 DEF StartOver
  <2> QED
    BY <2>1 DEF EventsInv, EventChain, NoSilentGap
<1> QED
  BY <1>1, <1>2, RecordStep, ReadStep DEF EventsNext

\* A reader that follows its cursor is told of every event up to it, folded, dropped
\* or cut off as the batches may be (Record, ReadEvents).
THEOREM CursorHidesNothing == EventsSpec => []NoSilentGap
<1>1. EventsInv => NoSilentGap
  BY DEF EventsInv
<1> QED
  BY <1>1, EventsInitially, EventsStep, PTL DEF EventsSpec
-----------------------------------------------------------------------------
(* The drawing under the Managed Host.                                     *)

RevisionNumbers == [seed : Nat, n : Nat]
Views == [drawn : SUBSET Edits, shape : Fingerprints, layer : BOOLEAN]
Receipts == [after : RevisionNumbers, saw : Views, plan : Views, orphan : BOOLEAN]
Drawings ==
  [drawn : SUBSET Edits, shape : Fingerprints, layer : BOOLEAN, receipt : {Nothing} \cup Receipts,
   undone : BOOLEAN]
Asks == [rev : RevisionNumbers, saw : Views]
RollbackPlans == [rev : RevisionNumbers, checkpoint : {Nothing} \cup Receipts, eligible : BOOLEAN]

\* A drawing, in memory or saved, has a receipt only of a plan applied as previewed,
\* and no entity of the plan without a receipt.
GoodDrawing(c) ==
  /\ c \in Drawings
  /\ c.receipt # Nothing =>
       /\ c.receipt.after.seed <= seeds
       /\ ~c.receipt.orphan => c.receipt.plan = c.receipt.saw
       /\ family # "change" => c.receipt.saw.shape = "base"
  /\ c.receipt = Nothing /\ family # "change" => c.shape = "base"

\* What a commit leaves of the layer.
LayerAfter(v) == IF family \in Creating THEN TRUE ELSE v.layer

\* A drawing at a revision: none before its receipt's carries the receipt, and at the
\* receipt's nobody has drawn since and the layer the commit ensured is there.
AfterReceipt(c, rev) ==
  c.receipt # Nothing /\ c.receipt.after.seed = rev.seed =>
    /\ c.receipt.after.n <= rev.n
    /\ c.receipt.after.n = rev.n =>
         c.drawn = c.receipt.saw.drawn /\ c.layer = LayerAfter(c.receipt.saw)

\* Unless unsaved work was given up since the preview, a drawing at the preview's
\* revision is the one that was previewed.
AfterPreview(c, rev) ==
  asked # Nothing /\ ~orphaned /\ asked.rev.seed = rev.seed =>
    /\ asked.rev.n <= rev.n
    /\ asked.rev.n = rev.n => Visible(c) = asked.saw

DrawingTypes ==
  /\ family \in Families /\ seeds \in Nat
  /\ drawingOpen \in BOOLEAN /\ orphaned \in BOOLEAN
  /\ drawingAt \in RevisionNumbers /\ drawingAt.seed <= seeds
  /\ sidecar \in {Nothing} \cup RevisionNumbers
  /\ sidecar # Nothing => sidecar.seed <= seeds
  /\ asked \in {Nothing} \cup Asks
  /\ asked # Nothing => asked.rev.seed <= seeds
  /\ rollback \in {Nothing} \cup RollbackPlans
  /\ rollback # Nothing /\ rollback.eligible =>
       rollback.checkpoint # Nothing /\ rollback.checkpoint.after = rollback.rev

\* The open drawing has gone on from the saved one, and the closed one is that.
OpenInv ==
  drawingOpen =>
    /\ AfterReceipt(content, drawingAt) /\ AfterPreview(content, drawingAt)
    /\ sidecar # Nothing =>
         /\ sidecar.seed = drawingAt.seed /\ sidecar.n <= drawingAt.n
         /\ sidecar.n = drawingAt.n => saved = content

ClosedInv ==
  /\ sidecar # Nothing => AfterReceipt(saved, sidecar)
  /\ ~drawingOpen => content = saved /\ (sidecar # Nothing => AfterPreview(saved, sidecar))

DrawingInv == DrawingTypes /\ GoodDrawing(content) /\ GoodDrawing(saved) /\ OpenInv /\ ClosedInv

LEMMA NothingIsNothing == Nothing \notin Receipts \cup RevisionNumbers \cup Asks \cup RollbackPlans
<1>1. \A r \in Receipts : r # Nothing
  BY DEF Receipts, Nothing
<1>2. \A r \in RevisionNumbers : r # Nothing
  BY DEF RevisionNumbers, Nothing
<1>3. \A r \in Asks : r # Nothing
  BY DEF Asks, Nothing
<1>4. \A r \in RollbackPlans : r # Nothing
  BY DEF RollbackPlans, Nothing
<1> QED
  BY <1>1, <1>2, <1>3, <1>4

LEMMA DrawingInitially == DrawingInit => DrawingInv
<1> SUFFICES ASSUME DrawingInit PROVE DrawingInv
  OBVIOUS
<1>1. /\ \E layer \in BOOLEAN :
           content = [drawn |-> {}, shape |-> "base", layer |-> layer, receipt |-> Nothing,
                      undone |-> FALSE]
      /\ family \in Families /\ saved = content /\ drawingOpen = TRUE /\ drawingAt = [seed |-> 1, n |-> 0]
      /\ sidecar = Nothing /\ seeds = 1 /\ asked = Nothing /\ rollback = Nothing /\ orphaned = FALSE
  BY DEF DrawingInit, Seeded
<1>2. content \in Drawings /\ content.receipt = Nothing /\ content.shape = "base"
  BY <1>1 DEF Drawings, Fingerprints
<1>3. GoodDrawing(content)
  BY <1>2 DEF GoodDrawing
<1>4. DrawingTypes
  <2>1. drawingAt \in RevisionNumbers /\ drawingAt.seed = 1
    BY <1>1 DEF RevisionNumbers
  <2>2. drawingOpen \in BOOLEAN /\ orphaned \in BOOLEAN
    BY <1>1
  <2>3. seeds \in Nat /\ drawingAt.seed <= seeds
    BY <1>1, <2>1
  <2>4. sidecar = Nothing /\ asked = Nothing /\ rollback = Nothing /\ family \in Families
    BY <1>1
  <2> QED
    BY <2>1, <2>2, <2>3, <2>4 DEF DrawingTypes
<1>5. OpenInv /\ ClosedInv
  BY <1>1, <1>2 DEF OpenInv, ClosedInv, AfterReceipt, AfterPreview
<1> QED
  BY <1>1, <1>3, <1>4, <1>5 DEF DrawingInv

\* A change of the open drawing, which leaves its receipt alone or writes one.
LEMMA ChangeKeeps ==
  ASSUME DrawingInv, drawingOpen, NEW c \in Drawings, content' = c,
         drawingAt' = IncrementRevision(drawingAt),
         UNCHANGED <<family, drawingOpen, seeds, asked, saved, sidecar, rollback, orphaned>>,
         \/ c.receipt = content.receipt
         \/ /\ c.receipt \in Receipts /\ c.receipt.after = IncrementRevision(drawingAt)
            /\ c.receipt.saw.drawn = c.drawn /\ LayerAfter(c.receipt.saw) = c.layer
            /\ ~c.receipt.orphan => c.receipt.plan = c.receipt.saw
            /\ family # "change" => c.receipt.saw.shape = "base",
         c.receipt = Nothing /\ family # "change" => c.shape = "base"
  PROVE  DrawingInv'
<1> DEFINE rev == IncrementRevision(drawingAt)
<1>1. DrawingTypes /\ GoodDrawing(content) /\ GoodDrawing(saved) /\ OpenInv /\ ClosedInv
  BY DEF DrawingInv
<1>2. drawingAt \in RevisionNumbers /\ drawingAt.seed <= seeds /\ drawingAt.n \in Nat /\ drawingAt.seed \in Nat
      /\ seeds \in Nat
  BY <1>1 DEF DrawingTypes, RevisionNumbers
<1>3. rev \in RevisionNumbers /\ rev.seed = drawingAt.seed /\ rev.n = drawingAt.n + 1
  BY <1>2 DEF IncrementRevision, RevisionNumbers
<1> HIDE DEF rev
<1>4. DrawingTypes'
  BY <1>1, <1>2, <1>3 DEF DrawingTypes, rev
<1>5. content \in Drawings /\ content.receipt \in {Nothing} \cup Receipts
  BY <1>1 DEF GoodDrawing, Drawings
<1>6. ASSUME NEW r \in Receipts PROVE r.after \in RevisionNumbers /\ r.after.n \in Nat /\ r.after.seed \in Nat
  BY DEF Receipts, RevisionNumbers
<1>7. GoodDrawing(content)'
  <2>1. c.receipt # Nothing => c.receipt.after.seed <= seeds
    BY <1>1, <1>2, <1>3 DEF GoodDrawing, rev
  <2>2. c.receipt # Nothing => /\ ~c.receipt.orphan => c.receipt.plan = c.receipt.saw
                               /\ family # "change" => c.receipt.saw.shape = "base"
    BY <1>1 DEF GoodDrawing
  <2> QED
    BY <2>1, <2>2 DEF GoodDrawing
<1>8. GoodDrawing(saved)' /\ ClosedInv'
  BY <1>1 DEF GoodDrawing, ClosedInv, AfterReceipt, LayerAfter
<1>9. AfterReceipt(c, rev)
  <2>1. CASE c.receipt = content.receipt /\ c.receipt # Nothing
    <3>1. c.receipt \in Receipts
      BY <1>5, <2>1
    <3>2. c.receipt.after.seed = drawingAt.seed => c.receipt.after.n <= drawingAt.n
      BY <1>1, <2>1 DEF OpenInv, AfterReceipt
    <3> QED
      BY <1>2, <1>3, <1>6, <3>1, <3>2 DEF AfterReceipt
  <2>2. CASE c.receipt \in Receipts /\ c.receipt.after = rev /\ c.receipt.saw.drawn = c.drawn
                  /\ LayerAfter(c.receipt.saw) = c.layer
    BY <1>2, <1>3, <2>2 DEF AfterReceipt
  <2>3. CASE c.receipt = Nothing
    BY <2>3 DEF AfterReceipt
  <2> QED
    BY <2>1, <2>2, <2>3 DEF rev
<1>10. AfterPreview(c, rev)
  <2> SUFFICES ASSUME asked # Nothing, ~orphaned, asked.rev.seed = rev.seed
               PROVE  asked.rev.n <= rev.n /\ asked.rev.n # rev.n
    BY DEF AfterPreview
  <2>1. asked.rev.n \in Nat
    BY <1>1 DEF DrawingTypes, Asks, RevisionNumbers
  <2>2. asked.rev.n <= drawingAt.n
    BY <1>1, <1>3 DEF OpenInv, AfterPreview
  <2> QED
    BY <1>2, <1>3, <2>1, <2>2
<1>11. OpenInv'
  <2>1. sidecar # Nothing => sidecar.seed = rev.seed /\ sidecar.n <= rev.n /\ sidecar.n # rev.n
    <3> SUFFICES ASSUME sidecar # Nothing
                 PROVE  sidecar.seed = rev.seed /\ sidecar.n <= rev.n /\ sidecar.n # rev.n
      OBVIOUS
    <3>1. sidecar.n \in Nat
      BY <1>1 DEF DrawingTypes, RevisionNumbers
    <3> QED
      BY <1>1, <1>2, <1>3, <3>1 DEF OpenInv
  <2>2. content' = c /\ drawingAt' = rev
    BY DEF rev
  <2> QED
    BY <1>9, <1>10, <2>1, <2>2 DEF OpenInv, AfterReceipt, AfterPreview, LayerAfter
<1> QED
  BY <1>4, <1>7, <1>8, <1>11 DEF DrawingInv

\* Draw, Alter, and what is done to the layer.
LEMMA OperatorSteps ==
  ASSUME DrawingInv, Alter \/ MakeLayer \/ PurgeLayer \/ \E e \in Edits : Draw(e)
  PROVE  DrawingInv'
<1>1. GoodDrawing(content) /\ content \in Drawings
  BY DEF DrawingInv, GoodDrawing
<1>2. CASE Alter
  <2> DEFINE c == [content EXCEPT !.shape = "other"]
  <2>1. /\ drawingOpen /\ content' = c /\ drawingAt' = IncrementRevision(drawingAt)
        /\ UNCHANGED <<family, drawingOpen, seeds, asked, saved, sidecar, rollback, orphaned>>
        /\ family = "change" \/ content.shape = "effect"
    BY <1>2 DEF Alter, Change, onDisk, hostMemory
  <2>2. c \in Drawings /\ c.receipt = content.receipt
    BY <1>1 DEF Drawings, Fingerprints
  <2>3. c.receipt = Nothing /\ family # "change" => c.shape = "base"
    BY <1>1, <2>1, <2>2 DEF GoodDrawing
  <2> HIDE DEF c
  <2> QED
    BY <2>1, <2>2, <2>3, ChangeKeeps
<1>3. ASSUME NEW e \in Edits, Draw(e) PROVE DrawingInv'
  <2> DEFINE c == [content EXCEPT !.drawn = @ \cup {e}]
  <2>1. /\ drawingOpen /\ content' = c /\ drawingAt' = IncrementRevision(drawingAt)
        /\ UNCHANGED <<family, drawingOpen, seeds, asked, saved, sidecar, rollback, orphaned>>
    BY <1>3 DEF Draw, Change, onDisk, hostMemory
  <2>2. c \in Drawings /\ c.receipt = content.receipt /\ c.shape = content.shape
    BY <1>1 DEF Drawings
  <2>3. c.receipt = Nothing /\ family # "change" => c.shape = "base"
    BY <1>1, <2>2 DEF GoodDrawing
  <2> HIDE DEF c
  <2> QED
    BY <2>1, <2>2, <2>3, ChangeKeeps
<1>4. ASSUME NEW there \in BOOLEAN, Change([content EXCEPT !.layer = there]) PROVE DrawingInv'
  <2> DEFINE c == [content EXCEPT !.layer = there]
  <2>1. /\ drawingOpen /\ content' = c /\ drawingAt' = IncrementRevision(drawingAt)
        /\ UNCHANGED <<family, drawingOpen, seeds, asked, saved, sidecar, rollback, orphaned>>
    BY <1>4 DEF Change, onDisk, hostMemory
  <2>2. c \in Drawings /\ c.receipt = content.receipt /\ c.shape = content.shape
    BY <1>1 DEF Drawings
  <2>3. c.receipt = Nothing /\ family # "change" => c.shape = "base"
    BY <1>1, <2>2 DEF GoodDrawing
  <2> HIDE DEF c
  <2> QED
    BY <2>1, <2>2, <2>3, ChangeKeeps
<1> QED
  BY <1>2, <1>3, <1>4 DEF MakeLayer, PurgeLayer

\* A commit: at the preview's revision, the drawing is the preview's.
LEMMA CommittedStep == ASSUME DrawingInv, Committed PROVE DrawingInv'
<1> DEFINE r == [after |-> IncrementRevision(drawingAt), saw |-> Visible(content),
                 plan |-> asked.saw, orphan |-> orphaned]
           c == [Applied(content) EXCEPT !.receipt = r]
<1>1. DrawingTypes /\ GoodDrawing(content) /\ OpenInv /\ content \in Drawings
  BY DEF DrawingInv, GoodDrawing
<1>2. /\ drawingOpen /\ asked # Nothing /\ content.receipt = Nothing /\ drawingAt = asked.rev
      /\ content' = c /\ drawingAt' = IncrementRevision(drawingAt)
      /\ UNCHANGED <<family, drawingOpen, seeds, asked, saved, sidecar, rollback, orphaned>>
  BY DEF Committed, AtItsRevision, Written, onDisk, hostMemory
<1>3. Visible(content) \in Views /\ Visible(content).drawn = content.drawn
      /\ Visible(content).shape = content.shape /\ Visible(content).layer = content.layer
  BY <1>1 DEF Drawings, Visible, Views
<1>4. IncrementRevision(drawingAt) \in RevisionNumbers
  BY <1>1 DEF DrawingTypes, RevisionNumbers, IncrementRevision
<1>5. asked.saw \in Views /\ orphaned \in BOOLEAN
  BY <1>1, <1>2 DEF DrawingTypes, Asks
<1>6. r \in Receipts /\ r.after = IncrementRevision(drawingAt) /\ r.saw = Visible(content)
      /\ r.plan = asked.saw /\ r.orphan = orphaned
  BY <1>3, <1>4, <1>5 DEF Receipts
<1>7. asked.rev.n = drawingAt.n
  BY <1>2
<1>8. ~orphaned => asked.saw = Visible(content)
  BY <1>1, <1>2, <1>7 DEF OpenInv, AfterPreview
<1> HIDE DEF r
<1>9. c \in Drawings /\ c.receipt = r /\ c.drawn = content.drawn
      /\ c.layer = IF family \in Creating THEN TRUE ELSE content.layer
  BY <1>1, <1>6 DEF Applied, Ensured, Drawings, Fingerprints
<1> HIDE DEF c
<1>10. family # "change" => r.saw.shape = "base"
  BY <1>1, <1>2, <1>3, <1>6 DEF GoodDrawing
<1>11. ~r.orphan => r.plan = r.saw
  BY <1>6, <1>8
<1>12. c.receipt # Nothing
  BY <1>6, <1>9, NothingIsNothing
<1>13. LayerAfter(c.receipt.saw) = c.layer
  BY <1>3, <1>6, <1>9 DEF LayerAfter
<1> QED
  BY <1>2, <1>3, <1>6, <1>9, <1>10, <1>11, <1>12, <1>13, ChangeKeeps

LEMMA RolledBackStep == ASSUME DrawingInv, RolledBack PROVE DrawingInv'
<1> DEFINE c == Restored(content)
<1>1. DrawingTypes /\ GoodDrawing(content) /\ content \in Drawings
  BY DEF DrawingInv, GoodDrawing
<1>2. /\ drawingOpen /\ rollback # Nothing /\ rollback.eligible /\ content.receipt = rollback.checkpoint
      /\ content' = c /\ drawingAt' = IncrementRevision(drawingAt)
      /\ UNCHANGED <<family, drawingOpen, seeds, asked, saved, sidecar, rollback, orphaned>>
  BY DEF RolledBack, onDisk, hostMemory
<1>3. content.receipt # Nothing
  BY <1>1, <1>2 DEF DrawingTypes
<1>4. content.receipt.saw.shape \in Fingerprints
  BY <1>1, <1>3 DEF Drawings, Receipts, Views
<1>5. c \in Drawings /\ c.receipt = content.receipt
  BY <1>1, <1>4 DEF Restored, Drawings, Fingerprints
<1> HIDE DEF c
<1> QED
  BY <1>2, <1>3, <1>5, ChangeKeeps

\* What leaves the drawing and its files alone: previews, and plans of rollbacks.
LEMMA PlanSteps ==
  ASSUME DrawingInv, (\E kept \in BOOLEAN : Previewed(kept)) \/ Forget
                     \/ PreviewRollbackProgram \/ PreviewRollbackCreate \/ PreviewRollbackManaged
  PROVE  DrawingInv'
<1>1. DrawingTypes /\ GoodDrawing(content) /\ GoodDrawing(saved) /\ OpenInv /\ ClosedInv
  BY DEF DrawingInv
<1>2. UNCHANGED <<family, content, drawingOpen, drawingAt, seeds, saved, sidecar>>
  BY DEF Previewed, Forget, PreviewRollbackProgram, PreviewRollbackCreate, PreviewRollbackManaged,
         PlannedRollback, onDisk
<1>3. GoodDrawing(content)' /\ GoodDrawing(saved)'
  BY <1>1, <1>2 DEF GoodDrawing
<1>4. CASE \E kept \in BOOLEAN : Previewed(kept)
  <2> DEFINE a == [rev |-> drawingAt, saw |-> Visible(content)]
  <2>1. drawingOpen /\ asked' = a /\ orphaned' = FALSE /\ UNCHANGED rollback
    BY <1>4 DEF Previewed
  <2>2. Visible(content) \in Views
    BY <1>1 DEF GoodDrawing, Drawings, Visible, Views
  <2>3. a \in Asks /\ a.rev = drawingAt /\ a.saw = Visible(content)
    BY <1>1, <2>2 DEF Asks, DrawingTypes
  <2> HIDE DEF a
  <2>4. DrawingTypes'
    BY <1>1, <1>2, <2>1, <2>3 DEF DrawingTypes
  <2>5. AfterPreview(content, drawingAt)'
    <3>1. Visible(content)' = Visible(content) /\ drawingAt.n <= drawingAt.n
      BY <1>1, <1>2 DEF Visible, DrawingTypes, RevisionNumbers
    <3> QED
      BY <1>2, <2>1, <2>3, <3>1 DEF AfterPreview
  <2>6. OpenInv' /\ ClosedInv'
    BY <1>1, <1>2, <2>1, <2>5 DEF OpenInv, ClosedInv, AfterReceipt, LayerAfter
  <2> QED
    BY <1>3, <2>4, <2>6 DEF DrawingInv
<1>5. ASSUME UNCHANGED <<asked, orphaned>> PROVE OpenInv' /\ ClosedInv'
  BY <1>1, <1>2, <1>5 DEF OpenInv, ClosedInv, AfterReceipt, AfterPreview, Visible, LayerAfter
<1>6. CASE Forget
  <2>1. UNCHANGED <<asked, orphaned, rollback>>
    BY <1>6 DEF Forget
  <2> QED
    BY <1>1, <1>2, <1>3, <1>5, <2>1 DEF DrawingInv, DrawingTypes
<1>7. CASE PreviewRollbackProgram \/ PreviewRollbackCreate \/ PreviewRollbackManaged
  <2>1. PICK v \in BOOLEAN : PlannedRollback(v) /\ (v => AtCheckpoint)
    <3>1. (AtCheckpoint /\ EntitiesAsLeft) \in BOOLEAN
      BY DEF AtCheckpoint, EntitiesAsLeft
    <3> QED
      BY <1>7, <3>1 DEF PreviewRollbackProgram, PreviewRollbackCreate, PreviewRollbackManaged
  <2> DEFINE p == [rev |-> drawingAt, checkpoint |-> content.receipt, eligible |-> v]
  <2>2. rollback' = p /\ UNCHANGED <<asked, orphaned>>
    BY <2>1 DEF PlannedRollback
  <2>3. p \in RollbackPlans /\ p.rev = drawingAt /\ p.checkpoint = content.receipt /\ p.eligible = v
    BY <1>1 DEF RollbackPlans, GoodDrawing, Drawings, DrawingTypes
  <2>4. v => content.receipt # Nothing /\ content.receipt.after = drawingAt
    BY <2>1 DEF AtCheckpoint
  <2> HIDE DEF p
  <2>5. DrawingTypes'
    BY <1>1, <1>2, <2>2, <2>3, <2>4 DEF DrawingTypes
  <2> QED
    BY <1>3, <1>5, <2>2, <2>5 DEF DrawingInv
<1> QED
  BY <1>4, <1>6, <1>7

LEMMA SaveStep == ASSUME DrawingInv, SaveDrawing PROVE DrawingInv'
<1>1. DrawingTypes /\ GoodDrawing(content) /\ OpenInv
  BY DEF DrawingInv
<1>2. /\ drawingOpen /\ saved' = content /\ sidecar' \in {drawingAt, Nothing}
      /\ UNCHANGED <<family, content, drawingOpen, drawingAt, seeds, asked, rollback, orphaned>>
  BY DEF SaveDrawing, hostMemory
<1>3. DrawingTypes'
  BY <1>1, <1>2 DEF DrawingTypes
<1>4. GoodDrawing(content)' /\ GoodDrawing(saved)'
  BY <1>1, <1>2 DEF GoodDrawing
<1>5. drawingAt.n \in Nat
  BY <1>1 DEF DrawingTypes, RevisionNumbers
<1>6. AfterReceipt(content, drawingAt) /\ AfterPreview(content, drawingAt)
  BY <1>1, <1>2 DEF OpenInv
<1>7. AfterReceipt(content, drawingAt)' /\ (sidecar' = drawingAt => AfterReceipt(saved, sidecar)')
  BY <1>2, <1>6 DEF AfterReceipt, LayerAfter
<1>8. AfterPreview(content, drawingAt)'
  BY <1>2, <1>6 DEF AfterPreview, Visible
<1>9. OpenInv' /\ ClosedInv'
  BY <1>2, <1>5, <1>7, <1>8 DEF OpenInv, ClosedInv
<1> QED
  BY <1>3, <1>4, <1>9 DEF DrawingInv

LEMMA ElsewhereStep == ASSUME DrawingInv, NEW e \in Edits, SaveElsewhere(e) PROVE DrawingInv'
<1> DEFINE c == [saved EXCEPT !.drawn = @ \cup {e}]
<1>1. DrawingTypes /\ GoodDrawing(saved) /\ saved \in Drawings
  BY DEF DrawingInv, GoodDrawing
<1>2. /\ ~drawingOpen /\ saved' = c /\ content' = c /\ sidecar' = Nothing
      /\ UNCHANGED <<family, drawingOpen, drawingAt, seeds, asked, rollback, orphaned>>
  BY DEF SaveElsewhere, hostMemory
<1>3. c \in Drawings /\ c.receipt = saved.receipt /\ c.shape = saved.shape
  BY <1>1 DEF Drawings
<1> HIDE DEF c
<1>4. GoodDrawing(content)' /\ GoodDrawing(saved)'
  BY <1>1, <1>2, <1>3 DEF GoodDrawing
<1>5. DrawingTypes' /\ OpenInv' /\ ClosedInv'
  BY <1>1, <1>2 DEF DrawingTypes, OpenInv, ClosedInv
<1> QED
  BY <1>4, <1>5 DEF DrawingInv

LEMMA CloseStep == ASSUME DrawingInv, CloseDrawing PROVE DrawingInv'
<1>1. DrawingTypes /\ GoodDrawing(saved) /\ OpenInv /\ ClosedInv
  BY DEF DrawingInv
<1>2. /\ drawingOpen /\ drawingOpen' = FALSE /\ content' = saved
      /\ orphaned' = (orphaned \/ (asked # Nothing /\ sidecar \notin {drawingAt, Nothing}))
      /\ rollback' \in {rollback, Nothing}
      /\ UNCHANGED <<family, drawingAt, seeds, asked, saved, sidecar>>
  BY DEF CloseDrawing, onDisk, hostMemory
<1>3. orphaned' \in BOOLEAN
  BY <1>2
<1>4. DrawingTypes'
  BY <1>1, <1>2, <1>3 DEF DrawingTypes
<1>5. GoodDrawing(content)' /\ GoodDrawing(saved)'
  BY <1>1, <1>2 DEF GoodDrawing
<1>6. ASSUME sidecar # Nothing, asked # Nothing, ~orphaned' PROVE AfterPreview(saved, sidecar)
  <2>1. ~orphaned /\ sidecar = drawingAt
    BY <1>2, <1>6
  <2>2. saved = content
    BY <1>1, <1>2, <1>6, <2>1 DEF OpenInv
  <2> QED
    BY <1>1, <1>2, <2>1, <2>2 DEF OpenInv
<1>7. sidecar # Nothing => AfterPreview(saved, sidecar)'
  <2>1. ~orphaned' => ~orphaned
    BY <1>2
  <2>2. Visible(saved)' = Visible(saved)
    BY <1>2 DEF Visible
  <2> QED
    BY <1>2, <1>6, <2>1, <2>2 DEF AfterPreview
<1>8. OpenInv' /\ ClosedInv'
  BY <1>1, <1>2, <1>7 DEF OpenInv, ClosedInv, AfterReceipt, LayerAfter
<1> QED
  BY <1>4, <1>5, <1>8 DEF DrawingInv

LEMMA OpenStep == ASSUME DrawingInv, OpenDrawing PROVE DrawingInv'
<1>1. /\ DrawingTypes /\ GoodDrawing(saved) /\ ClosedInv /\ GoodDrawing(content) /\ content = saved
      /\ ~drawingOpen
  BY DEF DrawingInv, OpenDrawing, ClosedInv
<1>2. drawingOpen' = TRUE /\ UNCHANGED <<family, content, asked, saved, sidecar, rollback, orphaned>>
  BY DEF OpenDrawing, onDisk, hostMemory
<1>3. CASE sidecar # Nothing
  <2>1. drawingAt' = sidecar /\ UNCHANGED seeds
    BY <1>3 DEF OpenDrawing
  <2>2. sidecar.n \in Nat
    BY <1>1, <1>3 DEF DrawingTypes, RevisionNumbers
  <2>3. DrawingTypes'
    BY <1>1, <1>2, <1>3, <2>1 DEF DrawingTypes
  <2>4. GoodDrawing(content)' /\ GoodDrawing(saved)'
    BY <1>1, <1>2, <2>1 DEF GoodDrawing
  <2>5. AfterReceipt(saved, sidecar) /\ AfterPreview(saved, sidecar)
    BY <1>1, <1>3 DEF ClosedInv
  <2>6. AfterReceipt(content, drawingAt)' /\ AfterReceipt(saved, sidecar)'
    BY <1>1, <1>2, <2>1, <2>5 DEF AfterReceipt, LayerAfter
  <2>7. AfterPreview(content, drawingAt)'
    BY <1>1, <1>2, <2>1, <2>5 DEF AfterPreview, Visible
  <2>8. OpenInv' /\ ClosedInv'
    BY <1>1, <1>2, <2>1, <2>2, <2>6, <2>7 DEF OpenInv, ClosedInv
  <2> QED
    BY <2>3, <2>4, <2>8 DEF DrawingInv
<1>4. CASE sidecar = Nothing
  <2>1. seeds' = seeds + 1 /\ drawingAt' = [seed |-> seeds + 1, n |-> 0] /\ seeds \in Nat
    BY <1>1, <1>4 DEF OpenDrawing, Seeded, DrawingTypes
  <2>2. drawingAt' \in RevisionNumbers /\ drawingAt'.seed = seeds + 1
    BY <2>1 DEF RevisionNumbers
  <2>3. asked # Nothing => asked.rev.seed \in Nat /\ asked.rev.seed <= seeds
    BY <1>1 DEF DrawingTypes, Asks, RevisionNumbers
  <2>4. DrawingTypes'
    BY <1>1, <1>2, <1>4, <2>1, <2>2, <2>3 DEF DrawingTypes
  <2>5. saved.receipt # Nothing => saved.receipt.after.seed \in Nat /\ saved.receipt.after.seed <= seeds
    <3>1. saved.receipt # Nothing => saved.receipt \in Receipts
      BY <1>1 DEF GoodDrawing, Drawings
    <3> QED
      BY <1>1, <3>1 DEF GoodDrawing, Receipts, RevisionNumbers
  <2>6. GoodDrawing(content)' /\ GoodDrawing(saved)'
    BY <1>1, <1>2, <2>1, <2>5 DEF GoodDrawing
  <2>7. AfterReceipt(content, drawingAt)' /\ AfterPreview(content, drawingAt)'
    <3>1. content'.receipt # Nothing => content'.receipt.after.seed # drawingAt'.seed
      BY <1>1, <1>2, <2>1, <2>2, <2>5
    <3>2. asked' # Nothing => asked'.rev.seed # drawingAt'.seed
      BY <1>2, <2>1, <2>2, <2>3
    <3> QED
      BY <3>1, <3>2 DEF AfterReceipt, AfterPreview
  <2>8. OpenInv' /\ ClosedInv'
    BY <1>2, <1>4, <2>7 DEF OpenInv, ClosedInv
  <2> QED
    BY <2>4, <2>6, <2>8 DEF DrawingInv
<1> QED
  BY <1>3, <1>4

LEMMA DrawingStep == DrawingInv /\ [DrawingNext]_drawingVars => DrawingInv'
<1> SUFFICES ASSUME DrawingInv, [DrawingNext]_drawingVars PROVE DrawingInv'
  OBVIOUS
<1>1. CASE UNCHANGED drawingVars
  <2>1. /\ UNCHANGED <<family, content, saved, drawingOpen, drawingAt, sidecar, seeds, asked,
                        rollback, orphaned>>
    BY <1>1 DEF drawingVars, onDisk, hostMemory
  <2>2. DrawingTypes' /\ GoodDrawing(content)' /\ GoodDrawing(saved)'
    BY <2>1 DEF DrawingInv, DrawingTypes, GoodDrawing
  <2>3. /\ AfterReceipt(content, drawingAt)' = AfterReceipt(content, drawingAt)
        /\ AfterReceipt(saved, sidecar)' = AfterReceipt(saved, sidecar)
    BY <2>1 DEF AfterReceipt, LayerAfter
  <2>4. /\ AfterPreview(content, drawingAt)' = AfterPreview(content, drawingAt)
        /\ AfterPreview(saved, sidecar)' = AfterPreview(saved, sidecar)
    BY <2>1 DEF AfterPreview, Visible
  <2> QED
    BY <2>1, <2>2, <2>3, <2>4 DEF DrawingInv, OpenInv, ClosedInv
<1>2. CASE CommitProgram \/ CommitCreate \/ CommitManaged
  BY <1>2, CommittedStep DEF CommitProgram, CommitCreate, CommitManaged
<1>3. CASE CommitRollbackProgram \/ CommitRollbackCreate \/ CommitRollbackManaged
  BY <1>3, RolledBackStep DEF CommitRollbackProgram, CommitRollbackCreate, CommitRollbackManaged
<1>4. CASE PreviewProgram \/ PreviewCreate \/ PreviewManaged
  BY <1>4, PlanSteps DEF PreviewProgram, PreviewCreate, PreviewManaged
<1> QED
  BY <1>1, <1>2, <1>3, <1>4, PlanSteps, OperatorSteps, SaveStep, ElsewhereStep, CloseStep, OpenStep
     DEF DrawingNext

\* What a plan was previewed on is what it is committed on, although previews and
\* revisions survive closing, saving and reopening (Commit, AssertRevision, TryRead).
THEOREM CommittedAsPreviewed == DrawingSpec => []PreviewedIsCommitted
<1>1. DrawingInv => PreviewedIsCommitted
  BY DEF DrawingInv, GoodDrawing, PreviewedIsCommitted
<1> QED
  BY <1>1, DrawingInitially, DrawingStep, PTL DEF DrawingSpec

\* A rollback that is carried out gives back what the commit found, for every family
\* of plans, save for a layer that the commit had to make, and its validation says so
\* (EnsureLayer, CommitRollback, Restore, ValidateRollback).
THEOREM RollbackGivesBack == DrawingSpec => RollbackRestores
<1>1. ASSUME DrawingInv, RolledBack, content.receipt.after = drawingAt
      PROVE  Visible(content') = Ensured(content.receipt.saw) /\ RollbackValid(content')
  <2> DEFINE c == Restored(content)
             shape == IF family = "change" THEN content.receipt.saw.shape ELSE "base"
  <2>1. DrawingTypes /\ GoodDrawing(content) /\ OpenInv /\ content \in Drawings
    BY <1>1 DEF DrawingInv, GoodDrawing
  <2>2. /\ drawingOpen /\ rollback # Nothing /\ rollback.eligible /\ content.receipt = rollback.checkpoint
        /\ content' = c /\ UNCHANGED family
    BY <1>1 DEF RolledBack
  <2>3. content.receipt # Nothing
    BY <2>1, <2>2 DEF DrawingTypes
  <2>4. content.receipt.saw \in Views
    BY <2>1, <2>3 DEF Drawings, Receipts
  <2>5. content.drawn = content.receipt.saw.drawn /\ content.layer = LayerAfter(content.receipt.saw)
    BY <1>1, <2>1, <2>2, <2>3 DEF OpenInv, AfterReceipt
  <2>6. shape = content.receipt.saw.shape
    BY <2>1, <2>3 DEF GoodDrawing
  <2>7. /\ c.drawn = content.drawn /\ c.shape = shape /\ c.layer = content.layer
        /\ c.receipt = content.receipt
    BY <2>1 DEF Restored, Drawings
  <2> HIDE DEF c
  <2>8. Visible(c) = Ensured(content.receipt.saw)
    <3>1. /\ Ensured(content.receipt.saw) \in Views
          /\ Ensured(content.receipt.saw).drawn = content.receipt.saw.drawn
          /\ Ensured(content.receipt.saw).shape = content.receipt.saw.shape
          /\ Ensured(content.receipt.saw).layer = LayerAfter(content.receipt.saw)
      BY <2>4 DEF Ensured, LayerAfter, Views
    <3> QED
      BY <2>5, <2>6, <2>7, <3>1 DEF Visible, Views
  <2> QED
    BY <2>2, <2>7, <2>8 DEF RollbackValid
<1>2. ASSUME DrawingInv, [DrawingNext]_drawingVars, drawingOpen, drawingOpen', content'.undone, ~content.undone
      PROVE  Visible(content') = Ensured(content.receipt.saw) /\ RollbackValid(content')
  <2>1. content \in Drawings
    BY <1>2 DEF DrawingInv, GoodDrawing
  <2>2. CASE CommitRollbackProgram \/ CommitRollbackManaged
    BY <1>1, <1>2, <2>2 DEF CommitRollbackProgram, CommitRollbackManaged, ManagedClean, AtCheckpoint
  <2>3. CASE CommitRollbackCreate
    <3>1. content.receipt.after = drawingAt /\ RolledBack
      BY <1>2, <2>3 DEF CommitRollbackCreate, RolledBack, DrawingInv, DrawingTypes
    <3> QED
      BY <1>1, <1>2, <3>1
  <2>4. CASE Committed
    <3>1. content'.undone = content.undone
      BY <2>1, <2>4 DEF Committed, Written, Applied, Ensured, Drawings
    <3> QED
      BY <1>2, <3>1
  <2>5. CASE Alter \/ MakeLayer \/ PurgeLayer \/ \E e \in Edits : Draw(e)
    <3>1. content'.undone = content.undone
      BY <2>1, <2>5 DEF Alter, MakeLayer, PurgeLayer, Draw, Change, Drawings
    <3> QED
      BY <1>2, <3>1
  <2>6. CASE UNCHANGED content
    BY <1>2, <2>6
  <2> QED
    BY <1>2, <2>2, <2>3, <2>4, <2>5, <2>6
       DEF DrawingNext, drawingVars, PreviewProgram, PreviewCreate, PreviewManaged, Previewed, Forget,
           CommitProgram, CommitCreate, CommitManaged, PreviewRollbackProgram, PreviewRollbackCreate,
           PreviewRollbackManaged, PlannedRollback, SaveDrawing, SaveElsewhere, CloseDrawing, OpenDrawing
<1>3. DrawingInv /\ [DrawingNext]_drawingVars
        => [drawingOpen /\ drawingOpen' /\ content'.undone /\ ~content.undone
             => Visible(content') = Ensured(content.receipt.saw) /\ RollbackValid(content')]_drawingVars
  BY <1>2
<1> QED
  BY <1>3, DrawingInitially, DrawingStep, PTL DEF DrawingSpec, RollbackRestores
-----------------------------------------------------------------------------
(* The link between the Agent and the Managed Host.                        *)

WorkerStages == {"none", "started", "opening", "opened", "writing", "reading", "over"}
Frames == [to : Requests, says : Sayings]
PipeRecords == [open : BOOLEAN, toHost : Seq(Requests), toAgent : Seq(Frames)]
PortAnswers == [to : Requests \cup {Free}, says : Sayings \cup {"nothing", "lost"}]

\* Type correctness; what is handled is handled for a connection.
LinkTypes ==
  /\ pipes \in Seq(PipeRecords)
  /\ lock \in Requests \cup {Free} /\ cancelled \subseteq Requests
  /\ worker \in [Requests -> WorkerStages]
  /\ held \in [Requests -> Streams]
  /\ stream \in Streams /\ dropped \subseteq Streams \ {0}
  /\ answer \in [Requests -> PortAnswers]
  /\ serving \in Streams /\ job \in Requests \cup {Free}
  /\ serving = 0 => job = Free
  /\ item \in [Requests -> {"none", "pending", "running", "over"}]
  /\ said \in [Requests -> Sayings \cup {"nothing"}]

\* The thread of a request: it is the lock's holder unless its caller gave up; the
\* transport's stream is the holder's, once it has one, and no stream is in two hands.
ThreadOf(r) ==
  /\ held[r] # 0 <=> worker[r] \in {"opened", "writing", "reading"}
  /\ r \notin cancelled /\ worker[r] \notin {"none", "over"} => lock = r
  /\ lock = r => r \notin cancelled /\ worker[r] \notin {"none", "over"}
  /\ lock = r /\ worker[r] \in {"opening", "opened"} => stream = 0
  /\ lock = r /\ worker[r] \in {"writing", "reading"} => held[r] = stream
  /\ r \in cancelled => worker[r] # "none" /\ (held[r] = 0 \/ held[r] # stream)
  /\ r \in cancelled /\ worker[r] = "started" => lock = Free /\ stream = 0

ThreadInv ==
  /\ \A r \in Requests : ThreadOf(r)
  /\ \A q, r \in Requests : q # r /\ held[q] # 0 => held[q] # held[r]

\* What is on its way on a stream: nothing, or one request, or its answer.
NotBusy(s) == serving # s \/ job = Free
Idle(s) == pipes[s].toHost = <<>> /\ pipes[s].toAgent = <<>> /\ NotBusy(s)
Sent(s, r) == pipes[s].toHost = <<r>> /\ pipes[s].toAgent = <<>> /\ NotBusy(s)
Handling(s, r) ==
  pipes[s].toHost = <<>> /\ pipes[s].toAgent = <<>> /\ serving = s /\ job = r /\ job # Free
Returned(s, r) ==
  /\ pipes[s].toHost = <<>> /\ pipes[s].toAgent = <<[to |-> r, says |-> said[r]]>> /\ NotBusy(s)
  /\ said[r] # "nothing"
Carries(s, r) == Sent(s, r) \/ Handling(s, r) \/ Returned(s, r)

\* What a stream carries is its last writer's, and whoever takes it over finds it
\* empty; a request is on one stream, once, and the host has not spoken before.
TrafficInv ==
  /\ \A s \in 1 .. Len(pipes) : Idle(s) \/ \E r \in Requests : Carries(s, r)
  /\ \A s, t \in 1 .. Len(pipes), r \in Requests : Carries(s, r) /\ Carries(t, r) => s = t
  /\ \A s \in 1 .. Len(pipes), r \in Requests :
       /\ Carries(s, r) => worker[r] \in {"reading", "over"}
       /\ Sent(s, r) => said[r] = "nothing"
  /\ \A r \in Requests :
       /\ worker[r] \in {"opened", "writing"} => Idle(held[r])
       /\ worker[r] = "reading" => Idle(held[r]) \/ Carries(held[r], r)
       /\ worker[r] \notin {"reading", "over"} => said[r] = "nothing"
  /\ stream # 0 /\ (\A r \in Requests : held[r] # stream) => Idle(stream)

\* A work item is the current request's and has no result yet; what applied the
\* program said so, and what the port took is what the host said.
VerdictInv ==
  /\ \A r \in Requests : item[r] \in {"pending", "running"} => job = r /\ said[r] = "nothing"
  /\ committed # Free => committed \in Requests /\ said[committed] = "applied"
  /\ \A r \in Requests :
       answer[r].says \notin {"nothing", "lost"} => answer[r].to = r /\ answer[r].says = said[r]

LinkInv == LinkTypes /\ ThreadInv /\ TrafficInv /\ VerdictInv

LEMMA LinkInitially == HostInit => LinkInv
<1> SUFFICES ASSUME HostInit PROVE LinkInv
  OBVIOUS
<1>1. /\ lock = Free /\ cancelled = {} /\ stream = 0 /\ dropped = {}
      /\ worker = [r \in Requests |-> "none"] /\ held = [r \in Requests |-> 0]
      /\ answer = [r \in Requests |-> NoAnswer]
      /\ pipes = <<>> /\ serving = 0 /\ job = Free
      /\ item = [r \in Requests |-> "none"] /\ said = [r \in Requests |-> "nothing"]
      /\ committed = Free
  BY DEF HostInit
<1>2. Len(pipes) = 0 /\ Streams = {0} /\ 1 .. Len(pipes) = {}
  BY <1>1 DEF Streams
<1>3. NoAnswer \in PortAnswers /\ NoAnswer.says = "nothing"
  BY DEF NoAnswer, PortAnswers
<1>4. LinkTypes
  BY <1>1, <1>2, <1>3 DEF LinkTypes, WorkerStages
<1>5. ThreadInv
  BY <1>1, RequestKindsAssumption DEF ThreadInv, ThreadOf, Requests, Free
<1>6. TrafficInv
  BY <1>1, <1>2 DEF TrafficInv
<1>7. VerdictInv
  BY <1>1, <1>3 DEF VerdictInv
<1> QED
  BY <1>4, <1>5, <1>6, <1>7 DEF LinkInv

LEMMA FreeIsNoRequest == \A r \in Requests : r # Free
  BY RequestKindsAssumption DEF Requests, Free

\* A stream carries one request, and not when it is idle.
LEMMA CarriesOne ==
  ASSUME NEW s, NEW r \in Requests, Carries(s, r)
  PROVE  ~Idle(s) /\ \A q \in Requests : Carries(s, q) => q = r
<1>1. <<r>> # <<>> /\ \A q : <<r>> = <<q>> => q = r
  OBVIOUS
<1>2. \A w : <<w>> # <<>>
  OBVIOUS
<1>3. \A q : LET f == [to |-> r, says |-> said[r]] g == [to |-> q, says |-> said[q]] IN <<f>> = <<g>> => q = r
  <2> SUFFICES ASSUME NEW q, <<[to |-> r, says |-> said[r]]>> = <<[to |-> q, says |-> said[q]]>> PROVE q = r
    OBVIOUS
  <2>1. [to |-> r, says |-> said[r]] = [to |-> q, says |-> said[q]]
    OBVIOUS
  <2>2. [to |-> r, says |-> said[r]].to = [to |-> q, says |-> said[q]].to
    BY <2>1
  <2> QED
    BY <2>2
<1> QED
  BY <1>1, <1>2, <1>3 DEF Carries, Idle, Sent, Handling, Returned, NotBusy

\* The same of the state after a step.
LEMMA CarriesOneNext ==
  ASSUME NEW s, NEW r \in Requests, Carries(s, r)'
  PROVE  ~Idle(s)' /\ \A q \in Requests : Carries(s, q)' => q = r
<1>1. <<r>> # <<>> /\ \A q : <<r>> = <<q>> => q = r
  OBVIOUS
<1>2. \A w : <<w>> # <<>>
  OBVIOUS
<1>3. \A q : LET f == [to |-> r, says |-> said'[r]] g == [to |-> q, says |-> said'[q]] IN <<f>> = <<g>> => q = r
  <2> SUFFICES ASSUME NEW q, <<[to |-> r, says |-> said'[r]]>> = <<[to |-> q, says |-> said'[q]]>> PROVE q = r
    OBVIOUS
  <2>1. [to |-> r, says |-> said'[r]] = [to |-> q, says |-> said'[q]]
    OBVIOUS
  <2>2. [to |-> r, says |-> said'[r]].to = [to |-> q, says |-> said'[q]].to
    BY <2>1
  <2> QED
    BY <2>2
<1> QED
  BY <1>1, <1>2, <1>3 DEF Carries, Idle, Sent, Handling, Returned, NotBusy

\* A stream among those opened, changed in one place.
LEMMA PipeChanged ==
  ASSUME pipes \in Seq(PipeRecords), NEW s \in 1 .. Len(pipes), NEW v \in PipeRecords
  PROVE  LET after == [pipes EXCEPT ![s] = v]
         IN  /\ after \in Seq(PipeRecords) /\ Len(after) = Len(pipes)
             /\ after[s] = v
             /\ \A t \in 1 .. Len(pipes) : t # s => after[t] = pipes[t]
  OBVIOUS

\* What a stream holds.
LEMMA PipeRecord ==
  ASSUME pipes \in Seq(PipeRecords), NEW s \in 1 .. Len(pipes)
  PROVE  pipes[s] \in PipeRecords
  OBVIOUS

\* A stream closed at the agent's end keeps what is in it.
LEMMA ClosedKeeps ==
  ASSUME pipes \in Seq(PipeRecords), NEW s \in 1 .. Len(pipes)
  PROVE  /\ Closed(s) \in Seq(PipeRecords) /\ Len(Closed(s)) = Len(pipes)
         /\ \A t \in 1 .. Len(pipes) :
              Closed(s)[t].toHost = pipes[t].toHost /\ Closed(s)[t].toAgent = pipes[t].toAgent
<1> DEFINE v == [pipes[s] EXCEPT !.open = FALSE]
<1>1. pipes[s] \in PipeRecords
  BY PipeRecord
<1>2. v \in PipeRecords /\ v.toHost = pipes[s].toHost /\ v.toAgent = pipes[s].toAgent
  BY <1>1 DEF PipeRecords
<1>3. Closed(s) = [pipes EXCEPT ![s] = v]
  BY DEF Closed
<1> HIDE DEF v
<1> QED
  BY <1>2, <1>3, PipeChanged

\* Steps that leave the pipes and the host alone leave what streams carry.
LEMMA SameTraffic ==
  ASSUME NEW s, pipes'[s].toHost = pipes[s].toHost, pipes'[s].toAgent = pipes[s].toAgent,
         UNCHANGED <<serving, job, said>>
  PROVE  /\ Idle(s)' <=> Idle(s)
         /\ \A r \in Requests : (Carries(s, r)' <=> Carries(s, r)) /\ (Sent(s, r)' <=> Sent(s, r))
  BY DEF Idle, Carries, Sent, Handling, Returned, NotBusy

\* Steps of a thread which leave in the streams what is in them: Issue, TakeStream,
\* Install, BreakDown, Abandon, CloseDropped.
LEMMA ThreadMoves ==
  ASSUME LinkInv, UNCHANGED <<serving, job, said, item, committed>>, LinkTypes', ThreadInv',
         Len(pipes') = Len(pipes),
         \A s \in 1 .. Len(pipes) :
           pipes'[s].toHost = pipes[s].toHost /\ pipes'[s].toAgent = pipes[s].toAgent,
         \A r \in Requests : worker[r] \in {"reading", "over"} => worker'[r] \in {"reading", "over"},
         \A r \in Requests : worker'[r] \in {"opened", "writing"} =>
           Idle(held'[r]),
         \A r \in Requests : worker'[r] = "reading" => worker[r] = "reading" /\ held'[r] = held[r],
         \A r \in Requests : answer'[r] \in {answer[r], Lost},
         stream' # 0 /\ (\A r \in Requests : held'[r] # stream') => Idle(stream')
  PROVE  LinkInv'
<1>1. LinkTypes /\ ThreadInv /\ TrafficInv /\ VerdictInv
  BY DEF LinkInv
<1>2. \A s \in 1 .. Len(pipes) :
        /\ Idle(s)' <=> Idle(s)
        /\ \A r \in Requests : (Carries(s, r)' <=> Carries(s, r)) /\ (Sent(s, r)' <=> Sent(s, r))
  BY SameTraffic
<1>3. TrafficInv'
  <2>1. \A s \in 1 .. Len(pipes) : Idle(s)' \/ \E r \in Requests : Carries(s, r)'
    BY <1>1, <1>2 DEF TrafficInv
  <2>2. \A s, t \in 1 .. Len(pipes), r \in Requests : Carries(s, r)' /\ Carries(t, r)' => s = t
    BY <1>1, <1>2 DEF TrafficInv
  <2>3. \A s \in 1 .. Len(pipes), r \in Requests :
          /\ Carries(s, r)' => worker'[r] \in {"reading", "over"}
          /\ Sent(s, r)' => said'[r] = "nothing"
    BY <1>1, <1>2 DEF TrafficInv
  <2>4. ASSUME NEW r \in Requests
        PROVE  /\ worker'[r] \in {"opened", "writing"} => Idle(held[r])'
               /\ worker'[r] = "reading" => Idle(held[r])' \/ Carries(held[r], r)'
               /\ worker'[r] \notin {"reading", "over"} => said'[r] = "nothing"
    <3>1. PICK h : h = held'[r]
      OBVIOUS
    <3>2. worker'[r] \in {"opened", "writing", "reading"} => h \in 1 .. Len(pipes)
      <4>1. h \in 0 .. Len(pipes)
        BY <3>1 DEF LinkTypes, Streams
      <4>2. worker'[r] \in {"opened", "writing", "reading"} => h # 0
        BY <3>1 DEF ThreadInv, ThreadOf
      <4> QED
        BY <1>1, <4>1, <4>2 DEF LinkTypes
    <3>3. worker'[r] \in {"opened", "writing"} => Idle(h)'
      BY <1>2, <3>1, <3>2
    <3>4. worker'[r] = "reading" => Idle(h)' \/ Carries(h, r)'
      BY <1>1, <1>2, <3>1, <3>2 DEF TrafficInv
    <3>5. (Idle(held[r])' <=> Idle(h)') /\ (Carries(held[r], r)' <=> Carries(h, r)')
      BY <3>1 DEF Idle, Carries, Sent, Handling, Returned, NotBusy
    <3>6. worker'[r] \notin {"reading", "over"} => said'[r] = "nothing"
      BY <1>1 DEF TrafficInv
    <3> QED
      BY <3>3, <3>4, <3>5, <3>6
  <2>5. stream' # 0 /\ (\A r \in Requests : held'[r] # stream') => Idle(stream)'
    <3>1. PICK h : h = stream'
      OBVIOUS
    <3>2. h # 0 => h \in 1 .. Len(pipes)
      BY <1>1, <3>1 DEF LinkTypes, Streams
    <3>3. Idle(stream)' <=> Idle(h)'
      BY <3>1 DEF Idle, NotBusy
    <3> QED
      BY <1>2, <3>1, <3>2, <3>3
  <2> QED
    BY <2>1, <2>2, <2>3, <2>4, <2>5 DEF TrafficInv
<1>4. VerdictInv'
  <2>1. Lost.says = "lost"
    BY DEF Lost
  <2> QED
    BY <1>1, <2>1 DEF VerdictInv
<1> QED
  BY <1>3, <1>4 DEF LinkInv

\* Those of them which do not touch the pipes: Issue, TakeStream, BreakDown, Abandon.
LEMMA ThreadSteps ==
  ASSUME LinkInv, UNCHANGED <<pipes, serving, job, said, item, committed>>, LinkTypes', ThreadInv',
         \A r \in Requests : worker[r] \in {"reading", "over"} => worker'[r] \in {"reading", "over"},
         \A r \in Requests : worker'[r] \in {"opened", "writing"} =>
           Idle(held'[r]),
         \A r \in Requests : worker'[r] = "reading" => worker[r] = "reading" /\ held'[r] = held[r],
         \A r \in Requests : answer'[r] \in {answer[r], Lost},
         stream' # 0 /\ (\A r \in Requests : held'[r] # stream') => Idle(stream')
  PROVE  LinkInv'
<1>1. /\ UNCHANGED <<serving, job, said, item, committed>> /\ Len(pipes') = Len(pipes)
      /\ \A s \in 1 .. Len(pipes) :
           pipes'[s].toHost = pipes[s].toHost /\ pipes'[s].toAgent = pipes[s].toAgent
  OBVIOUS
<1> QED
  BY <1>1, ThreadMoves

\* The answers a port may have, and where a stage may be.
LEMMA PortTyped == Lost \in PortAnswers /\ \A f \in Frames : f \in PortAnswers
  BY DEF Lost, PortAnswers, Frames, Requests

LEMMA IssueStep == ASSUME PromptStart, LinkInv, NEW r \in Requests, Issue(r) PROVE LinkInv'
<1>1. LinkTypes /\ ThreadInv /\ TrafficInv
  BY DEF LinkInv
<1>2. /\ lock = Free /\ worker[r] = "none" /\ (\A q \in Requests : worker[q] # "started")
      /\ lock' = r /\ worker' = [worker EXCEPT ![r] = "started"]
      /\ UNCHANGED <<held, cancelled, stream, dropped, answer, pipes, serving, job, item, said, committed>>
  BY DEF Issue, hostSide, drawing
<1>3. \A q \in Requests : q # r => worker'[q] = worker[q]
  BY <1>1, <1>2 DEF LinkTypes
<1>4. worker'[r] = "started"
  BY <1>1, <1>2 DEF LinkTypes
<1>5. LinkTypes'
  BY <1>1, <1>2 DEF LinkTypes, WorkerStages, Streams
<1>6. ThreadInv'
  <2>1. ThreadOf(r)'
    BY <1>1, <1>2, <1>4 DEF ThreadInv, ThreadOf
  <2>2. ASSUME NEW q \in Requests, q # r PROVE ThreadOf(q)'
    BY <1>1, <1>2, <1>3, <2>2, FreeIsNoRequest DEF ThreadInv, ThreadOf
  <2> QED
    BY <1>1, <1>2, <2>1, <2>2 DEF ThreadInv
<1>7. \A q \in Requests : /\ worker[q] \in {"reading", "over"} => worker'[q] \in {"reading", "over"}
                          /\ worker'[q] \in {"opened", "writing"} => Idle(held'[q])
                          /\ worker'[q] = "reading" => worker[q] = "reading" /\ held'[q] = held[q]
                          /\ answer'[q] \in {answer[q], Lost}
  BY <1>1, <1>2, <1>3, <1>4 DEF TrafficInv
<1>8. stream' # 0 /\ (\A q \in Requests : held'[q] # stream') => Idle(stream')
  BY <1>1, <1>2 DEF TrafficInv
<1> QED
  BY <1>2, <1>5, <1>6, <1>7, <1>8, ThreadSteps

LEMMA TakeStep == ASSUME LinkInv, NEW r \in Requests, TakeStream(r) PROVE LinkInv'
<1>1. LinkTypes /\ ThreadInv /\ TrafficInv
  BY DEF LinkInv
<1>2. /\ worker[r] = "started" /\ held' = [held EXCEPT ![r] = stream]
      /\ worker' = [worker EXCEPT ![r] = IF stream = 0 THEN "opening" ELSE "writing"]
      /\ UNCHANGED <<lock, cancelled, stream, dropped, answer, pipes, serving, job, item, said, committed>>
  BY DEF TakeStream, hostSide, drawing
<1>3. \A q \in Requests : q # r => worker'[q] = worker[q] /\ held'[q] = held[q]
  BY <1>1, <1>2 DEF LinkTypes
<1>4. worker'[r] = (IF stream = 0 THEN "opening" ELSE "writing") /\ held'[r] = stream /\ held[r] = 0
  BY <1>1, <1>2 DEF LinkTypes, ThreadInv, ThreadOf
<1>5. LinkTypes'
  BY <1>1, <1>2 DEF LinkTypes, WorkerStages, Streams
<1>6. stream # 0 => lock = r /\ r \notin cancelled
  BY <1>1, <1>2 DEF ThreadInv, ThreadOf
<1>7. stream # 0 => \A q \in Requests : held[q] # stream
  <2> SUFFICES ASSUME stream # 0, NEW q \in Requests, held[q] = stream PROVE FALSE
    OBVIOUS
  <2>1. q # r /\ worker[q] \in {"opened", "writing", "reading"} /\ q \notin cancelled
    BY <1>1, <1>4 DEF ThreadInv, ThreadOf
  <2>2. lock = q
    BY <1>1, <2>1 DEF ThreadInv, ThreadOf
  <2> QED
    BY <1>6, <2>1, <2>2
<1>8. ThreadInv'
  <2>1. ThreadOf(r)'
    BY <1>1, <1>2, <1>4, <1>6 DEF ThreadInv, ThreadOf
  <2>2. ASSUME NEW q \in Requests, q # r PROVE ThreadOf(q)'
    BY <1>1, <1>2, <1>3, <2>2 DEF ThreadInv, ThreadOf
  <2>3. ASSUME NEW p \in Requests, NEW q \in Requests, p # q, held'[p] # 0 PROVE held'[p] # held'[q]
    BY <1>1, <1>3, <1>4, <1>7, <2>3 DEF ThreadInv
  <2> QED
    BY <2>1, <2>2, <2>3 DEF ThreadInv
<1>9. \A q \in Requests : /\ worker[q] \in {"reading", "over"} => worker'[q] \in {"reading", "over"}
                          /\ worker'[q] = "reading" => worker[q] = "reading" /\ held'[q] = held[q]
                          /\ answer'[q] \in {answer[q], Lost}
  BY <1>2, <1>3, <1>4
<1>10. ASSUME NEW q \in Requests, worker'[q] \in {"opened", "writing"} PROVE Idle(held'[q])
  <2>1. CASE q # r
    BY <1>1, <1>3, <1>10, <2>1 DEF TrafficInv
  <2>2. CASE q = r
    <3>1. stream # 0 /\ held'[q] = stream
      BY <1>4, <1>10, <2>2
    <3> QED
      BY <1>1, <1>7, <3>1 DEF TrafficInv
  <2> QED
    BY <2>1, <2>2
<1>11. stream' # 0 /\ (\A q \in Requests : held'[q] # stream') => Idle(stream')
  BY <1>2, <1>4
<1> QED
  BY <1>2, <1>5, <1>8, <1>9, <1>10, <1>11, ThreadSteps

\* A request that ends without a frame: its stream goes with it.
LEMMA BreakStep == ASSUME LinkInv, NEW r \in Requests, BreakDown(r) PROVE LinkInv'
<1>1. LinkTypes /\ ThreadInv /\ TrafficInv
  BY DEF LinkInv
<1>2. /\ worker[r] \in {"opening", "writing", "reading"}
      /\ worker' = [worker EXCEPT ![r] = "over"] /\ held' = [held EXCEPT ![r] = 0]
      /\ UNCHANGED <<cancelled, dropped, pipes, serving, job, item, said, committed>>
  BY DEF BreakDown, hostSide, drawing
<1>3. \/ r \in cancelled /\ UNCHANGED <<lock, stream, answer>>
      \/ r \notin cancelled /\ answer' = [answer EXCEPT ![r] = Lost] /\ lock' = Free /\ stream' = 0
  BY DEF BreakDown, GiveUpAdapter
<1>4. \A q \in Requests : q # r => worker'[q] = worker[q] /\ held'[q] = held[q]
  BY <1>1, <1>2 DEF LinkTypes
<1>5. worker'[r] = "over" /\ held'[r] = 0
  BY <1>1, <1>2 DEF LinkTypes
<1>6. LinkTypes'
  <2>1. 0 \in Streams /\ Streams' = Streams
    BY <1>1, <1>2 DEF LinkTypes, Streams
  <2>2. answer' \in [Requests -> PortAnswers] /\ lock' \in Requests \cup {Free} /\ stream' \in Streams
    BY <1>1, <1>3, <2>1, PortTyped DEF LinkTypes
  <2> QED
    BY <1>1, <1>2, <2>1, <2>2 DEF LinkTypes, WorkerStages
<1>7. ThreadInv'
  <2>1. r \notin cancelled => lock = r
    BY <1>1, <1>2 DEF ThreadInv, ThreadOf
  <2>2. ThreadOf(r)'
    BY <1>1, <1>2, <1>3, <1>5, <2>1, FreeIsNoRequest DEF ThreadInv, ThreadOf
  <2>3. ASSUME NEW q \in Requests, q # r PROVE ThreadOf(q)'
    BY <1>1, <1>2, <1>3, <1>4, <2>1, <2>3, FreeIsNoRequest DEF ThreadInv, ThreadOf
  <2>4. ASSUME NEW p \in Requests, NEW q \in Requests, p # q, held'[p] # 0 PROVE held'[p] # held'[q]
    BY <1>1, <1>4, <1>5, <2>4 DEF ThreadInv
  <2> QED
    BY <2>2, <2>3, <2>4 DEF ThreadInv
<1>8. \A q \in Requests : /\ worker[q] \in {"reading", "over"} => worker'[q] \in {"reading", "over"}
                          /\ worker'[q] \in {"opened", "writing"} => Idle(held'[q])
                          /\ worker'[q] = "reading" => worker[q] = "reading" /\ held'[q] = held[q]
  BY <1>1, <1>4, <1>5 DEF TrafficInv
<1>9. \A q \in Requests : answer'[q] \in {answer[q], Lost}
  BY <1>1, <1>3 DEF LinkTypes
<1>10. stream' # 0 /\ (\A q \in Requests : held'[q] # stream') => Idle(stream')
  <2> SUFFICES ASSUME stream' # 0, \A q \in Requests : held'[q] # stream' PROVE Idle(stream')
    OBVIOUS
  <2>1. r \in cancelled /\ stream' = stream
    BY <1>3
  <2>2. held[r] # stream
    BY <1>1, <2>1 DEF ThreadInv, ThreadOf
  <2>3. \A q \in Requests : held[q] # stream
    BY <1>4, <2>1, <2>2
  <2> QED
    BY <1>1, <2>1, <2>3 DEF TrafficInv
<1> QED
  BY <1>2, <1>6, <1>7, <1>8, <1>9, <1>10, ThreadSteps

LEMMA AbandonStep == ASSUME LinkInv, NEW r \in Requests, Abandon(r) PROVE LinkInv'
<1>1. LinkTypes /\ ThreadInv /\ TrafficInv
  BY DEF LinkInv
<1>2. /\ lock = r /\ lock' = Free /\ cancelled' = cancelled \cup {r}
      /\ answer' = [answer EXCEPT ![r] = Lost]
      /\ stream' = 0 /\ dropped' = dropped \cup ({stream} \ {0})
      /\ UNCHANGED <<worker, held, pipes, serving, job, item, said, committed>>
  BY DEF Abandon, Aborted, hostSide, drawing
<1>3. LinkTypes'
  <2>1. 0 \in Streams /\ Streams' = Streams
    BY <1>1, <1>2 DEF LinkTypes, Streams
  <2>2. answer' \in [Requests -> PortAnswers] /\ dropped' \subseteq Streams \ {0}
    BY <1>1, <1>2, PortTyped DEF LinkTypes
  <2> QED
    BY <1>1, <1>2, <2>1, <2>2 DEF LinkTypes
<1>4. ThreadInv'
  <2>1. ThreadOf(r)'
    BY <1>1, <1>2, FreeIsNoRequest DEF ThreadInv, ThreadOf
  <2>2. ASSUME NEW q \in Requests, q # r PROVE ThreadOf(q)'
    BY <1>1, <1>2, <2>2, FreeIsNoRequest DEF ThreadInv, ThreadOf
  <2> QED
    BY <1>1, <1>2, <2>1, <2>2 DEF ThreadInv
<1>5. \A q \in Requests : /\ worker[q] \in {"reading", "over"} => worker'[q] \in {"reading", "over"}
                          /\ worker'[q] \in {"opened", "writing"} => Idle(held'[q])
                          /\ worker'[q] = "reading" => worker[q] = "reading" /\ held'[q] = held[q]
  BY <1>1, <1>2 DEF TrafficInv
<1>6. \A q \in Requests : answer'[q] \in {answer[q], Lost}
  BY <1>1, <1>2 DEF LinkTypes
<1> QED
  BY <1>2, <1>3, <1>4, <1>5, <1>6, ThreadSteps

\* Where a thread's stream is.
LEMMA HeldIsOpened ==
  ASSUME LinkTypes, ThreadInv, NEW r \in Requests, worker[r] \in {"opened", "writing", "reading"}
  PROVE  held[r] \in 1 .. Len(pipes)
<1>1. held[r] \in 0 .. Len(pipes) /\ held[r] # 0
  BY DEF LinkTypes, Streams, ThreadInv, ThreadOf
<1> QED
  BY <1>1 DEF LinkTypes

LEMMA InstallStep == ASSUME LinkInv, NEW r \in Requests, Install(r) PROVE LinkInv'
<1>1. LinkTypes /\ ThreadInv /\ TrafficInv
  BY DEF LinkInv
<1>2. /\ worker[r] = "opened"
      /\ UNCHANGED <<lock, cancelled, dropped, answer, serving, job, item, said, committed>>
  BY DEF Install, hostSide, drawing
<1>3. held[r] \in 1 .. Len(pipes)
  BY <1>1, <1>2, HeldIsOpened
<1>4. r \notin cancelled => lock = r /\ stream = 0
  BY <1>1, <1>2 DEF ThreadInv, ThreadOf
<1>5. \/ /\ r \in cancelled /\ pipes' = Closed(held[r]) /\ stream' = stream
         /\ worker' = [worker EXCEPT ![r] = "over"] /\ held' = [held EXCEPT ![r] = 0]
      \/ /\ r \notin cancelled /\ pipes' = pipes /\ stream' = held[r] /\ held' = held
         /\ worker' = [worker EXCEPT ![r] = "writing"]
  BY <1>4 DEF Install, GivenUp
<1>6. \A q \in Requests : q # r => worker'[q] = worker[q] /\ held'[q] = held[q]
  BY <1>1, <1>5 DEF LinkTypes
<1>7. \/ r \in cancelled /\ worker'[r] = "over" /\ held'[r] = 0 /\ stream' = stream
      \/ r \notin cancelled /\ worker'[r] = "writing" /\ held'[r] = held[r] /\ stream' = held[r]
  BY <1>1, <1>5 DEF LinkTypes
<1>8. /\ pipes' \in Seq(PipeRecords) /\ Len(pipes') = Len(pipes)
      /\ \A s \in 1 .. Len(pipes) :
           pipes'[s].toHost = pipes[s].toHost /\ pipes'[s].toAgent = pipes[s].toAgent
  BY <1>1, <1>3, <1>5, ClosedKeeps DEF LinkTypes
<1>9. LinkTypes'
  <2>1. Streams' = Streams /\ 0 \in Streams /\ held[r] \in Streams
    BY <1>1, <1>3, <1>8 DEF LinkTypes, Streams
  <2>2. worker' \in [Requests -> WorkerStages] /\ held' \in [Requests -> Streams] /\ stream' \in Streams
    BY <1>1, <1>5, <2>1 DEF LinkTypes, WorkerStages
  <2> QED
    BY <1>1, <1>2, <1>8, <2>1, <2>2 DEF LinkTypes
<1>10. ThreadInv'
  <2>1. ThreadOf(r)'
    BY <1>1, <1>2, <1>4, <1>7 DEF ThreadInv, ThreadOf
  <2>2. ASSUME NEW q \in Requests, q # r PROVE ThreadOf(q)'
    BY <1>1, <1>2, <1>3, <1>4, <1>6, <1>7, <2>2, FreeIsNoRequest DEF ThreadInv, ThreadOf
  <2>3. ASSUME NEW p \in Requests, NEW q \in Requests, p # q, held'[p] # 0 PROVE held'[p] # held'[q]
    BY <1>1, <1>6, <1>7, <2>3 DEF ThreadInv
  <2> QED
    BY <2>1, <2>2, <2>3 DEF ThreadInv
<1>11. \A q \in Requests : /\ worker[q] \in {"reading", "over"} => worker'[q] \in {"reading", "over"}
                           /\ worker'[q] \in {"opened", "writing"} => Idle(held'[q])
                           /\ worker'[q] = "reading" => worker[q] = "reading" /\ held'[q] = held[q]
  BY <1>1, <1>2, <1>6, <1>7 DEF TrafficInv
<1>12. \A q \in Requests : answer'[q] \in {answer[q], Lost}
  BY <1>2
<1>13. stream' # 0 /\ (\A q \in Requests : held'[q] # stream') => Idle(stream')
  <2> SUFFICES ASSUME stream' # 0, \A q \in Requests : held'[q] # stream' PROVE Idle(stream')
    OBVIOUS
  <2>1. r \in cancelled /\ stream' = stream
    BY <1>7
  <2>2. held[r] # stream
    BY <1>1, <1>2, <2>1 DEF ThreadInv, ThreadOf
  <2>3. \A q \in Requests : held[q] # stream
    BY <1>6, <2>1, <2>2
  <2> QED
    BY <1>1, <2>1, <2>3 DEF TrafficInv
<1> QED
  BY <1>2, <1>8, <1>9, <1>10, <1>11, <1>12, <1>13, ThreadMoves

LEMMA DroppedStep == ASSUME LinkInv, NEW s \in dropped, CloseDropped(s) PROVE LinkInv'
<1>1. LinkTypes /\ ThreadInv /\ TrafficInv
  BY DEF LinkInv
<1>2. /\ dropped' = dropped \ {s} /\ pipes' = Closed(s)
      /\ UNCHANGED <<lock, worker, held, cancelled, stream, answer, serving, job, item, said, committed>>
  BY DEF CloseDropped, hostSide, drawing
<1>3. s \in 1 .. Len(pipes)
  <2>1. s \in 0 .. Len(pipes) /\ s # 0
    BY <1>1 DEF LinkTypes, Streams
  <2> QED
    BY <1>1, <2>1 DEF LinkTypes
<1>4. /\ pipes' \in Seq(PipeRecords) /\ Len(pipes') = Len(pipes)
      /\ \A t \in 1 .. Len(pipes) :
           pipes'[t].toHost = pipes[t].toHost /\ pipes'[t].toAgent = pipes[t].toAgent
  BY <1>1, <1>2, <1>3, ClosedKeeps DEF LinkTypes
<1>5. LinkTypes'
  BY <1>1, <1>2, <1>4 DEF LinkTypes, Streams
<1>6. ThreadInv'
  BY <1>1, <1>2 DEF ThreadInv, ThreadOf
<1>7. \A q \in Requests : /\ worker[q] \in {"reading", "over"} => worker'[q] \in {"reading", "over"}
                          /\ worker'[q] \in {"opened", "writing"} => Idle(held'[q])
                          /\ worker'[q] = "reading" => worker[q] = "reading" /\ held'[q] = held[q]
                          /\ answer'[q] \in {answer[q], Lost}
  BY <1>1, <1>2 DEF TrafficInv
<1>8. stream' # 0 /\ (\A q \in Requests : held'[q] # stream') => Idle(stream')
  BY <1>1, <1>2 DEF TrafficInv
<1> QED
  BY <1>2, <1>4, <1>5, <1>6, <1>7, <1>8, ThreadMoves

\* A stream idle before its holder writes carries the holder's request after.
LEMMA WriteStep == ASSUME LinkInv, NEW r \in Requests, Write(r) PROVE LinkInv'
<1>1. LinkTypes /\ ThreadInv /\ TrafficInv /\ VerdictInv
  BY DEF LinkInv
<1>2. /\ worker[r] = "writing"
      /\ pipes' = [pipes EXCEPT ![held[r]].toHost = Append(@, r)]
      /\ worker' = [worker EXCEPT ![r] = "reading"]
      /\ UNCHANGED <<lock, held, cancelled, stream, dropped, answer, serving, job, item, said, committed>>
  BY DEF Write, hostSide, drawing
<1>3. PICK h \in 1 .. Len(pipes) : h = held[r]
  BY <1>1, <1>2, HeldIsOpened
<1> DEFINE v == [pipes[h] EXCEPT !.toHost = Append(@, r)]
<1>4. pipes[h] \in PipeRecords
  BY <1>1, PipeRecord DEF LinkTypes
<1>5. Idle(h) /\ pipes[h].toHost = <<>>
  BY <1>1, <1>2, <1>3 DEF TrafficInv, Idle
<1>6. Append(<<>>, r) = <<r>>
  OBVIOUS
<1>7. v \in PipeRecords /\ v.toHost = <<r>> /\ v.toAgent = pipes[h].toAgent
  <2>1. <<r>> \in Seq(Requests)
    OBVIOUS
  <2>2. v = [pipes[h] EXCEPT !.toHost = <<r>>]
    BY <1>4, <1>5, <1>6 DEF PipeRecords
  <2> HIDE DEF v
  <2> QED
    BY <1>4, <2>1, <2>2 DEF PipeRecords
<1>8. pipes' = [pipes EXCEPT ![h] = v]
  BY <1>2, <1>3
<1> HIDE DEF v
<1>9. /\ pipes' \in Seq(PipeRecords) /\ Len(pipes') = Len(pipes) /\ pipes'[h] = v
      /\ \A t \in 1 .. Len(pipes) : t # h => pipes'[t] = pipes[t]
  BY <1>1, <1>7, <1>8, PipeChanged DEF LinkTypes
<1>10. worker'[r] = "reading" /\ \A q \in Requests : q # r => worker'[q] = worker[q]
  BY <1>1, <1>2 DEF LinkTypes
<1>11. LinkTypes'
  BY <1>1, <1>2, <1>9 DEF LinkTypes, Streams, WorkerStages
<1>12. ThreadInv'
  <2>1. ThreadOf(r)'
    BY <1>1, <1>2, <1>10 DEF ThreadInv, ThreadOf
  <2>2. ASSUME NEW q \in Requests, q # r PROVE ThreadOf(q)'
    BY <1>1, <1>2, <1>10, <2>2 DEF ThreadInv, ThreadOf
  <2> QED
    BY <1>1, <1>2, <2>1, <2>2 DEF ThreadInv
<1>13. Sent(h, r)'
  BY <1>2, <1>5, <1>7, <1>9 DEF Sent, Idle, NotBusy
<1>14. ASSUME NEW s \in 1 .. Len(pipes), s # h
       PROVE  /\ Idle(s)' <=> Idle(s)
              /\ \A q \in Requests : (Carries(s, q)' <=> Carries(s, q)) /\ (Sent(s, q)' <=> Sent(s, q))
  BY <1>2, <1>9, <1>14, SameTraffic
<1>15. Carries(h, r)' /\ \A q \in Requests : Carries(h, q)' => q = r
  BY <1>13, CarriesOneNext DEF Carries
<1>16. said[r] = "nothing" /\ \A s \in 1 .. Len(pipes) : ~Carries(s, r)
  BY <1>1, <1>2 DEF TrafficInv
<1>17. TrafficInv'
  <2>1. \A s \in 1 .. Len(pipes) : Idle(s)' \/ \E q \in Requests : Carries(s, q)'
    BY <1>1, <1>14, <1>15 DEF TrafficInv
  <2>2. ASSUME NEW s \in 1 .. Len(pipes), NEW t \in 1 .. Len(pipes), NEW q \in Requests,
               Carries(s, q)', Carries(t, q)'
        PROVE  s = t
    BY <1>1, <1>14, <1>15, <1>16, <2>2 DEF TrafficInv
  <2>3. ASSUME NEW s \in 1 .. Len(pipes), NEW q \in Requests
        PROVE  /\ Carries(s, q)' => worker'[q] \in {"reading", "over"}
               /\ Sent(s, q)' => said'[q] = "nothing"
    <3>1. Sent(s, q)' => Carries(s, q)'
      BY DEF Carries
    <3>2. CASE s = h
      BY <1>2, <1>10, <1>15, <1>16, <3>1, <3>2
    <3>3. CASE s # h
      BY <1>1, <1>2, <1>10, <1>14, <3>3 DEF TrafficInv
    <3> QED
      BY <3>2, <3>3
  <2>4. ASSUME NEW q \in Requests
        PROVE  /\ worker'[q] \in {"opened", "writing"} => Idle(held[q])'
               /\ worker'[q] = "reading" => Idle(held[q])' \/ Carries(held[q], q)'
               /\ worker'[q] \notin {"reading", "over"} => said'[q] = "nothing"
    <3>1. PICK k : k = held'[q]
      OBVIOUS
    <3>2. (Idle(held[q])' <=> Idle(k)') /\ (Carries(held[q], q)' <=> Carries(k, q)')
      BY <3>1 DEF Idle, Carries, Sent, Handling, Returned, NotBusy
    <3>3. CASE q = r
      BY <1>2, <1>3, <1>10, <1>15, <3>1, <3>2, <3>3
    <3>4. CASE q # r
      <4>1. held[q] = k
        BY <1>2, <3>1
      <4>2. worker[q] \in {"opened", "writing", "reading"} => k \in 1 .. Len(pipes) /\ k # h
        BY <1>1, <1>3, <3>4, <4>1, HeldIsOpened DEF ThreadInv
      <4> QED
        BY <1>1, <1>2, <1>10, <1>14, <3>2, <3>4, <4>1, <4>2 DEF TrafficInv
    <3> QED
      BY <3>3, <3>4
  <2>5. stream' # 0 /\ (\A q \in Requests : held'[q] # stream') => Idle(stream)'
    <3> SUFFICES ASSUME stream' # 0, \A q \in Requests : held'[q] # stream' PROVE Idle(stream)'
      OBVIOUS
    <3>1. PICK k : k = stream
      OBVIOUS
    <3>2. k \in 1 .. Len(pipes) /\ k # h /\ Idle(k)
      BY <1>1, <1>2, <1>3, <3>1 DEF LinkTypes, Streams, TrafficInv
    <3>3. Idle(k)'
      BY <1>14, <3>2
    <3> QED
      BY <1>2, <3>1, <3>3 DEF Idle, NotBusy
  <2> QED
    BY <1>9, <2>1, <2>2, <2>3, <2>4, <2>5 DEF TrafficInv
<1>18. VerdictInv'
  BY <1>1, <1>2 DEF VerdictInv
<1> QED
  BY <1>11, <1>12, <1>17, <1>18 DEF LinkInv

\* A thread that reads a frame reads the answer to its own request.
LEMMA FrameStep == ASSUME LinkInv, NEW r \in Requests, Read(r) PROVE LinkInv'
<1>1. LinkTypes /\ ThreadInv /\ TrafficInv /\ VerdictInv
  BY DEF LinkInv
<1>2. /\ worker[r] = "reading" /\ pipes[held[r]].toAgent # <<>>
      /\ worker' = [worker EXCEPT ![r] = "over"] /\ held' = [held EXCEPT ![r] = 0]
      /\ UNCHANGED <<cancelled, dropped, serving, job, item, said, committed>>
  BY DEF Read, hostSide, drawing
<1>3. PICK h \in 1 .. Len(pipes) : h = held[r]
  BY <1>1, <1>2, HeldIsOpened
<1>4. Returned(h, r)
  BY <1>1, <1>2, <1>3 DEF TrafficInv, Carries, Idle, Sent, Handling
<1> DEFINE frame == [to |-> r, says |-> said[r]]
           kept  == [pipes EXCEPT ![h].toAgent = Tail(@)]
           shut  == [kept EXCEPT ![h].open = FALSE]
           taken == IF Fits(r, frame) THEN frame ELSE Lost
<1>5. Head(pipes[h].toAgent) = frame /\ Tail(pipes[h].toAgent) = <<>>
  BY <1>4 DEF Returned
<1>6. \/ r \in cancelled /\ pipes' = kept /\ UNCHANGED <<lock, stream, answer>>
      \/ /\ r \notin cancelled /\ answer' = [answer EXCEPT ![r] = taken] /\ lock' = Free
         /\ \/ stream' = 0 /\ pipes' = shut
            \/ stream' = stream /\ pipes' = kept
  <2>1. Head(pipes[held[r]].toAgent) = frame /\ held[r] = h
    BY <1>3, <1>5
  <2> HIDE DEF frame
  <2>2. CASE r \in cancelled
    BY <1>3, <2>2 DEF Read
  <2>3. CASE r \notin cancelled
    BY <2>1, <2>3 DEF Read, GiveUpAdapter
  <2> QED
    BY <2>2, <2>3
<1>7. /\ pipes' \in Seq(PipeRecords) /\ Len(pipes') = Len(pipes)
      /\ pipes'[h].toHost = pipes[h].toHost /\ pipes'[h].toAgent = <<>>
      /\ \A t \in 1 .. Len(pipes) : t # h => pipes'[t] = pipes[t]
  <2> DEFINE v == [pipes[h] EXCEPT !.toAgent = Tail(@)]
             w == [v EXCEPT !.open = FALSE]
  <2>1. pipes[h] \in PipeRecords
    BY <1>1, PipeRecord DEF LinkTypes
  <2>2. <<>> \in Seq(Frames)
    OBVIOUS
  <2>3. v \in PipeRecords /\ v.toHost = pipes[h].toHost /\ v.toAgent = <<>>
    BY <1>5, <2>1, <2>2 DEF PipeRecords
  <2>4. w \in PipeRecords /\ w.toHost = pipes[h].toHost /\ w.toAgent = <<>>
    BY <2>3 DEF PipeRecords
  <2>5. kept = [pipes EXCEPT ![h] = v] /\ shut = [pipes EXCEPT ![h] = w]
    BY <1>1 DEF LinkTypes
  <2> HIDE DEF v, w, kept, shut
  <2>6. PICK x \in {v, w} : pipes' = [pipes EXCEPT ![h] = x]
    BY <1>6, <2>5
  <2>7. x \in PipeRecords /\ x.toHost = pipes[h].toHost /\ x.toAgent = <<>>
    BY <2>3, <2>4, <2>6
  <2>8. /\ pipes' \in Seq(PipeRecords) /\ Len(pipes') = Len(pipes) /\ pipes'[h] = x
        /\ \A t \in 1 .. Len(pipes) : t # h => pipes'[t] = pipes[t]
    BY <1>1, <2>6, <2>7, PipeChanged DEF LinkTypes
  <2> QED
    BY <2>7, <2>8
<1> HIDE DEF kept, shut
<1>8. /\ worker'[r] = "over" /\ held'[r] = 0
      /\ \A q \in Requests : q # r => worker'[q] = worker[q] /\ held'[q] = held[q]
  BY <1>1, <1>2 DEF LinkTypes
<1>9. \/ taken.says = "lost" /\ taken = Lost
      \/ taken.to = r /\ taken.says = said[r] /\ taken = frame
  BY DEF Lost
<1>10. taken \in PortAnswers
  <2>1. said[r] \in Sayings \cup {"nothing"}
    BY <1>1 DEF LinkTypes
  <2>2. frame \in PortAnswers
    BY <2>1 DEF PortAnswers
  <2> QED
    BY <1>9, <2>2, PortTyped
<1> HIDE DEF frame, taken
<1>11. LinkTypes'
  <2>1. Streams' = Streams /\ 0 \in Streams
    BY <1>1, <1>7 DEF LinkTypes, Streams
  <2>2. worker' \in [Requests -> WorkerStages] /\ held' \in [Requests -> Streams]
    BY <1>1, <1>2, <2>1 DEF LinkTypes, WorkerStages
  <2>3. answer' \in [Requests -> PortAnswers]
    BY <1>1, <1>6, <1>10 DEF LinkTypes
  <2>4. stream' \in Streams /\ lock' \in Requests \cup {Free}
    BY <1>1, <1>6, <2>1 DEF LinkTypes
  <2> QED
    BY <1>1, <1>2, <1>7, <2>1, <2>2, <2>3, <2>4 DEF LinkTypes
<1>12. r \notin cancelled => lock = r /\ stream = h
  BY <1>1, <1>2, <1>3 DEF ThreadInv, ThreadOf
<1>13. \/ r \in cancelled /\ UNCHANGED <<lock, stream>>
       \/ r \notin cancelled /\ lock' = Free /\ stream' \in {0, stream}
  BY <1>6
<1>14. ThreadInv'
  <2>1. ThreadOf(r)'
    BY <1>1, <1>2, <1>8, <1>12, <1>13, FreeIsNoRequest DEF ThreadInv, ThreadOf
  <2>2. ASSUME NEW q \in Requests, q # r PROVE ThreadOf(q)'
    BY <1>1, <1>2, <1>8, <1>12, <1>13, <2>2, FreeIsNoRequest DEF ThreadInv, ThreadOf
  <2>3. ASSUME NEW p \in Requests, NEW q \in Requests, p # q, held'[p] # 0 PROVE held'[p] # held'[q]
    BY <1>1, <1>8, <2>3 DEF ThreadInv
  <2> QED
    BY <2>1, <2>2, <2>3 DEF ThreadInv
<1>15. Idle(h)' /\ \A q \in Requests : ~Carries(h, q)'
  <2>1. Idle(h)'
    BY <1>2, <1>4, <1>7 DEF Idle, Returned, NotBusy
  <2> QED
    BY <2>1, CarriesOneNext
<1>16. ASSUME NEW s \in 1 .. Len(pipes), s # h
       PROVE  /\ Idle(s)' <=> Idle(s)
              /\ \A q \in Requests : (Carries(s, q)' <=> Carries(s, q)) /\ (Sent(s, q)' <=> Sent(s, q))
  BY <1>2, <1>7, <1>16, SameTraffic
<1>17. TrafficInv'
  <2>1. \A s \in 1 .. Len(pipes) : Idle(s)' \/ \E q \in Requests : Carries(s, q)'
    BY <1>1, <1>15, <1>16 DEF TrafficInv
  <2>2. ASSUME NEW s \in 1 .. Len(pipes), NEW t \in 1 .. Len(pipes), NEW q \in Requests,
               Carries(s, q)', Carries(t, q)'
        PROVE  s = t
    BY <1>1, <1>15, <1>16, <2>2 DEF TrafficInv
  <2>3. ASSUME NEW s \in 1 .. Len(pipes), NEW q \in Requests
        PROVE  /\ Carries(s, q)' => worker'[q] \in {"reading", "over"}
               /\ Sent(s, q)' => said'[q] = "nothing"
    <3>1. Sent(s, q)' => Carries(s, q)'
      BY DEF Carries
    <3>2. CASE s = h
      BY <1>15, <3>1, <3>2
    <3>3. CASE s # h
      BY <1>1, <1>2, <1>8, <1>16, <3>3 DEF TrafficInv
    <3> QED
      BY <3>2, <3>3
  <2>4. ASSUME NEW q \in Requests
        PROVE  /\ worker'[q] \in {"opened", "writing"} => Idle(held[q])'
               /\ worker'[q] = "reading" => Idle(held[q])' \/ Carries(held[q], q)'
               /\ worker'[q] \notin {"reading", "over"} => said'[q] = "nothing"
    <3>1. PICK k : k = held'[q]
      OBVIOUS
    <3>2. (Idle(held[q])' <=> Idle(k)') /\ (Carries(held[q], q)' <=> Carries(k, q)')
      BY <3>1 DEF Idle, Carries, Sent, Handling, Returned, NotBusy
    <3>3. CASE q = r
      BY <1>8, <3>3
    <3>4. CASE q # r
      <4>1. held[q] = k
        BY <1>8, <3>1, <3>4
      <4>2. worker[q] \in {"opened", "writing", "reading"} => k \in 1 .. Len(pipes) /\ k # h
        BY <1>1, <1>3, <3>4, <4>1, HeldIsOpened DEF ThreadInv
      <4> QED
        BY <1>1, <1>2, <1>8, <1>16, <3>2, <3>4, <4>1, <4>2 DEF TrafficInv
    <3> QED
      BY <3>3, <3>4
  <2>5. stream' # 0 /\ (\A q \in Requests : held'[q] # stream') => Idle(stream)'
    <3> SUFFICES ASSUME stream' # 0, \A q \in Requests : held'[q] # stream' PROVE Idle(stream)'
      OBVIOUS
    <3>1. PICK k : k = stream
      OBVIOUS
    <3>2. stream' = k /\ k \in 1 .. Len(pipes)
      BY <1>1, <1>13, <3>1 DEF LinkTypes, Streams
    <3>3. k # h => Idle(k)
      BY <1>1, <1>3, <1>8, <3>1, <3>2 DEF TrafficInv
    <3>4. Idle(k)'
      BY <1>15, <1>16, <3>2, <3>3
    <3> QED
      BY <3>2, <3>4 DEF Idle, NotBusy
  <2> QED
    BY <1>7, <2>1, <2>2, <2>3, <2>4, <2>5 DEF TrafficInv
<1>18. VerdictInv'
  <2>1. ASSUME NEW q \in Requests, answer'[q].says \notin {"nothing", "lost"}
        PROVE  answer'[q].to = q /\ answer'[q].says = said[q]
    <3>1. CASE answer'[q] = answer[q]
      BY <1>1, <2>1, <3>1 DEF VerdictInv
    <3>2. CASE q = r /\ answer'[q] = taken
      BY <1>9, <2>1, <3>2
    <3> QED
      BY <1>1, <1>6, <3>1, <3>2 DEF LinkTypes
  <2> QED
    BY <1>1, <1>2, <2>1 DEF VerdictInv
<1> QED
  BY <1>11, <1>14, <1>17, <1>18 DEF LinkInv

\* A stream just opened has nothing in it, and nobody else holds it.
LEMMA PipeOpens == ASSUME LinkInv, NEW r \in Requests, Open(r) PROVE LinkInv'
<1>0. PICK n : n = Len(pipes) + 1
  OBVIOUS
<1> DEFINE empty == [open |-> TRUE, toHost |-> <<>>, toAgent |-> <<>>]
<1>1. LinkTypes /\ ThreadInv /\ TrafficInv /\ VerdictInv
  BY DEF LinkInv
<1>2. /\ worker[r] = "opening" /\ serving = 0 /\ serving' = n
      /\ pipes' = Append(pipes, empty)
      /\ held' = [held EXCEPT ![r] = n] /\ worker' = [worker EXCEPT ![r] = "opened"]
      /\ UNCHANGED <<lock, cancelled, stream, dropped, answer, job, item, said, committed>>
  BY <1>0 DEF Open, drawing
<1>3. job = Free /\ held[r] = 0
  BY <1>1, <1>2 DEF LinkTypes, ThreadInv, ThreadOf
<1>4. empty \in PipeRecords /\ empty.toHost = <<>> /\ empty.toAgent = <<>>
  <2>1. <<>> \in Seq(Requests) /\ <<>> \in Seq(Frames)
    OBVIOUS
  <2> QED
    BY <2>1 DEF PipeRecords
<1> HIDE DEF empty
<1>5. Len(pipes) \in Nat /\ n \in Nat \ {0} /\ n \notin Streams
  BY <1>0, <1>1 DEF LinkTypes, Streams
<1>6. /\ pipes' \in Seq(PipeRecords) /\ Len(pipes') = n
      /\ pipes'[n].toHost = <<>> /\ pipes'[n].toAgent = <<>>
      /\ \A t \in 1 .. Len(pipes) : pipes'[t] = pipes[t]
  <2>1. pipes'[n] = empty
    BY <1>0, <1>1, <1>2 DEF LinkTypes
  <2>2. pipes' \in Seq(PipeRecords) /\ Len(pipes') = n /\ \A t \in 1 .. Len(pipes) : pipes'[t] = pipes[t]
    BY <1>0, <1>1, <1>2, <1>4 DEF LinkTypes
  <2> QED
    BY <1>4, <2>1, <2>2
<1>7. Streams \subseteq Streams' /\ n \in Streams'
  BY <1>0, <1>5, <1>6 DEF Streams
<1>8. /\ worker'[r] = "opened" /\ held'[r] = n
      /\ \A q \in Requests : q # r => worker'[q] = worker[q] /\ held'[q] = held[q]
  BY <1>1, <1>2 DEF LinkTypes
<1>9. \A q \in Requests : held[q] \in Streams /\ held[q] # n
  BY <1>1, <1>5 DEF LinkTypes
<1>10. stream \in Streams /\ stream # n
  BY <1>1, <1>5 DEF LinkTypes
<1>11. LinkTypes'
  <2>1. worker' \in [Requests -> WorkerStages]
    BY <1>1, <1>2 DEF LinkTypes, WorkerStages
  <2>2. held' \in [Requests -> Streams']
    BY <1>1, <1>2, <1>7 DEF LinkTypes
  <2>3. stream' \in Streams' /\ dropped' \subseteq Streams' \ {0} /\ serving' \in Streams'
    BY <1>1, <1>2, <1>7 DEF LinkTypes
  <2> QED
    BY <1>1, <1>2, <1>3, <1>6, <2>1, <2>2, <2>3 DEF LinkTypes
<1>12. ThreadInv'
  <2>1. ThreadOf(r)'
    BY <1>1, <1>2, <1>5, <1>8, <1>10 DEF ThreadInv, ThreadOf
  <2>2. ASSUME NEW q \in Requests, q # r PROVE ThreadOf(q)'
    BY <1>1, <1>2, <1>8, <2>2 DEF ThreadInv, ThreadOf
  <2>3. ASSUME NEW p \in Requests, NEW q \in Requests, p # q, held'[p] # 0 PROVE held'[p] # held'[q]
    BY <1>1, <1>8, <1>9, <2>3 DEF ThreadInv
  <2> QED
    BY <2>1, <2>2, <2>3 DEF ThreadInv
<1>13. Idle(n)' /\ \A q \in Requests : ~Carries(n, q)'
  <2>1. Idle(n)'
    BY <1>2, <1>3, <1>6 DEF Idle, NotBusy
  <2> QED
    BY <2>1, CarriesOneNext
<1>14. ASSUME NEW s \in 1 .. Len(pipes)
       PROVE  /\ Idle(s)' <=> Idle(s)
              /\ \A q \in Requests : (Carries(s, q)' <=> Carries(s, q)) /\ (Sent(s, q)' <=> Sent(s, q))
  BY <1>2, <1>3, <1>6 DEF Idle, Carries, Sent, Handling, Returned, NotBusy
<1>15. \A s \in 1 .. Len(pipes)' : s = n \/ s \in 1 .. Len(pipes)
  BY <1>0, <1>5, <1>6
<1>16. TrafficInv'
  <2>1. \A s \in 1 .. Len(pipes)' : Idle(s)' \/ \E q \in Requests : Carries(s, q)'
    BY <1>1, <1>13, <1>14, <1>15 DEF TrafficInv
  <2>2. ASSUME NEW s \in 1 .. Len(pipes)', NEW t \in 1 .. Len(pipes)', NEW q \in Requests,
               Carries(s, q)', Carries(t, q)'
        PROVE  s = t
    <3>1. s \in 1 .. Len(pipes) /\ t \in 1 .. Len(pipes)
      BY <1>13, <1>15, <2>2
    <3>2. Carries(s, q) /\ Carries(t, q)
      BY <1>14, <2>2, <3>1
    <3> QED
      BY <1>1, <3>1, <3>2 DEF TrafficInv
  <2>3. ASSUME NEW s \in 1 .. Len(pipes)', NEW q \in Requests
        PROVE  /\ Carries(s, q)' => worker'[q] \in {"reading", "over"}
               /\ Sent(s, q)' => said'[q] = "nothing"
    <3>1. Sent(s, q)' => Carries(s, q)'
      BY DEF Carries
    <3>2. CASE s = n
      BY <1>13, <3>1, <3>2
    <3>3. CASE s # n
      <4>1. s \in 1 .. Len(pipes)
        BY <1>15, <3>3
      <4>2. Carries(s, q)' => worker[q] \in {"reading", "over"}
        BY <1>1, <1>14, <4>1 DEF TrafficInv
      <4>3. Carries(s, q)' => worker'[q] \in {"reading", "over"}
        BY <1>2, <1>8, <4>2
      <4>4. Sent(s, q)' => said[q] = "nothing"
        BY <1>1, <1>14, <4>1 DEF TrafficInv
      <4> QED
        BY <1>2, <4>3, <4>4
    <3> QED
      BY <3>2, <3>3
  <2>4. ASSUME NEW q \in Requests
        PROVE  /\ worker'[q] \in {"opened", "writing"} => Idle(held[q])'
               /\ worker'[q] = "reading" => Idle(held[q])' \/ Carries(held[q], q)'
               /\ worker'[q] \notin {"reading", "over"} => said'[q] = "nothing"
    <3>1. PICK k : k = held'[q]
      OBVIOUS
    <3>2. (Idle(held[q])' <=> Idle(k)') /\ (Carries(held[q], q)' <=> Carries(k, q)')
      BY <3>1 DEF Idle, Carries, Sent, Handling, Returned, NotBusy
    <3>3. CASE q = r
      <4>1. k = n /\ said[q] = "nothing"
        BY <1>1, <1>2, <1>8, <3>1, <3>3 DEF TrafficInv
      <4> QED
        BY <1>2, <1>8, <1>13, <3>2, <3>3, <4>1
    <3>4. CASE q # r
      <4>1. held[q] = k
        BY <1>8, <3>1, <3>4
      <4>2. worker[q] \in {"opened", "writing", "reading"} => k \in 1 .. Len(pipes)
        BY <1>1, <4>1, HeldIsOpened
      <4> QED
        BY <1>1, <1>2, <1>8, <1>14, <3>2, <3>4, <4>1, <4>2 DEF TrafficInv
    <3> QED
      BY <3>3, <3>4
  <2>5. stream' # 0 /\ (\A q \in Requests : held'[q] # stream') => Idle(stream)'
    <3> SUFFICES ASSUME stream' # 0, \A q \in Requests : held'[q] # stream' PROVE Idle(stream)'
      OBVIOUS
    <3>1. PICK k : k = stream
      OBVIOUS
    <3>2. k \in 1 .. Len(pipes)
      BY <1>1, <1>2, <3>1 DEF LinkTypes, Streams
    <3>3. \A q \in Requests : held[q] # stream
      BY <1>2, <1>3, <1>8
    <3>4. Idle(k)'
      BY <1>1, <1>2, <1>14, <3>1, <3>2, <3>3 DEF TrafficInv
    <3> QED
      BY <1>2, <3>1, <3>4 DEF Idle, NotBusy
  <2> QED
    BY <2>1, <2>2, <2>3, <2>4, <2>5 DEF TrafficInv
<1>17. VerdictInv'
  BY <1>1, <1>2 DEF VerdictInv
<1> QED
  BY <1>11, <1>12, <1>16, <1>17 DEF LinkInv

\* Steps of the host move a request along its stream, or empty the stream, and give a
\* request its result while the stream carries it: Receive, DeadlineCancels, Execute,
\* Finish, Reply, HangUp, Edit, Stop.
LEMMA HostSteps ==
  ASSUME LinkInv, LinkTypes', UNCHANGED agentSide, Len(pipes') = Len(pipes),
         \A s \in 1 .. Len(pipes) : Idle(s) => Idle(s)',
         \A s \in 1 .. Len(pipes), r \in Requests : Carries(s, r) => Idle(s)' \/ Carries(s, r)',
         \A s \in 1 .. Len(pipes), r \in Requests : Sent(s, r)' => said'[r] = "nothing",
         \A r \in Requests : \/ said'[r] = said[r]
                             \/ said[r] = "nothing" /\ \E s \in 1 .. Len(pipes) : Carries(s, r),
         \A r \in Requests : item'[r] \in {"pending", "running"} => job' = r /\ said'[r] = "nothing",
         committed' # Free => committed' \in Requests /\ said'[committed'] = "applied"
  PROVE  LinkInv'
<1>1. LinkTypes /\ ThreadInv /\ TrafficInv /\ VerdictInv
  BY DEF LinkInv
<1>2. UNCHANGED <<lock, worker, held, cancelled, stream, dropped, answer>>
  BY DEF agentSide
<1>3. ThreadInv'
  BY <1>1, <1>2 DEF ThreadInv, ThreadOf
<1>4. ASSUME NEW s \in 1 .. Len(pipes), NEW r \in Requests, Carries(s, r)' PROVE Carries(s, r)
  <2>1. ~Idle(s)' /\ \A q \in Requests : Carries(s, q)' => q = r
    BY <1>4, CarriesOneNext
  <2>2. PICK q \in Requests : Carries(s, q)
    BY <1>1, <2>1 DEF TrafficInv
  <2> QED
    BY <2>1, <2>2
<1>5. TrafficInv'
  <2>1. \A s \in 1 .. Len(pipes) : Idle(s)' \/ \E q \in Requests : Carries(s, q)'
    BY <1>1 DEF TrafficInv
  <2>2. \A s, t \in 1 .. Len(pipes), q \in Requests : Carries(s, q)' /\ Carries(t, q)' => s = t
    BY <1>1, <1>4 DEF TrafficInv
  <2>3. \A s \in 1 .. Len(pipes), q \in Requests :
          /\ Carries(s, q)' => worker'[q] \in {"reading", "over"}
          /\ Sent(s, q)' => said'[q] = "nothing"
    BY <1>1, <1>2, <1>4 DEF TrafficInv
  <2>4. ASSUME NEW q \in Requests
        PROVE  /\ worker'[q] \in {"opened", "writing"} => Idle(held[q])'
               /\ worker'[q] = "reading" => Idle(held[q])' \/ Carries(held[q], q)'
               /\ worker'[q] \notin {"reading", "over"} => said'[q] = "nothing"
    <3>1. PICK k : k = held[q]
      OBVIOUS
    <3>2. (Idle(held[q])' <=> Idle(k)') /\ (Carries(held[q], q)' <=> Carries(k, q)')
      BY <1>2, <3>1 DEF Idle, Carries, Sent, Handling, Returned, NotBusy
    <3>3. worker[q] \in {"opened", "writing", "reading"} => k \in 1 .. Len(pipes)
      BY <1>1, <3>1, HeldIsOpened
    <3>4. worker[q] \in {"opened", "writing"} => Idle(k)'
      BY <1>1, <3>1, <3>3 DEF TrafficInv
    <3>5. worker[q] = "reading" => Idle(k)' \/ Carries(k, q)'
      BY <1>1, <3>1, <3>3 DEF TrafficInv
    <3>6. worker[q] \notin {"reading", "over"} => said'[q] = "nothing"
      BY <1>1 DEF TrafficInv
    <3> QED
      BY <1>2, <3>2, <3>4, <3>5, <3>6
  <2>5. stream' # 0 /\ (\A q \in Requests : held'[q] # stream') => Idle(stream)'
    <3> SUFFICES ASSUME stream' # 0, \A q \in Requests : held'[q] # stream' PROVE Idle(stream)'
      OBVIOUS
    <3>1. PICK k : k = stream
      OBVIOUS
    <3>2. k \in 1 .. Len(pipes) /\ Idle(k)
      BY <1>1, <1>2, <3>1 DEF LinkTypes, Streams, TrafficInv
    <3>3. Idle(k)'
      BY <3>2
    <3> QED
      BY <1>2, <3>1, <3>3 DEF Idle, NotBusy
  <2> QED
    BY <2>1, <2>2, <2>3, <2>4, <2>5 DEF TrafficInv
<1>6. VerdictInv'
  BY <1>1, <1>2 DEF VerdictInv
<1> QED
  BY <1>3, <1>5, <1>6 DEF LinkInv

\* What the host handles came on the stream it serves.
LEMMA JobIsHandled ==
  ASSUME LinkInv, job # Free
  PROVE  job \in Requests /\ serving \in 1 .. Len(pipes) /\ Handling(serving, job)
<1>1. LinkTypes /\ TrafficInv
  BY DEF LinkInv
<1>2. job \in Requests /\ serving \in 1 .. Len(pipes)
  BY <1>1 DEF LinkTypes, Streams
<1>3. ~NotBusy(serving)
  BY DEF NotBusy
<1>4. PICK r \in Requests : Carries(serving, r)
  BY <1>1, <1>2, <1>3 DEF TrafficInv, Idle
<1>5. Handling(serving, r)
  BY <1>3, <1>4 DEF Carries, Sent, Returned
<1> QED
  BY <1>2, <1>5 DEF Handling

\* Steps within the host: only the request it handles gets a result.
LEMMA HostStays ==
  ASSUME LinkInv, LinkTypes', UNCHANGED <<agentSide, pipes, serving, job>>,
         \A r \in Requests : said'[r] = said[r] \/ (said[r] = "nothing" /\ job = r),
         \A r \in Requests : item'[r] \in {"pending", "running"} => job' = r /\ said'[r] = "nothing",
         committed' # Free => committed' \in Requests /\ said'[committed'] = "applied"
  PROVE  LinkInv'
<1>1. LinkTypes /\ TrafficInv
  BY DEF LinkInv
<1>2. UNCHANGED <<agentSide, pipes, serving, job>>
  OBVIOUS
<1>3. Len(pipes') = Len(pipes) /\ \A s : Idle(s) => Idle(s)'
  BY <1>2 DEF Idle, NotBusy
<1>4. \A r \in Requests : r # job => said'[r] = said[r]
  OBVIOUS
<1>5. ASSUME NEW s \in 1 .. Len(pipes), NEW r \in Requests, Carries(s, r), r = job
      PROVE  s = serving /\ Handling(serving, r)
  BY <1>1, <1>5, JobIsHandled, FreeIsNoRequest DEF TrafficInv, Carries
<1>6. ASSUME NEW s \in 1 .. Len(pipes), NEW r \in Requests, Carries(s, r) PROVE Carries(s, r)'
  <2>1. CASE r = job
    <3>1. s = serving /\ Handling(s, r)
      BY <1>5, <1>6, <2>1
    <3>2. Handling(s, r)'
      BY <1>2, <3>1 DEF Handling
    <3> QED
      BY <3>2 DEF Carries
  <2>2. CASE r # job
    BY <1>2, <1>4, <1>6, <2>2 DEF Carries, Sent, Handling, Returned, NotBusy
  <2> QED
    BY <2>1, <2>2
<1>7. ASSUME NEW s \in 1 .. Len(pipes), NEW r \in Requests, Sent(s, r)' PROVE said'[r] = "nothing"
  <2>1. Sent(s, r) /\ Carries(s, r)
    BY <1>2, <1>7 DEF Sent, NotBusy, Carries
  <2>2. r # job
    BY <1>5, <2>1, FreeIsNoRequest DEF Sent, NotBusy
  <2> QED
    BY <1>1, <1>4, <2>1, <2>2 DEF TrafficInv
<1>8. \A r \in Requests : \/ said'[r] = said[r]
                          \/ said[r] = "nothing" /\ \E s \in 1 .. Len(pipes) : Carries(s, r)
  BY JobIsHandled, FreeIsNoRequest DEF Carries
<1> QED
  BY <1>2, <1>3, <1>6, <1>7, <1>8, HostSteps

\* The deadline takes the item of the handled request, which has not begun.
LEMMA DeadlineStep == ASSUME LinkInv, NEW r \in Requests, DeadlineCancels(r) PROVE LinkInv'
<1>1. LinkTypes /\ VerdictInv
  BY DEF LinkInv
<1>2. /\ job = r /\ said[r] = "nothing" /\ item[r] = "pending"
      /\ item' = [item EXCEPT ![r] = IF @ = "pending" THEN "over" ELSE @]
      /\ said' = [said EXCEPT ![r] = "expired"]
      /\ UNCHANGED <<agentSide, pipes, serving, job, committed>>
  BY DEF DeadlineCancels, Cancellable, drawing
<1>3. item'[r] = "over" /\ \A q \in Requests : q # r => item'[q] = item[q] /\ said'[q] = said[q]
  BY <1>1, <1>2 DEF LinkTypes
<1>4. LinkTypes'
  BY <1>1, <1>2 DEF LinkTypes, agentSide, Streams, Sayings
<1>5. \A q \in Requests : item'[q] \in {"pending", "running"} => job' = q /\ said'[q] = "nothing"
  BY <1>1, <1>2, <1>3 DEF VerdictInv
<1>6. committed' # Free => committed' \in Requests /\ said'[committed'] = "applied"
  BY <1>1, <1>2, <1>3 DEF VerdictInv
<1> QED
  BY <1>2, <1>3, <1>4, <1>5, <1>6, HostStays

LEMMA ExecuteStep == ASSUME LinkInv, NEW r \in Requests, Execute(r) PROVE LinkInv'
<1>1. LinkTypes /\ VerdictInv
  BY DEF LinkInv
<1>2. /\ item[r] = "pending" /\ item' = [item EXCEPT ![r] = "running"]
      /\ UNCHANGED <<agentSide, pipes, serving, job, said, committed>>
  BY DEF Execute, drawing
<1>3. \A q \in Requests : q # r => item'[q] = item[q]
  BY <1>1, <1>2 DEF LinkTypes
<1>4. LinkTypes'
  BY <1>1, <1>2 DEF LinkTypes, agentSide, Streams
<1>5. \A q \in Requests : item'[q] \in {"pending", "running"} => job' = q /\ said'[q] = "nothing"
  BY <1>1, <1>2, <1>3 DEF VerdictInv
<1>6. committed' # Free => committed' \in Requests /\ said'[committed'] = "applied"
  BY <1>1, <1>2 DEF VerdictInv
<1> QED
  BY <1>2, <1>4, <1>5, <1>6, HostStays

\* What an operation says is one of the host's sayings.
LEMMA SaysTyped == ASSUME NEW r \in Requests PROVE OperationSays(r) \in Sayings
<1>1. CommitSays \in Sayings
  BY DEF CommitSays, Sayings
<1>2. CASE r \in Hellos
  BY <1>2, RequestKindsAssumption DEF OperationSays, Sayings
<1>3. CASE r \in Lookups
  BY <1>3, RequestKindsAssumption DEF OperationSays, Sayings
<1>4. CASE r \in Commits
  BY <1>1, <1>4, RequestKindsAssumption DEF OperationSays
<1> QED
  BY <1>2, <1>3, <1>4 DEF Requests

\* What applied the program has no other result, and its result says so.
LEMMA FinishStep == ASSUME LinkInv, NEW r \in Requests, Finish(r) PROVE LinkInv'
<1>1. LinkTypes /\ VerdictInv
  BY DEF LinkInv
<1>2. /\ item[r] = "running" /\ item' = [item EXCEPT ![r] = "over"]
      /\ UNCHANGED <<agentSide, pipes, serving, job>>
  BY DEF Finish
<1>3. job = r /\ said[r] = "nothing"
  BY <1>1, <1>2 DEF VerdictInv
<1>4. PICK says \in Sayings :
        /\ said' = [said EXCEPT ![r] = says]
        /\ committed' = committed \/ (committed' = r /\ says = "applied")
  <2>1. \A says : Result(r, says) = [said EXCEPT ![r] = says]
    BY <1>1, <1>3 DEF Result, LinkTypes
  <2>2. OperationSays(r) \in Sayings /\ {"expired", "refused"} \subseteq Sayings
    BY SaysTyped DEF Sayings
  <2>3. CASE /\ said' = Result(r, OperationSays(r))
             /\ committed' = IF r \in Commits /\ OperationSays(r) = "applied" THEN r ELSE committed
    BY <2>1, <2>2, <2>3
  <2>4. CASE (\E says \in {"expired", "refused"} : said' = Result(r, says)) /\ committed' = committed
    BY <2>1, <2>2, <2>4
  <2> QED
    BY <2>3, <2>4 DEF Finish
<1>5. /\ said'[r] = says /\ item'[r] = "over"
      /\ \A q \in Requests : q # r => said'[q] = said[q] /\ item'[q] = item[q]
  BY <1>1, <1>2, <1>4 DEF LinkTypes
<1>6. LinkTypes'
  BY <1>1, <1>2, <1>4 DEF LinkTypes, agentSide, Streams
<1>7. \A q \in Requests : item'[q] \in {"pending", "running"} => job' = q /\ said'[q] = "nothing"
  BY <1>1, <1>3, <1>5 DEF VerdictInv
<1>8. committed' # Free => committed' \in Requests /\ said'[committed'] = "applied"
  BY <1>1, <1>3, <1>4, <1>5 DEF VerdictInv
<1> QED
  BY <1>2, <1>3, <1>5, <1>6, <1>7, <1>8, HostStays

LEMMA EditStep == ASSUME LinkInv, Edit PROVE LinkInv'
<1>1. UNCHANGED <<agentSide, pipes, hostSide, committed>>
  BY DEF Edit
<1>2. LinkTypes /\ VerdictInv
  BY DEF LinkInv
<1>3. LinkTypes'
  BY <1>1, <1>2 DEF LinkTypes, agentSide, hostSide, Streams
<1> QED
  BY <1>1, <1>2, <1>3, HostStays DEF hostSide, VerdictInv

\* The request read is the only one on the stream, and has no result yet.
LEMMA ReceiveStep == ASSUME LinkInv, Receive PROVE LinkInv'
<1>1. LinkTypes /\ TrafficInv /\ VerdictInv
  BY DEF LinkInv
<1>2. /\ serving # 0 /\ job = Free /\ pipes[serving].toHost # <<>>
      /\ job' = Head(pipes[serving].toHost)
      /\ pipes' = [pipes EXCEPT ![serving].toHost = Tail(@)]
      /\ UNCHANGED <<agentSide, serving, committed>>
  BY DEF Receive, drawing
<1>3. PICK h \in 1 .. Len(pipes) : h = serving
  BY <1>1, <1>2 DEF LinkTypes, Streams
<1>4. PICK r \in Requests : Sent(h, r)
  <2>1. PICK q \in Requests : Carries(h, q)
    BY <1>1, <1>2, <1>3 DEF TrafficInv, Idle
  <2> QED
    BY <1>2, <1>3, <2>1 DEF Carries, Handling, Returned
<1>5. said[r] = "nothing" /\ pipes[h].toHost = <<r>> /\ pipes[h].toAgent = <<>> /\ job' = r /\ r # Free
  BY <1>1, <1>2, <1>3, <1>4, FreeIsNoRequest DEF TrafficInv, Sent
<1>6. \/ said' = [said EXCEPT ![r] = "rejected"] /\ item' = item
      \/ said' = said /\ item' = [item EXCEPT ![r] = "pending"]
  BY <1>3, <1>5 DEF Receive
<1>7. \A q \in Requests : q # r => said'[q] = said[q] /\ item'[q] = item[q]
  BY <1>1, <1>6 DEF LinkTypes
<1> DEFINE v == [pipes[h] EXCEPT !.toHost = Tail(@)]
<1>8. v \in PipeRecords /\ v.toHost = <<>> /\ v.toAgent = <<>>
  <2>1. <<>> \in Seq(Requests) /\ Tail(<<r>>) = <<>>
    OBVIOUS
  <2>2. pipes[h] \in PipeRecords
    BY <1>1, PipeRecord DEF LinkTypes
  <2>3. v = [pipes[h] EXCEPT !.toHost = <<>>]
    BY <1>5, <2>1, <2>2 DEF PipeRecords
  <2> HIDE DEF v
  <2> QED
    BY <1>5, <2>1, <2>2, <2>3 DEF PipeRecords
<1>9. pipes' = [pipes EXCEPT ![h] = v]
  BY <1>2, <1>3
<1> HIDE DEF v
<1>10. /\ pipes' \in Seq(PipeRecords) /\ Len(pipes') = Len(pipes) /\ pipes'[h] = v
       /\ \A t \in 1 .. Len(pipes) : t # h => pipes'[t] = pipes[t]
  BY <1>1, <1>8, <1>9, PipeChanged DEF LinkTypes
<1>11. LinkTypes'
  <2>1. said' \in [Requests -> Sayings \cup {"nothing"}]
    BY <1>1, <1>6 DEF LinkTypes, Sayings
  <2>2. item' \in [Requests -> {"none", "pending", "running", "over"}]
    BY <1>1, <1>6 DEF LinkTypes
  <2> QED
    BY <1>1, <1>2, <1>5, <1>10, <2>1, <2>2 DEF LinkTypes, agentSide, Streams
<1>12. Handling(h, r)'
  BY <1>2, <1>3, <1>5, <1>8, <1>10 DEF Handling
<1>13. ASSUME NEW s \in 1 .. Len(pipes), Idle(s) PROVE Idle(s)'
  <2>1. s # h
    BY <1>2, <1>3, <1>13 DEF Idle
  <2> QED
    BY <1>2, <1>3, <1>10, <1>13, <2>1 DEF Idle, NotBusy
<1>14. ASSUME NEW s \in 1 .. Len(pipes), NEW q \in Requests, Carries(s, q) PROVE Carries(s, q)'
  <2>1. CASE s = h
    <3>1. q = r
      BY <1>4, <1>14, <2>1, CarriesOne DEF Carries
    <3> QED
      BY <1>12, <2>1, <3>1 DEF Carries
  <2>2. CASE s # h
    <3>1. q # r
      BY <1>1, <1>4, <1>14, <2>2 DEF TrafficInv, Carries
    <3>2. pipes'[s] = pipes[s] /\ said'[q] = said[q] /\ serving' # s
      BY <1>2, <1>3, <1>7, <1>10, <2>2, <3>1
    <3> QED
      BY <1>2, <1>14, <3>2 DEF Carries, Sent, Handling, Returned, NotBusy
  <2> QED
    BY <2>1, <2>2
<1>15. ASSUME NEW s \in 1 .. Len(pipes), NEW q \in Requests, Sent(s, q)' PROVE said'[q] = "nothing"
  <2>1. s # h
    BY <1>2, <1>3, <1>5, <1>15 DEF Sent, NotBusy
  <2>2. Sent(s, q)
    BY <1>2, <1>10, <1>15, <2>1 DEF Sent, NotBusy
  <2>3. q # r
    BY <1>1, <1>4, <2>1, <2>2 DEF TrafficInv, Carries
  <2> QED
    BY <1>1, <1>7, <2>2, <2>3 DEF TrafficInv
<1>16. \A q \in Requests : \/ said'[q] = said[q]
                           \/ said[q] = "nothing" /\ \E s \in 1 .. Len(pipes) : Carries(s, q)
  BY <1>4, <1>5, <1>7 DEF Carries
<1>17. \A q \in Requests : item'[q] \in {"pending", "running"} => job' = q /\ said'[q] = "nothing"
  BY <1>1, <1>2, <1>5, <1>6, <1>7, FreeIsNoRequest DEF VerdictInv
<1>18. committed' # Free => committed' \in Requests /\ said'[committed'] = "applied"
  BY <1>1, <1>2, <1>5, <1>7 DEF VerdictInv
<1> QED
  BY <1>2, <1>10, <1>11, <1>13, <1>14, <1>15, <1>16, <1>17, <1>18, HostSteps

\* The host answers the request it handles on the stream the request came on.
LEMMA ReplyStep == ASSUME LinkInv, Reply PROVE LinkInv'
<1>1. LinkTypes /\ TrafficInv /\ VerdictInv
  BY DEF LinkInv
<1>2. /\ job # Free /\ said[job] # "nothing" /\ job' = Free
      /\ UNCHANGED <<agentSide, item, said, committed>>
  BY DEF Reply, drawing
<1>3. PICK h \in 1 .. Len(pipes), r \in Requests : h = serving /\ r = job /\ Handling(h, r)
  BY <1>2, JobIsHandled
<1> DEFINE frame == [to |-> r, says |-> said[r]]
           v == [pipes[h] EXCEPT !.toAgent = Append(@, frame)]
<1>4. pipes[h].toHost = <<>> /\ pipes[h].toAgent = <<>>
  BY <1>3 DEF Handling
<1>5. v \in PipeRecords /\ v.toHost = <<>> /\ v.toAgent = <<frame>>
  <2>1. frame \in Frames
    BY <1>1, <1>2, <1>3 DEF LinkTypes, Frames
  <2> HIDE DEF frame
  <2>2. <<frame>> \in Seq(Frames) /\ Append(<<>>, frame) = <<frame>>
    BY <2>1
  <2>3. pipes[h] \in PipeRecords
    BY <1>1, PipeRecord DEF LinkTypes
  <2>4. v = [pipes[h] EXCEPT !.toAgent = <<frame>>]
    BY <1>4, <2>2, <2>3 DEF PipeRecords
  <2> HIDE DEF v
  <2> QED
    BY <1>4, <2>2, <2>3, <2>4 DEF PipeRecords
<1>6. \/ pipes' = [pipes EXCEPT ![h] = v] /\ serving' = serving
      \/ pipes' = pipes /\ serving' = 0
  BY <1>3 DEF Reply
<1> HIDE DEF v
<1>7. /\ pipes' \in Seq(PipeRecords) /\ Len(pipes') = Len(pipes)
      /\ (pipes'[h] = v /\ serving' = serving) \/ (pipes'[h] = pipes[h] /\ serving' = 0)
      /\ \A t \in 1 .. Len(pipes) : t # h => pipes'[t] = pipes[t]
  BY <1>1, <1>5, <1>6, PipeChanged DEF LinkTypes
<1>8. LinkTypes'
  <2>1. Streams' = Streams /\ serving' \in Streams
    BY <1>1, <1>7 DEF LinkTypes, Streams
  <2> QED
    BY <1>1, <1>2, <1>7, <2>1 DEF LinkTypes, agentSide
<1>9. Idle(h)' \/ Returned(h, r)'
  BY <1>2, <1>3, <1>4, <1>5, <1>7 DEF Idle, Returned, NotBusy
<1>10. ASSUME NEW s \in 1 .. Len(pipes), Idle(s) PROVE Idle(s)'
  <2>1. s # h
    BY <1>2, <1>3, <1>10 DEF Idle, NotBusy
  <2> QED
    BY <1>2, <1>7, <1>10, <2>1 DEF Idle, NotBusy
<1>11. ASSUME NEW s \in 1 .. Len(pipes), NEW q \in Requests, Carries(s, q)
       PROVE  Idle(s)' \/ Carries(s, q)'
  <2>1. CASE s = h
    <3>1. q = r
      BY <1>3, <1>11, <2>1, CarriesOne DEF Carries
    <3> QED
      BY <1>9, <2>1, <3>1 DEF Carries
  <2>2. CASE s # h
    <3>1. pipes'[s] = pipes[s] /\ serving # s
      BY <1>3, <1>7, <2>2
    <3> QED
      BY <1>2, <1>11, <3>1 DEF Carries, Sent, Handling, Returned, NotBusy
  <2> QED
    BY <2>1, <2>2
<1>12. ASSUME NEW s \in 1 .. Len(pipes), NEW q \in Requests, Sent(s, q)' PROVE said'[q] = "nothing"
  <2>1. s # h
    <3>1. <<q>> # <<>>
      OBVIOUS
    <3> QED
      BY <1>4, <1>5, <1>7, <1>12, <3>1 DEF Sent
  <2>2. Sent(s, q)
    BY <1>2, <1>3, <1>7, <1>12, <2>1 DEF Sent, NotBusy
  <2> QED
    BY <1>1, <1>2, <2>2 DEF TrafficInv
<1>13. \A q \in Requests : item'[q] \notin {"pending", "running"}
  BY <1>1, <1>2 DEF VerdictInv
<1>14. committed' # Free => committed' \in Requests /\ said'[committed'] = "applied"
  BY <1>1, <1>2 DEF VerdictInv
<1> QED
  BY <1>2, <1>7, <1>8, <1>10, <1>11, <1>12, <1>13, <1>14, HostSteps

LEMMA HangUpStep == ASSUME LinkInv, HangUp PROVE LinkInv'
<1>1. LinkTypes /\ TrafficInv /\ VerdictInv
  BY DEF LinkInv
<1>2. /\ job = Free /\ serving' = 0
      /\ UNCHANGED <<agentSide, pipes, job, item, said, committed>>
  BY DEF HangUp, drawing
<1>3. LinkTypes'
  BY <1>1, <1>2 DEF LinkTypes, agentSide, Streams
<1>4. \A s : /\ Idle(s) => Idle(s)'
             /\ \A r \in Requests : (Carries(s, r) => Carries(s, r)') /\ (Sent(s, r)' => Sent(s, r))
  BY <1>2 DEF Idle, Carries, Sent, Handling, Returned, NotBusy
<1> QED
  BY <1>1, <1>2, <1>3, <1>4, HostSteps DEF TrafficInv, VerdictInv

\* AutoCAD stops: no request is left in a stream, and no item on the queue.
LEMMA StopStep == ASSUME LinkInv, Stop PROVE LinkInv'
<1>1. LinkTypes /\ TrafficInv /\ VerdictInv
  BY DEF LinkInv
<1>2. /\ pipes' = [s \in DOMAIN pipes |-> [pipes[s] EXCEPT !.open = FALSE, !.toHost = <<>>]]
      /\ serving' = 0 /\ job' = Free /\ committed' \in {committed, Free}
      /\ item' = [r \in Requests |-> IF item[r] = "none" THEN "none" ELSE "over"]
      /\ UNCHANGED <<agentSide, said>>
  BY DEF Stop
<1>3. \A s \in 1 .. Len(pipes) :
        LET v == [pipes[s] EXCEPT !.open = FALSE, !.toHost = <<>>]
        IN v \in PipeRecords /\ v.toHost = <<>> /\ v.toAgent = pipes[s].toAgent
  <2> SUFFICES ASSUME NEW s \in 1 .. Len(pipes)
               PROVE  LET v == [pipes[s] EXCEPT !.open = FALSE, !.toHost = <<>>]
                      IN v \in PipeRecords /\ v.toHost = <<>> /\ v.toAgent = pipes[s].toAgent
    OBVIOUS
  <2>1. pipes[s] \in PipeRecords
    BY <1>1, PipeRecord DEF LinkTypes
  <2>2. <<>> \in Seq(Requests)
    OBVIOUS
  <2> QED
    BY <2>1, <2>2 DEF PipeRecords
<1>4. DOMAIN pipes = 1 .. Len(pipes) /\ Len(pipes) \in Nat
  BY <1>1 DEF LinkTypes
<1>5. /\ pipes' \in Seq(PipeRecords) /\ Len(pipes') = Len(pipes)
      /\ \A s \in 1 .. Len(pipes) : pipes'[s].toHost = <<>> /\ pipes'[s].toAgent = pipes[s].toAgent
  <2>1. pipes' \in [1 .. Len(pipes) -> PipeRecords]
    BY <1>2, <1>3, <1>4
  <2>2. \A s \in 1 .. Len(pipes) : pipes'[s] = [pipes[s] EXCEPT !.open = FALSE, !.toHost = <<>>]
    BY <1>2, <1>4
  <2>3. pipes' \in Seq(PipeRecords) /\ Len(pipes') = Len(pipes)
    BY <1>4, <2>1
  <2> QED
    BY <1>3, <2>2, <2>3
<1>6. LinkTypes'
  <2>1. Streams' = Streams /\ 0 \in Streams
    BY <1>4, <1>5 DEF Streams
  <2>2. item' \in [Requests -> {"none", "pending", "running", "over"}]
    BY <1>2
  <2> QED
    BY <1>1, <1>2, <1>5, <2>1, <2>2 DEF LinkTypes, agentSide
<1>7. \A s \in 1 .. Len(pipes) :
        /\ Idle(s) => Idle(s)'
        /\ \A r \in Requests : (Carries(s, r) => Idle(s)' \/ Carries(s, r)') /\ ~Sent(s, r)'
  <2>1. \A w : <<w>> # <<>>
    OBVIOUS
  <2> QED
    BY <1>2, <1>5, <2>1 DEF Idle, Carries, Sent, Handling, Returned, NotBusy
<1>8. \A r \in Requests : item'[r] \notin {"pending", "running"}
  BY <1>2
<1>9. committed' # Free => committed' \in Requests /\ said'[committed'] = "applied"
  BY <1>1, <1>2 DEF VerdictInv
<1> QED
  BY <1>2, <1>5, <1>6, <1>7, <1>8, <1>9, HostSteps

LEMMA LinkStep == ASSUME PromptStart, LinkInv, [HostNext]_hostLinkVars PROVE LinkInv'
<1>1. ASSUME NEW r \in Requests, Issue(r) PROVE LinkInv'
  BY <1>1, IssueStep
<1>2. ASSUME NEW r \in Requests, TakeStream(r) PROVE LinkInv'
  BY <1>2, TakeStep
<1>3. ASSUME NEW r \in Requests, Open(r) PROVE LinkInv'
  BY <1>3, PipeOpens
<1>4. ASSUME NEW r \in Requests, Install(r) PROVE LinkInv'
  BY <1>4, InstallStep
<1>5. ASSUME NEW r \in Requests, Write(r) PROVE LinkInv'
  BY <1>5, WriteStep
<1>6. ASSUME NEW r \in Requests, Read(r) PROVE LinkInv'
  BY <1>6, FrameStep
<1>7. ASSUME NEW r \in Requests, BreakDown(r) PROVE LinkInv'
  BY <1>7, BreakStep
<1>8. ASSUME NEW r \in Requests, Abandon(r) PROVE LinkInv'
  BY <1>8, AbandonStep
<1>9. ASSUME NEW r \in Requests, DeadlineCancels(r) PROVE LinkInv'
  BY <1>9, DeadlineStep
<1>10. ASSUME NEW r \in Requests, Execute(r) PROVE LinkInv'
  BY <1>10, ExecuteStep
<1>11. ASSUME NEW r \in Requests, Finish(r) PROVE LinkInv'
  BY <1>11, FinishStep
<1>12. ASSUME NEW s \in dropped, CloseDropped(s) PROVE LinkInv'
  BY <1>12, DroppedStep
<1>13. CASE Receive \/ Reply \/ HangUp \/ Edit \/ Stop
  BY <1>13, ReceiveStep, ReplyStep, HangUpStep, EditStep, StopStep
<1>14. CASE UNCHANGED hostLinkVars
  <2>1. UNCHANGED <<agentSide, pipes, hostSide, drawing>>
    BY <1>14 DEF hostLinkVars
  <2>2. LinkTypes /\ VerdictInv
    BY DEF LinkInv
  <2>3. LinkTypes'
    BY <2>1, <2>2 DEF LinkTypes, agentSide, hostSide, Streams
  <2> QED
    BY <2>1, <2>2, <2>3, HostStays DEF hostSide, drawing, VerdictInv
<1> QED
  BY <1>1, <1>2, <1>3, <1>4, <1>5, <1>6, <1>7, <1>8, <1>9, <1>10, <1>11, <1>12, <1>13, <1>14
     DEF HostNext

\* The inductive invariant of the link, of any number of requests of each kind and any
\* number of stops.  PromptStart is assumed: request() starts each on a thread of its own,
\* and nothing but a prompt start keeps the thread of a request that was given up from
\* taking the next one's stream (_request_sync).
THEOREM InvariantLink == ASSUME PromptStart PROVE HostSpec => []LinkInv
<1>1. LinkInv /\ [HostNext]_hostLinkVars => LinkInv'
  BY LinkStep
<1> QED
  BY <1>1, LinkInitially, PTL DEF HostSpec

\* An answer the port took for a request is the host's answer to that request, although
\* no frame names its request: the stream of a request that was given up is dropped with
\* it (_abort_stream, _request_sync).
THEOREM AnswersArePaired == ASSUME PromptStart PROVE HostSpec => []AnswerIsForItsRequest
<1>1. LinkInv => AnswerIsForItsRequest
  BY DEF LinkInv, VerdictInv, AnswerIsForItsRequest
<1> QED
  BY <1>1, InvariantLink, PTL

\* A commit the host refused, or let expire, was not applied by that request, however its
\* deadline raced AutoCAD's thread (WorkItem.Execute, CancelFromToken).
THEOREM RefusalIsFinal == ASSUME PromptStart PROVE HostSpec => []RefusedIsUntouched
<1>1. LinkInv => RefusedIsUntouched
  <2> SUFFICES ASSUME LinkInv, NEW r \in Commits,
                      said[r] = "expired" \/ answer[r].says \in {"expired", "refused"}
               PROVE  committed # r
    BY DEF RefusedIsUntouched
  <2>1. r \in Requests /\ r # Free
    BY FreeIsNoRequest DEF Requests
  <2>2. said[r] # "applied"
    BY <2>1 DEF LinkInv, VerdictInv
  <2> QED
    BY <2>1, <2>2 DEF LinkInv, VerdictInv
<1> QED
  BY <1>1, InvariantLink, PTL
=============================================================================
