------------------------------ MODULE HostLink ------------------------------
(***************************************************************************)
(* The agent's connection to the Managed Host inside AutoCAD: the agent's  *)
(* transport, which runs each request on a thread and may give up on it,   *)
(* the host's pipe server, which serves one pipe at a time, and its idle   *)
(* queue, which runs the work on AutoCAD's own thread.                     *)
(*                                                                         *)
(* The requests carry one program: Commits ask for it to be applied (with  *)
(* one preview and one receipt id), Lookups ask for its receipt.  A        *)
(* response does not name its request; what pairs them is that a stream    *)
(* carries one request at a time and is dropped with it.                   *)
(***************************************************************************)
EXTENDS Naturals, Sequences

CONSTANTS
  Hellos,        \* handshake requests
  Commits,       \* requests to commit the program
  Lookups,       \* requests for the program's receipt
  PromptStart,   \* whether a thread takes its stream before the next one starts
  MaxStops       \* bound: times AutoCAD stops

ASSUME RequestKindsAssumption ==
  /\ Hellos \cap Commits = {} /\ Hellos \cap Lookups = {} /\ Commits \cap Lookups = {}
  /\ "free" \notin Hellos \cup Commits \cup Lookups
  /\ PromptStart \in BOOLEAN /\ MaxStops \in Nat

VARIABLES
  \* the agent: ManagedDotNetCadReadPort and NamedPipeJsonTransport
  lock,          \* the request that holds the transport's lock, or Free
  worker,        \* request -> where its thread is
  held,          \* request -> the stream its thread works on, 0: none
  cancelled,     \* requests whose caller gave up
  stream,        \* the transport's stream, 0: none
  dropped,       \* streams an abort thread has yet to close
  greeted,       \* whether the port holds a handshake
  answer,        \* request -> what the port took for its answer
  \* the pipe
  pipes,         \* the streams opened so far: whether open, and what is in them
  \* the host: LocalPipeServer, HostSession, IdleWorkQueue
  serving,       \* the stream served, 0: waiting for a connection
  known,         \* whether the stream's session completed its handshake
  job,           \* the request being handled, or Free
  item,          \* request -> state of its work item
  said,          \* request -> the host's result for it
  \* the drawing
  committed,     \* the request that applied the program, or Free
  previewed,     \* whether the host still holds the preview
  edited,        \* whether the drawing changed since the preview
  stops          \* times AutoCAD has stopped

agentSide == <<lock, worker, held, cancelled, stream, dropped, greeted, answer>>
hostSide == <<serving, known, job, item, said>>
drawing == <<committed, previewed, edited>>
hostLinkVars == <<agentSide, pipes, hostSide, drawing, stops>>

Requests == Hellos \cup Commits \cup Lookups
Free == "free"
NoAnswer == [to |-> Free, says |-> "nothing"]
Lost == [to |-> Free, says |-> "lost"]

\* What the host can say; "rejected" is session_rejected, "expired" is
\* deadline_expired, "refused" any other error of the operation.
Sayings == {"welcome", "applied", "duplicate", "found", "missing",
            "rejected", "expired", "refused"}
Streams == 0 .. Len(pipes)

HostTypeOK ==
  /\ lock \in Requests \cup {Free}
  /\ worker \in [Requests -> {"none", "started", "opening", "opened", "writing",
                              "reading", "over"}]
  /\ held \in [Requests -> Streams]
  /\ cancelled \subseteq Requests
  /\ stream \in Streams /\ dropped \subseteq Streams
  /\ greeted \in BOOLEAN
  /\ \A r \in Requests : answer[r].says \in Sayings \cup {"nothing", "lost"}
  /\ \A s \in 1 .. Len(pipes) : pipes[s].open \in BOOLEAN
  /\ serving \in Streams /\ known \in BOOLEAN
  /\ job \in Requests \cup {Free}
  /\ item \in [Requests -> {"none", "pending", "running", "over"}]
  /\ said \in [Requests -> Sayings \cup {"nothing"}]
  /\ committed \in Commits \cup {Free}
  /\ previewed \in BOOLEAN /\ edited \in BOOLEAN
  /\ stops \in 0 .. MaxStops

HostInit ==
  /\ lock = Free /\ cancelled = {} /\ stream = 0 /\ dropped = {} /\ greeted = FALSE
  /\ worker = [r \in Requests |-> "none"] /\ held = [r \in Requests |-> 0]
  /\ answer = [r \in Requests |-> NoAnswer]
  /\ pipes = <<>> /\ serving = 0 /\ known = FALSE /\ job = Free
  /\ item = [r \in Requests |-> "none"] /\ said = [r \in Requests |-> "nothing"]
  /\ committed = Free /\ previewed = TRUE /\ edited = FALSE /\ stops = 0

-----------------------------------------------------------------------------
(* The agent.                                                              *)

Closed(s) == [pipes EXCEPT ![s].open = FALSE]

\* request: the port sends a handshake first; the transport starts a thread.
Issue(r) ==
  /\ lock = Free /\ worker[r] = "none"
  /\ (r \in Hellos) = ~greeted
  /\ PromptStart => \A q \in Requests : worker[q] # "started"
  /\ lock' = r
  /\ worker' = [worker EXCEPT ![r] = "started"]
  /\ UNCHANGED <<held, cancelled, stream, dropped, greeted, answer, pipes, hostSide, drawing, stops>>

\* _request_sync: the transport's stream if there is one, else a new one.
TakeStream(r) ==
  /\ worker[r] = "started"
  /\ held' = [held EXCEPT ![r] = stream]
  /\ worker' = [worker EXCEPT ![r] = IF stream = 0 THEN "opening" ELSE "writing"]
  /\ UNCHANGED <<lock, cancelled, stream, dropped, greeted, answer, pipes, hostSide, drawing, stops>>

\* _stream_factory: the pipe has one instance, so it opens when the host waits.
Open(r) ==
  /\ worker[r] = "opening" /\ serving = 0
  /\ pipes' = Append(pipes, [open |-> TRUE, toHost |-> <<>>, toAgent |-> <<>>])
  /\ held' = [held EXCEPT ![r] = Len(pipes) + 1]
  /\ worker' = [worker EXCEPT ![r] = "opened"]
  /\ serving' = Len(pipes) + 1 /\ known' = FALSE
  /\ UNCHANGED <<lock, cancelled, stream, dropped, greeted, answer, job, item, said, drawing, stops>>

\* Mutant: the flag is not looked at again once the pipe is open.
GivenUpUnseen(r) == FALSE

\* Back under _stream_lock: a caller that gave up meanwhile gets no stream.
GivenUp(r) == r \in cancelled
Install(r) ==
  /\ worker[r] = "opened"
  /\ IF GivenUp(r)
     THEN /\ pipes' = Closed(held[r])
          /\ worker' = [worker EXCEPT ![r] = "over"] /\ held' = [held EXCEPT ![r] = 0]
          /\ UNCHANGED stream
     ELSE /\ worker' = [worker EXCEPT ![r] = "writing"]
          /\ IF stream = 0
             THEN stream' = held[r] /\ UNCHANGED <<pipes, held>>
             ELSE /\ pipes' = Closed(held[r])
                  /\ held' = [held EXCEPT ![r] = stream]
                  /\ UNCHANGED stream
  /\ UNCHANGED <<lock, cancelled, dropped, greeted, answer, hostSide, drawing, stops>>

\* stream.write on a stream that is still open.
Write(r) ==
  /\ worker[r] = "writing" /\ pipes[held[r]].open
  /\ pipes' = [pipes EXCEPT ![held[r]].toHost = Append(@, r)]
  /\ worker' = [worker EXCEPT ![r] = "reading"]
  /\ UNCHANGED <<lock, held, cancelled, stream, dropped, greeted, answer, hostSide, drawing, stops>>

\* ReloadingManagedDotNetCadReadPort._clear_adapter: transport and handshake go.
GiveUpAdapter == greeted' = FALSE /\ stream' = 0

\* _validate_response and _command: the message type and operation must be those
\* asked for, or the message must be an error.
Fits(r, frame) ==
  \/ frame.says \in {"rejected", "expired", "refused"}
  \/ \E kind \in {Hellos, Commits, Lookups} : {r, frame.to} \subseteq kind

\* The thread reads a frame; the future takes it unless its caller gave up.
Read(r) ==
  /\ worker[r] = "reading"
  /\ pipes[held[r]].toAgent # <<>>
  /\ LET frame == Head(pipes[held[r]].toAgent)
         kept  == [pipes EXCEPT ![held[r]].toAgent = Tail(@)]
         taken == IF Fits(r, frame) THEN frame ELSE Lost
     IN IF r \in cancelled
        THEN pipes' = kept /\ UNCHANGED <<lock, stream, greeted, answer>>
        ELSE /\ answer' = [answer EXCEPT ![r] = taken]
             /\ lock' = Free
             /\ IF taken.says = "rejected"
                THEN /\ GiveUpAdapter
                     /\ pipes' = [kept EXCEPT ![held[r]].open = FALSE]
                ELSE /\ greeted' = (greeted \/ taken.says = "welcome")
                     /\ pipes' = kept /\ UNCHANGED stream
  /\ worker' = [worker EXCEPT ![r] = "over"] /\ held' = [held EXCEPT ![r] = 0]
  /\ UNCHANGED <<cancelled, dropped, hostSide, drawing, stops>>

\* The pipe does not open, or breaks under a write or a read: _discard_stream,
\* and the port answers managed_host_unavailable.
BreakDown(r) ==
  /\ \/ worker[r] = "opening"
     \/ worker[r] = "writing" /\ ~pipes[held[r]].open
     \/ worker[r] = "reading" /\ ~pipes[held[r]].open /\ pipes[held[r]].toAgent = <<>>
  /\ worker' = [worker EXCEPT ![r] = "over"] /\ held' = [held EXCEPT ![r] = 0]
  /\ IF r \in cancelled
     THEN UNCHANGED <<lock, stream, greeted, answer>>
     ELSE /\ answer' = [answer EXCEPT ![r] = Lost]
          /\ lock' = Free
          /\ GiveUpAdapter
  /\ UNCHANGED <<cancelled, dropped, pipes, hostSide, drawing, stops>>

\* _abort_stream: the transport lets go of its stream, whose closing is left to
\* another thread.
Aborted == stream' = 0 /\ dropped' = dropped \cup ({stream} \ {0})

\* The request times out, and the adapter goes with it, or its task is cancelled
\* (the session ended), and the port keeps its handshake.
Abandon(r) ==
  /\ lock = r /\ lock' = Free
  /\ cancelled' = cancelled \cup {r}
  /\ answer' = [answer EXCEPT ![r] = Lost]
  /\ Aborted
  /\ greeted' \in {greeted, FALSE}
  /\ UNCHANGED <<worker, held, pipes, hostSide, drawing, stops>>

CloseDropped(s) ==
  /\ s \in dropped
  /\ dropped' = dropped \ {s}
  /\ pipes' = Closed(s)
  /\ UNCHANGED <<lock, worker, held, cancelled, stream, greeted, answer, hostSide, drawing, stops>>

-----------------------------------------------------------------------------
(* The host.                                                               *)

\* RunAsync reads a request; HandleAsync answers at once what is out of session
\* and puts the rest on the idle queue.
Receive ==
  /\ serving # 0 /\ job = Free /\ pipes[serving].toHost # <<>>
  /\ LET r == Head(pipes[serving].toHost)
     IN /\ job' = r
        /\ IF (r \in Hellos) = known
           THEN /\ said' = [said EXCEPT ![r] = "rejected"]
                /\ UNCHANGED item
           ELSE /\ item' = [item EXCEPT ![r] = "pending"]
                /\ UNCHANGED said
  /\ pipes' = [pipes EXCEPT ![serving].toHost = Tail(@)]
  /\ UNCHANGED <<agentSide, serving, known, drawing, stops>>

\* Mutant: the item is marked cancelled whatever its state.
CancellableRunning(r) == item[r] \in {"pending", "running"}

\* CancelFromToken at the request's deadline: a compare-and-swap from pending.
Cancellable(r) == item[r] = "pending"
DeadlineCancels(r) ==
  /\ job = r /\ said[r] = "nothing" /\ Cancellable(r)
  /\ item' = [item EXCEPT ![r] = IF @ = "pending" THEN "over" ELSE @]
  /\ said' = [said EXCEPT ![r] = "expired"]
  /\ UNCHANGED <<agentSide, pipes, serving, known, job, drawing, stops>>

\* Execute's compare-and-swap, on AutoCAD's thread when it is idle.
Execute(r) ==
  /\ item[r] = "pending"
  /\ item' = [item EXCEPT ![r] = "running"]
  /\ UNCHANGED <<agentSide, pipes, serving, known, job, said, drawing, stops>>

\* Commit: the receipt is looked for before anything else; then the preview must
\* be on record and the drawing at the revision it was made for.
CommitSays ==
  CASE committed # Free -> "duplicate"
    [] ~previewed \/ edited -> "refused"
    [] OTHER -> "applied"
OperationSays(r) ==
  CASE r \in Hellos -> "welcome"
    [] r \in Lookups -> IF committed = Free THEN "missing" ELSE "found"
    [] r \in Commits -> CommitSays

\* TrySetResult: a result that was set first stays.
Result(r, says) == [said EXCEPT ![r] = IF @ = "nothing" THEN says ELSE @]

\* The action runs to its end, or finds its deadline past (AssertDeadline) or
\* AutoCAD in a command (AssertCommandState) and changes nothing.
Finish(r) ==
  /\ item[r] = "running"
  /\ item' = [item EXCEPT ![r] = "over"]
  /\ \/ /\ said' = Result(r, OperationSays(r))
        /\ committed' = IF r \in Commits /\ OperationSays(r) = "applied" THEN r ELSE committed
     \/ /\ r \in Commits
        /\ \E says \in {"expired", "refused"} : said' = Result(r, says)
        /\ UNCHANGED committed
  /\ UNCHANGED <<agentSide, pipes, serving, known, job, previewed, edited, stops>>

\* The answer is written if the agent's end is open; a completed handshake makes
\* the session known.
Reply ==
  /\ job # Free /\ said[job] # "nothing"
  /\ job' = Free
  /\ known' = (known \/ said[job] = "welcome")
  /\ IF pipes[serving].open
     THEN /\ pipes' = [pipes EXCEPT ![serving].toAgent =
                         Append(@, [to |-> job, says |-> said[job]])]
          /\ UNCHANGED serving
     ELSE serving' = 0 /\ UNCHANGED pipes
  /\ UNCHANGED <<agentSide, item, said, drawing, stops>>

\* The loop sees the agent's end closed and waits for the next connection.
HangUp ==
  /\ serving # 0 /\ job = Free
  /\ ~pipes[serving].open /\ pipes[serving].toHost = <<>>
  /\ serving' = 0
  /\ UNCHANGED <<agentSide, pipes, known, job, item, said, drawing, stops>>

-----------------------------------------------------------------------------
(* The operator and AutoCAD.                                               *)

\* Somebody draws: the revision the preview was made for is gone.
Edit ==
  /\ ~edited /\ \A r \in Requests : item[r] # "running"
  /\ edited' = TRUE
  /\ UNCHANGED <<agentSide, pipes, hostSide, committed, previewed, stops>>

\* AutoCAD stops and starts again: Terminate cancels what is pending, the pipe
\* breaks, the previews are gone, and so is the drawing if it was not saved.
Stop ==
  /\ stops < MaxStops /\ stops' = stops + 1
  /\ pipes' = [s \in DOMAIN pipes |-> [pipes[s] EXCEPT !.open = FALSE, !.toHost = <<>>]]
  /\ serving' = 0 /\ known' = FALSE /\ job' = Free
  /\ item' = [r \in Requests |-> IF item[r] = "none" THEN "none" ELSE "over"]
  /\ committed' \in {committed, Free}
  /\ previewed' = FALSE
  /\ UNCHANGED <<agentSide, said, edited>>

-----------------------------------------------------------------------------
HostNext ==
  \/ \E r \in Requests :
       \/ Issue(r) \/ TakeStream(r) \/ Open(r) \/ Install(r) \/ Write(r) \/ Read(r)
       \/ BreakDown(r) \/ Abandon(r)
       \/ DeadlineCancels(r) \/ Execute(r) \/ Finish(r)
  \/ \E s \in dropped : CloseDropped(s)
  \/ Receive \/ Reply \/ HangUp \/ Edit \/ Stop

HostSpec == HostInit /\ [][HostNext]_hostLinkVars

-----------------------------------------------------------------------------
\* An answer the port took for a request is the host's answer to that request:
\* the frames carry no pairing the port checks, so it rests on dropping the stream
\* of every request that was given up (_abort_stream, _request_sync).
AnswerIsForItsRequest ==
  \A r \in Requests : answer[r].says \notin {"nothing", "lost"} => answer[r].to = r

\* What the host refuses it leaves alone: a commit answered with an error, above
\* all "deadline expired", was not and will not be applied by that request, however
\* its deadline raced AutoCAD's thread (WorkItem.Execute, CancelFromToken).
RefusedIsUntouched ==
  \A r \in Commits :
    "expired" = said[r] \/ answer[r].says \in {"expired", "refused"} => committed # r
=============================================================================
