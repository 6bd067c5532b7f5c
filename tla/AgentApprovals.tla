--------------------------- MODULE AgentApprovals ---------------------------
(***************************************************************************)
(* The Agent's half of trusted approval: the approval store (approval.py)  *)
(* and AgentCore's use of it (core.py).  Requests and decisions are        *)
(* handled on the event loop, one at a time; set_paused runs on the        *)
(* operator's UI thread, between any two of their steps.                   *)
(***************************************************************************)
EXTENDS ApprovalState

LoopFree == arriving = NoKey /\ answering = NoKey

Withdrawn(box, from) ==
  [k \in Keys |-> [s \in Session |->
     IF box[k][s] = "pending" /\ k \in from THEN "invalidated" ELSE box[k][s]]]

\* Mutant: the request is stored under the Gateway's word for its state.
RecordedAsSent(k, s) ==
  IF inbox[k][s] # "none" THEN inbox
  ELSE [Withdrawn(inbox, {k}) EXCEPT ![k][s] = "requested"]

\* record_request: a repeat is kept as it is; a new request replaces what is
\* pending for the same consent.
Recorded(k, s) ==
  IF inbox[k][s] # "none" THEN inbox
  ELSE [Withdrawn(inbox, {k}) EXCEPT ![k][s] = "pending"]

\* _handle_approval_request, up to the look at the pause flag.
ReceiveRequest ==
  /\ session # NoSession /\ LoopFree
  /\ \E k \in down[session] :
       /\ inbox' = Recorded(k, session)
       /\ down' = [down EXCEPT ![session] = @ \ {k}]
       /\ arriving' = k
  /\ UNCHANGED <<dbVars, procVars, session, paused, withdrawing, answering, up, worldVars>>

\* A decision already stored is sent again; the session's sequence window takes
\* it for the first one.
Shown ==
  /\ arriving # NoKey /\ arriving' = NoKey
  /\ inbox' = IF paused THEN Withdrawn(inbox, Keys) ELSE inbox
  /\ UNCHANGED <<dbVars, procVars, session, paused, withdrawing, answering, wireVars, worldVars>>

\* submit_approval_decision, up to the signature.
Answer(k) ==
  /\ LoopFree /\ ~paused /\ session # NoSession
  /\ inbox[k][session] = "pending" /\ k \notin expired
  /\ answering' = k
  /\ UNCHANGED <<dbVars, procVars, inbox, session, paused, withdrawing, arriving, wireVars, worldVars>>

\* The operator answers a request of an earlier session: everything pending goes.
AnswerStale(k) ==
  /\ LoopFree /\ ~paused /\ session # NoSession
  /\ \E s \in Session \ {session} : inbox[k][s] = "pending" /\ k \notin expired
  /\ inbox' = Withdrawn(inbox, Keys)
  /\ UNCHANGED <<dbVars, procVars, session, paused, withdrawing, arriving, answering, wireVars, worldVars>>

\* Mutant: the decision is sent before it is recorded.
AnsweredFirst(verdict) ==
  /\ answering # NoKey /\ answering' = NoKey
  /\ inbox' = IF session # NoSession /\ inbox[answering][session] = "pending"
              THEN [inbox EXCEPT ![answering][session] = verdict] ELSE inbox
  /\ up' = IF session # NoSession THEN [up EXCEPT ![session] = @ \cup {<<answering, verdict>>}] ELSE up
  /\ UNCHANGED <<dbVars, procVars, session, paused, withdrawing, arriving, down, worldVars>>

\* record_decision refuses what is no longer pending; what it records is sent,
\* unless the process or the socket stops first.
Answered(verdict) ==
  /\ answering # NoKey /\ answering' = NoKey
  /\ IF inbox[answering][session] = "pending"
     THEN /\ inbox' = [inbox EXCEPT ![answering][session] = verdict]
          /\ \/ up' = [up EXCEPT ![session] = @ \cup {<<answering, verdict>>}]
             \/ UNCHANGED up
     ELSE UNCHANGED <<inbox, up>>
  /\ UNCHANGED <<dbVars, procVars, session, paused, withdrawing, arriving, down, worldVars>>

\* expire: run by every read of the store.
ExpirePending ==
  /\ LoopFree
  /\ \E k \in expired, s \in Session : inbox[k][s] = "pending"
  /\ inbox' = [k \in Keys |-> [s \in Session |->
       IF inbox[k][s] = "pending" /\ k \in expired THEN "expired" ELSE inbox[k][s]]]
  /\ UNCHANGED <<dbVars, procVars, session, paused, withdrawing, arriving, answering, wireVars, worldVars>>

-----------------------------------------------------------------------------
(* set_paused, on the UI thread: first the flag, then the inbox. *)

Pause ==
  /\ ~paused
  /\ paused' = TRUE /\ withdrawing' = TRUE
  /\ UNCHANGED <<dbVars, procVars, inbox, session, arriving, answering, wireVars, worldVars>>

\* Mutant: the pause leaves the inbox to the next request.
WithdrawNothing ==
  /\ withdrawing /\ withdrawing' = FALSE
  /\ UNCHANGED <<dbVars, procVars, inbox, session, paused, arriving, answering, wireVars, worldVars>>

Withdraw ==
  /\ withdrawing /\ withdrawing' = FALSE
  /\ inbox' = Withdrawn(inbox, Keys)
  /\ UNCHANGED <<dbVars, procVars, session, paused, arriving, answering, wireVars, worldVars>>

Resume ==
  /\ paused /\ ~withdrawing
  /\ paused' = FALSE
  /\ UNCHANGED <<dbVars, procVars, inbox, session, withdrawing, arriving, answering, wireVars, worldVars>>

-----------------------------------------------------------------------------
(* Sessions and the process. *)

\* The socket's other side has gone, or the network has.
LoseSession ==
  /\ session # NoSession /\ LoopFree
  /\ session' = NoSession
  /\ UNCHANGED <<dbVars, procVars, inbox, paused, withdrawing, arriving, answering, wireVars, worldVars>>

\* The process stops; the inbox and the pause flag are on disk.
AgentRestart ==
  /\ restarts < MaxRestart /\ restarts' = restarts + 1
  /\ session' = NoSession /\ withdrawing' = FALSE /\ arriving' = NoKey /\ answering' = NoKey
  /\ UNCHANGED <<dbVars, procVars, inbox, paused, wireVars, moved, expired, opened, wanted>>
=============================================================================
