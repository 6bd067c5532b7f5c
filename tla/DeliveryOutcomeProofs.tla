------------------------ MODULE DeliveryOutcomeProofs ------------------------
(***************************************************************************)
(* What a client of the Gateway is promised, proved of the two ends for    *)
(* every set of jobs, sessions, restarts and every queue size: a job that  *)
(* is queued or cancelled was never begun, a failed commit is explained,   *)
(* the two ends implement JobOutcome, and on the only session there has    *)
(* been no job is forgotten.                                               *)
(*                                                                         *)
(* The argument counts tokens.  A command the Agent has not started can be *)
(* in one place only: on the wire, in the Agent's queue, in its worker,    *)
(* under a question whether it was started, or in the answer that it was   *)
(* not or will not be.  The Gateway queues, cancels or refuses a job only  *)
(* where it holds the one token, so nobody is left to begin the job.       *)
(***************************************************************************)
EXTENDS DeliveryRecordProofs

-----------------------------------------------------------------------------
(* How many messages of a sequence are of one kind.                         *)

NotIn(q, P)     == \A i \in 1..Len(q) : q[i] \notin P
AtMostOne(q, P) == \A i, k \in 1..Len(q) : q[i] \in P /\ q[k] \in P => i = k

\* r has no more of P than q, as far as none and one go.
Shrinks(q, r, P) ==
  /\ NotIn(q, P) => NotIn(r, P)
  /\ AtMostOne(q, P) => AtMostOne(r, P)

LEMMA ShrinkSame ==
  ASSUME NEW q, NEW P PROVE Shrinks(q, q, P) /\ Shrinks(q, <<>>, P) /\ NotIn(<<>>, P)
BY DEF Shrinks, NotIn, AtMostOne

LEMMA NoneIsAtMostOne ==
  ASSUME NEW q, NEW P, NotIn(q, P) PROVE AtMostOne(q, P)
BY DEF NotIn, AtMostOne

LEMMA ShrinkTail ==
  ASSUME NEW S, NEW q \in Seq(S), q # <<>>, NEW P
  PROVE  /\ Shrinks(q, Tail(q), P)
         /\ NotIn(q, P) => Head(q) \notin P
         /\ Head(q) \in P /\ AtMostOne(q, P) => NotIn(Tail(q), P)
<1>1. /\ Len(q) \in Nat /\ Len(q) > 0 /\ Head(q) = q[1]
      /\ Len(Tail(q)) = Len(q) - 1
      /\ \A i \in 1..Len(Tail(q)) : Tail(q)[i] = q[i + 1] /\ i + 1 \in 1..Len(q) /\ i + 1 # 1
  BY HeadTailProperties, LenProperties, EmptySeq
<1> QED BY <1>1 DEF Shrinks, NotIn, AtMostOne

LEMMA ConcatIndex ==
  ASSUME NEW S, NEW q \in Seq(S), NEW r \in Seq(S), NEW i \in 1..Len(q \o r)
  PROVE  \/ i \in 1..Len(q) /\ (q \o r)[i] = q[i]
         \/ i - Len(q) \in 1..Len(r) /\ (q \o r)[i] = r[i - Len(q)]
<1>1. /\ Len(q \o r) = Len(q) + Len(r) /\ Len(q) \in Nat /\ Len(r) \in Nat
      /\ (q \o r)[i] = IF i <= Len(q) THEN q[i] ELSE r[i - Len(q)]
  BY ConcatProperties, LenProperties
<1> QED BY <1>1

LEMMA ShrinkConcat ==
  ASSUME NEW S, NEW q \in Seq(S), NEW r \in Seq(S), NEW P
  PROVE  /\ NotIn(r, P) => Shrinks(q, q \o r, P)
         /\ NotIn(q, P) /\ NotIn(r, P) => NotIn(q \o r, P)
         /\ NotIn(q, P) /\ AtMostOne(r, P) => AtMostOne(q \o r, P)
<1>1. Len(q) \in Nat /\ Len(r) \in Nat
  BY LenProperties
<1>2. NotIn(q, P) /\ NotIn(r, P) => NotIn(q \o r, P)
  BY ConcatIndex DEF NotIn
<1>3. NotIn(r, P) /\ AtMostOne(q, P) => AtMostOne(q \o r, P)
  BY ConcatIndex DEF NotIn, AtMostOne
<1>4. NotIn(q, P) /\ AtMostOne(r, P) => AtMostOne(q \o r, P)
  <2> SUFFICES ASSUME NotIn(q, P), AtMostOne(r, P),
                      NEW i \in 1..Len(q \o r), NEW k \in 1..Len(q \o r),
                      (q \o r)[i] \in P, (q \o r)[k] \in P
               PROVE  i = k
    BY DEF AtMostOne
  <2>1. i - Len(q) \in 1..Len(r) /\ r[i - Len(q)] \in P
    BY ConcatIndex DEF NotIn
  <2>2. k - Len(q) \in 1..Len(r) /\ r[k - Len(q)] \in P
    BY ConcatIndex DEF NotIn
  <2>3. i - Len(q) = k - Len(q)
    BY <2>1, <2>2 DEF AtMostOne
  <2> QED BY <1>1, <2>3, i \in Nat, k \in Nat
<1> QED BY <1>2, <1>3, <1>4 DEF Shrinks

LEMMA OneMessage ==
  ASSUME NEW S, NEW m \in S, NEW P
  PROVE  /\ <<m>> \in Seq(S) /\ AtMostOne(<<m>>, P)
         /\ m \notin P => NotIn(<<m>>, P)
BY DEF AtMostOne, NotIn

LEMMA ShrinkAppend ==
  ASSUME NEW S, NEW q \in Seq(S), NEW m \in S, NEW P
  PROVE  /\ m \notin P => Shrinks(q, Append(q, m), P)
         /\ NotIn(q, P) => AtMostOne(Append(q, m), P)
<1>1. Append(q, m) = q \o <<m>>
  BY AppendIsConcat
<1>2. <<m>> \in Seq(S) /\ AtMostOne(<<m>>, P) /\ (m \notin P => NotIn(<<m>>, P))
  BY OneMessage
<1>3. /\ NotIn(<<m>>, P) => Shrinks(q, q \o <<m>>, P)
      /\ NotIn(q, P) /\ AtMostOne(<<m>>, P) => AtMostOne(q \o <<m>>, P)
  BY <1>2, ShrinkConcat
<1> QED BY <1>1, <1>2, <1>3

\* The head of q is replaced.
LEMMA ShrinkHead ==
  ASSUME NEW S, NEW q \in Seq(S), q # <<>>, NEW m \in S, NEW P
  PROVE  /\ (m \in P => Head(q) \in P) => Shrinks(q, <<m>> \o Tail(q), P)
         /\ m \notin P /\ NotIn(Tail(q), P) => NotIn(<<m>> \o Tail(q), P)
<1>t. Tail(q) \in Seq(S) /\ <<m>> \in Seq(S)
  BY TailOfSeq, OneMessage
<1>1. m \notin P /\ NotIn(Tail(q), P) => NotIn(<<m>> \o Tail(q), P)
  BY <1>t, OneMessage, ShrinkConcat
<1>2. CASE m \notin P
  <2>1. NotIn(<<m>>, P)
    BY <1>2, OneMessage
  <2>2. AtMostOne(Tail(q), P) => AtMostOne(<<m>> \o Tail(q), P)
    BY <1>t, <2>1, ShrinkConcat
  <2> QED BY <1>1, <1>2, <2>2, ShrinkTail DEF Shrinks
<1>3. CASE m \in P /\ Head(q) \in P
  <2>1. ~NotIn(q, P)
    BY <1>3, ShrinkTail
  <2>2. AtMostOne(q, P) => NotIn(Tail(q), P)
    BY <1>3, ShrinkTail
  <2>3. AtMostOne(q, P) => AtMostOne(<<m>> \o Tail(q), P)
    BY <1>t, <2>2, OneMessage, ShrinkConcat DEF Shrinks
  <2> QED BY <1>1, <2>1, <2>3 DEF Shrinks
<1> QED BY <1>1, <1>2, <1>3

-----------------------------------------------------------------------------
(* What is still to be read.                                                *)

\* A session whose first message is not the welcome is lost as the Agent reads it.
Doomed == ~welcomed /\ down # <<>> /\ Head(down).type # "welcome"

\* The messages the Agent may act on, and those a handler may.
Live  == IF Doomed THEN <<>> ELSE down
Heard == IF conn = NoSession THEN <<>> ELSE up[conn]

\* How the sessions of the two ends fit together.
SessionInv ==
  /\ conn # NoSession /\ session # NoSession => conn = session
  /\ \A s \in Session : handler[s] = "none" => up[s] = <<>> /\ s # session
  /\ session = NoSession => ~welcomed /\ down = <<>>
  /\ ~welcomed => queue = <<>> /\ work.at = "idle"
  /\ session # NoSession /\ ~welcomed => up[session] = <<>>
  /\ session # NoSession /\ handler[session] \in {"registered", "replacing"} =>
       ~welcomed /\ Live = <<>>

LEMMA LiveType ==
  ASSUME TypeOK PROVE Live \in Seq(DownMessage) /\ Heard \in Seq(UpMessage)
<1>1. <<>> \in Seq(DownMessage) /\ <<>> \in Seq(UpMessage)
  OBVIOUS
<1> QED BY <1>1 DEF TypeOK, Live, Heard

LEMMA LiveUnread ==
  ASSUME UNCHANGED <<down, welcomed>>
  PROVE  Live' = Live
BY DEF Live, Doomed

LEMMA LiveLeft ==
  ASSUME LeaveSession
  PROVE  Live' = <<>> /\ queue' = <<>> /\ work' = Idle
BY DEF LeaveSession, Live, Doomed

LEMMA LiveSent ==
  ASSUME TypeOK, NEW s, NEW m \in DownMessage, m.type # "welcome", SendDown(s, m),
         UNCHANGED <<session, welcomed>>
  PROVE  Live' = Live \/ Live' = Append(Live, m)
<1>1. CASE down' = down
  BY <1>1 DEF Live, Doomed
<1>2. CASE down' = Append(down, m)
  <2>1. down' # <<>> /\ Head(down') = IF down = <<>> THEN m ELSE Head(down)
    <3>1. down \in Seq(DownMessage)
      BY DEF TypeOK
    <3> QED BY <1>2, <3>1, HeadTailAppend, AppendProperties
  <2> QED BY <1>2, <2>1 DEF Live, Doomed
<1> QED BY <1>1, <1>2 DEF SendDown

LEMMA LiveRead ==
  ASSUME NEW type, Receiving(type), down' = Tail(down),
         \/ welcomed /\ welcomed' = welcomed
         \/ type = "welcome" /\ welcomed' = TRUE
  PROVE  Live = down /\ Live # <<>> /\ Head(Live).type = type /\ Live' = Tail(Live)
BY DEF Receiving, Live, Doomed

LEMMA HeardSame ==
  ASSUME UNCHANGED <<conn, up>>
  PROVE  Heard' = Heard
BY DEF Heard

LEMMA HeardEnds ==
  ASSUME TypeOK, NEW s \in Session, up' = [up EXCEPT ![s] = <<>>],
         conn' = IF conn = s THEN NoSession ELSE conn
  PROVE  Heard' = Heard \/ Heard' = <<>>
BY DEF Heard, TypeOK

LEMMA HeardTaken ==
  ASSUME TypeOK, NEW s \in Session, conn = s, conn' = conn, up' = [up EXCEPT ![s] = Tail(@)]
  PROVE  Heard = up[s] /\ Heard' = Tail(Heard)
BY DEF Heard, TypeOK, Session, NoSession

LEMMA HeardSent ==
  ASSUME TypeOK, NEW q, SendUp(q), conn' = conn
  PROVE  Heard' = Heard \/ Heard' = Heard \o q
BY DEF Heard, TypeOK, SendUp

LEMMA LiveEarly ==
  ASSUME TypeOK, NEW s, NEW m \in DownMessage, m.type # "welcome", SendDown(s, m),
         ~welcomed, Live = <<>>, UNCHANGED <<session, welcomed>>
  PROVE  Live' = <<>>
<1>1. down \in Seq(DownMessage)
  BY DEF TypeOK
<1>2. Append(down, m) # <<>> /\ Head(Append(down, m)) = IF down = <<>> THEN m ELSE Head(down)
  BY <1>1, HeadTailAppend, AppendProperties
<1> QED BY <1>2 DEF Live, Doomed, SendDown

\* A message of the Gateway's other than the welcome.
LEMMA DownIsNoWelcome ==
  ASSUME NEW j \in Jobs, NEW type \in {"command", "cancel", "reconcile"}
  PROVE  Down(type, {j}) \in DownMessage /\ Down(type, {j}).type = type /\ Down(type, {j}).jobs = {j}
         /\ Down(type, {j}).type # "welcome"
BY DEF Down, DownMessage, DownType

LEMMA SessionInit == Init => SessionInv
BY DEF Init, SessionInv, Session, NoSession, Idle

LEMMA SessionStep == TInv /\ SessionInv /\ [Next]_vars => SessionInv'
<1> SUFFICES ASSUME TInv, SessionInv, [Next]_vars PROVE SessionInv'
  OBVIOUS
<1> USE DEF envVars, jobVars, connVars, wireVars, agentVars
<1>t. TypeOK
  BY DEF TInv
<1>s. session \in Session \cup {NoSession} /\ \A s \in Session : s # NoSession
  BY <1>t DEF Session, NoSession, TypeOK
\* Nothing of the session moves but what the Gateway writes down.
<1>g. ASSUME UNCHANGED <<conn, session, handler, up, welcomed, queue, work>>,
             \/ UNCHANGED down
             \/ \E s \in Session, j \in Jobs, type \in {"command", "cancel", "reconcile"} :
                  session # NoSession /\ SendDown(s, Down(type, {j}))
      PROVE  SessionInv'
  <2>1. session # NoSession \/ UNCHANGED down
    BY <1>g
  <2>2. ~welcomed /\ Live = <<>> => Live' = <<>>
    BY <1>g, <1>t, LiveEarly, LiveUnread, DownIsNoWelcome
  <2> QED BY <1>g, <2>1, <2>2 DEF SessionInv
\* A write to a socket the Agent is not on changes nothing.
<1>d. ASSUME UNCHANGED <<conn, session, handler, up, welcomed, queue, work>>,
             NEW s \in Session, NEW j \in Jobs, NEW type \in {"command", "cancel", "reconcile"},
             UNCHANGED down \/ SendDown(s, Down(type, {j}))
      PROVE  SessionInv'
  <2>1. session # NoSession \/ UNCHANGED down
    BY <1>d, <1>s DEF SendDown
  <2> QED BY <1>d, <1>g, <2>1
\* A handler's end: its session is closed for both.
<1>e. ASSUME UNCHANGED <<session, welcomed, down, queue, work>>,
             NEW S \in SUBSET Session, S # {},
             conn' = IF conn \in S THEN NoSession ELSE conn,
             \A s \in Session : IF s \in S THEN handler'[s] \in {handler[s], "closed"} /\ up'[s] = <<>>
                                ELSE handler'[s] = handler[s] /\ up'[s] = up[s]
      PROVE  SessionInv'
  <2>1. Live' = Live
    BY <1>e, LiveUnread
  <2>2. session \in Session \cup {NoSession}
    BY <1>t DEF TypeOK
  <2>3. \A s \in Session : up[s] = <<>> => up'[s] = <<>>
    BY <1>e
  <2>4. \A s \in Session : handler'[s] \in {"none", "registered", "replacing"} => handler'[s] = handler[s]
    BY <1>e
  <2>5. conn' # NoSession => conn' = conn
    BY <1>e
  <2> QED BY <1>e, <2>1, <2>2, <2>3, <2>4, <2>5 DEF SessionInv
\* The Agent works on a session it was welcomed to.
<1>w. ASSUME UNCHANGED <<conn, session, handler>>, session # NoSession, welcomed' = TRUE,
             handler[session] \notin {"none", "registered", "replacing"},
             \A s \in Session : s # session => up'[s] = up[s]
      PROVE  SessionInv'
  BY <1>w DEF SessionInv
<1>l. ASSUME UNCHANGED <<conn, handler, up>>, LeaveSession PROVE SessionInv'
  BY <1>l, <1>s DEF SessionInv, LeaveSession, Idle
\* Where the Agent speaks, it was welcomed.
<1>q. ASSUME welcomed
      PROVE  session \in Session /\ handler[session] \notin {"none", "registered", "replacing"}
  <2>1. session \in Session
    BY <1>q, <1>t DEF SessionInv, TypeOK
  <2> QED BY <1>q, <1>s, <2>1 DEF SessionInv
<1>u. ASSUME NEW q, SendUp(q), NEW s \in Session, s # session PROVE up'[s] = up[s]
  BY <1>u, <1>t DEF SendUp, TypeOK
<1>1. ASSUME NEW j \in Jobs,
             \/ Create(j) \/ DeadlinePasses(j) \/ Sweep(j) \/ DispatchRefused(j)
             \/ DispatchOffline(j) \/ HostEnds(j)
      PROVE  SessionInv'
  <2>1. UNCHANGED <<conn, session, handler, up, welcomed, queue, work, down>>
    BY <1>1 DEF Create, DeadlinePasses, Sweep, DispatchRefused, DispatchOffline, HostEnds
  <2> QED BY <2>1, <1>g
<1>2. ASSUME NEW j \in Jobs, Cancel(j) \/ DispatchClaimed(j) PROVE SessionInv'
  <2>1. UNCHANGED <<conn, session, handler, up, welcomed, queue, work>>
    BY <1>2 DEF Cancel, DispatchClaimed
  <2>2. \/ UNCHANGED down
        \/ conn # NoSession /\ \E type \in {"command", "cancel"} : SendDown(conn, Down(type, {j}))
    BY <1>2 DEF Cancel, DispatchClaimed
  <2>3. conn # NoSession => conn \in Session
    BY <1>t DEF TypeOK
  <2> QED BY <2>1, <2>2, <2>3, <1>d, <1>g
<1>3. CASE SendReturns \/ SendFails \/ GoStale \/ Heartbeat \/ MarkStale \/ UNCHANGED vars
  <2>1. UNCHANGED <<conn, session, handler, up, welcomed, queue, work, down>>
    BY <1>3 DEF SendReturns, SendFails, GoStale, Heartbeat, MarkStale, vars
  <2> QED BY <2>1, <1>g
<1>4. ASSUME NEW s \in Session, EndHandler(s), UNCHANGED <<session, welcomed, down, queue, work>>
      PROVE  SessionInv'
  <2>1. conn' = IF conn \in {s} THEN NoSession ELSE conn
    BY <1>4 DEF EndHandler
  <2>2. \A t \in Session : IF t \in {s} THEN handler'[t] \in {handler[t], "closed"} /\ up'[t] = <<>>
                           ELSE handler'[t] = handler[t] /\ up'[t] = up[t]
    BY <1>4, <1>t DEF EndHandler, TypeOK
  <2> QED BY <1>4, <2>1, <2>2, <1>e
<1>5. ASSUME NEW s \in Session, HandlerEnds(s) PROVE SessionInv'
  BY <1>4, <1>5 DEF HandlerEnds
<1>6. ASSUME NEW s \in Session, ActivationFails(s) PROVE SessionInv'
  <2>1. conn' = IF conn \in {s} THEN NoSession ELSE conn
    BY <1>6 DEF ActivationFails
  <2>2. \A t \in Session : IF t \in {s} THEN handler'[t] \in {handler[t], "closed"} /\ up'[t] = <<>>
                           ELSE handler'[t] = handler[t] /\ up'[t] = up[t]
    BY <1>6, <1>t DEF ActivationFails, TypeOK
  <2>3. UNCHANGED <<session, welcomed, down, queue, work>>
    BY <1>6 DEF ActivationFails
  <2> QED BY <2>1, <2>2, <2>3, <1>e
<1>7. CASE GatewayRestart
  <2>1. /\ UNCHANGED <<session, welcomed, down, queue, work>> /\ conn' = NoSession
        /\ up' = [s \in Session |-> <<>>]
        /\ handler' = [s \in Session |-> IF handler[s] = "none" THEN "none" ELSE "closed"]
    BY <1>7 DEF GatewayRestart
  <2>2. Live' = Live
    BY <2>1, LiveUnread
  <2>3. session \in Session \cup {NoSession}
    BY <1>t DEF TypeOK
  <2> QED BY <2>1, <2>2, <2>3 DEF SessionInv
<1>8. ASSUME NEW s \in Session, Connect(s) PROVE SessionInv'
  <2>1. /\ session = NoSession /\ handler[s] = "none" /\ conn' = s /\ session' = s
        /\ UNCHANGED <<up, down, welcomed, queue, work>>
        /\ \A t \in Session : t # s => handler'[t] = handler[t]
        /\ handler'[s] \in {"registered", "replacing"}
    BY <1>8, <1>t DEF Connect, TypeOK
  <2>2. down = <<>> /\ ~welcomed /\ up[s] = <<>>
    BY <2>1 DEF SessionInv
  <2>3. Live' = <<>>
    BY <2>1, <2>2 DEF Live
  <2> QED BY <2>1, <2>2, <2>3, <1>s DEF SessionInv
<1>9. ASSUME NEW s \in Session, Activate(s) PROVE SessionInv'
  <2>1. /\ UNCHANGED <<conn, up, session, welcomed, queue, work>>
        /\ handler[s] \in {"registered", "replacing"} /\ handler'[s] = "activating"
        /\ \A t \in Session : t # s => handler'[t] = handler[t]
        /\ session # s => down' = down
    BY <1>9, <1>t DEF Activate, TypeOK
  <2>2. session # s => Live' = Live
    BY <2>1, LiveUnread
  <2>3. session = NoSession => session # s
    BY <1>s
  <2> QED BY <2>1, <2>2, <2>3, <1>s DEF SessionInv
<1>10. ASSUME NEW s \in Session, Opened(s) PROVE SessionInv'
  <2>1. /\ UNCHANGED <<conn, up, session, welcomed, queue, work, down>>
        /\ handler'[s] = "open" /\ handler[s] = "activating"
        /\ \A t \in Session : t # s => handler'[t] = handler[t]
    BY <1>10, <1>t DEF Opened, TypeOK
  <2>2. Live' = Live
    BY <2>1, LiveUnread
  <2> QED BY <2>1, <2>2, <1>s DEF SessionInv
<1>11. ASSUME NEW s \in Session, HandleAck(s) \/ HandleResult(s) \/ HandleReconcileResult(s)
       PROVE  SessionInv'
  <2>1. /\ conn = s /\ handler[s] = "open" /\ up[s] # <<>> /\ Read(s).job \in Jobs
        /\ UNCHANGED <<session, welcomed, queue, work>>
        /\ \/ EndHandler(s)
           \/ up' = [up EXCEPT ![s] = Tail(@)] /\ UNCHANGED connVars
    BY <1>t, <1>11, HandlerCases DEF Acked, Finalized, Reconciled, Takes
  <2>2. \/ UNCHANGED down
        \/ \E type \in {"command", "cancel", "reconcile"} : SendDown(s, Down(type, {Read(s).job}))
    BY <1>11 DEF HandleAck, HandleResult, HandleReconcileResult, Read
  <2>3. CASE EndHandler(s) /\ UNCHANGED down
    BY <2>1, <2>3, <1>4
  <2>4. CASE up' = [up EXCEPT ![s] = Tail(@)] /\ UNCHANGED connVars
    <3>1. ~welcomed /\ Live = <<>> => Live' = <<>>
      BY <1>t, <2>1, <2>2, LiveEarly, LiveUnread, DownIsNoWelcome
    <3>2. session = NoSession => UNCHANGED down
      BY <2>2, <1>s DEF SendDown
    <3>3. \A t \in Session : t # s => up'[t] = up[t]
      BY <2>4, <1>t DEF TypeOK
    <3>4. session # NoSession => session = s /\ welcomed
      BY <2>1, <1>s DEF SessionInv
    <3> QED BY <2>1, <2>4, <3>1, <3>2, <3>3, <3>4, <1>s DEF SessionInv
  <2>5. CASE EndHandler(s) /\ ~UNCHANGED down
    <3>1. FALSE
      <4>1. conn' # conn
        BY <2>1, <2>5, <1>s DEF EndHandler
      <4>2. CASE HandleAck(s)
        <5>1. /\ Store(s, Read(s).job, AckTarget(Read(s).job, Read(s).status), "agent")
              /\ ~(state[Read(s).job] \in Terminal \/ Read(s).status \in {"accepted", "rejected"})
          BY <2>5, <4>2 DEF HandleAck, Read
        <5>2. AckTarget(Read(s).job, Read(s).status) # "invalid"
          <6>1. state[Read(s).job] # "invalid"
            BY <2>1, <1>t DEF TypeOK, JobState
          <6> QED BY <5>1, <6>1 DEF AckTarget, Recovery
        <5> QED BY <4>1, <5>1, <5>2 DEF Store
      <4>3. CASE HandleReconcileResult(s)
        <5>1. /\ Store(s, Read(s).job, ReconcileTarget(Read(s).job, Read(s).status), "gateway")
              /\ ReconcileTarget(Read(s).job, Read(s).status) # "invalid"
          BY <2>5, <4>3 DEF HandleReconcileResult, Read
        <5> QED BY <4>1, <5>1 DEF Store
      <4>4. CASE HandleResult(s)
        BY <2>5, <4>4 DEF HandleResult
      <4> QED BY <1>11, <4>2, <4>3, <4>4
    <3> QED BY <3>1
  <2> QED BY <2>1, <2>3, <2>4, <2>5
<1>12. ASSUME NEW j \in Jobs, AnswerKnown(j) \/ Refuse(j) \/ Accept(j) PROVE SessionInv'
  <2>1. /\ queue # <<>> /\ UNCHANGED <<conn, session, handler, welcomed>>
        /\ \E q : SendUp(q)
    BY <1>12 DEF AnswerKnown, Refuse, Accept, Take
  <2>2. welcomed
    BY <2>1 DEF SessionInv
  <2> QED BY <2>1, <2>2, <1>q, <1>s, <1>u, <1>w
<1>13. CASE Drop \/ ReceiveEarly \/ AgentRestart
  BY <1>13, <1>l DEF Drop, ReceiveEarly, AgentRestart
<1>14. CASE ReceiveWelcome
  <2>1. /\ session # NoSession /\ welcomed' = TRUE /\ Receiving("welcome")
        /\ UNCHANGED <<conn, session, handler, up>> /\ down' = Tail(down)
    BY <1>14 DEF ReceiveWelcome, Receiving
  <2>2. Live # <<>>
    BY <2>1, LiveRead
  <2>3. session \in Session
    BY <2>1, <1>t DEF TypeOK
  <2> QED BY <2>1, <2>2, <2>3, <1>w DEF SessionInv
<1>15. CASE ReceiveCommand \/ ReceiveCancel \/ ReceiveReconcile
  <2>1. welcomed /\ UNCHANGED <<conn, session, handler, welcomed>> /\ (UNCHANGED up \/ \E q : SendUp(q))
    BY <1>15 DEF ReceiveCommand, ReceiveCancel, ReceiveReconcile
  <2> QED BY <2>1, <1>q, <1>s, <1>u, <1>w
<1>16. CASE RejectDone \/ Start \/ Finish
  <2>1. /\ work.at # "idle" /\ UNCHANGED <<conn, handler>>
        /\ LeaveSession \/ UNCHANGED <<session, welcomed>>
        /\ UNCHANGED up \/ (UNCHANGED <<session, welcomed>> /\ \E q : SendUp(q))
    <3>1. RejectDone =>
            /\ work.at = "rejecting" /\ UNCHANGED <<conn, handler, up>>
            /\ LeaveSession \/ UNCHANGED <<session, welcomed>>
      BY DEF RejectDone, connVars
    <3>2. Start =>
            /\ work.at = "acking" /\ UNCHANGED <<conn, handler>>
            /\ LeaveSession \/ UNCHANGED <<session, welcomed>>
            /\ UNCHANGED up \/ (UNCHANGED <<session, welcomed>> /\ \E q : SendUp(q))
      BY DEF Start, connVars
    <3>3. Finish =>
            /\ work.at = "executing" /\ UNCHANGED <<conn, handler, session, welcomed>>
            /\ \E q : SendUp(q)
      BY DEF Finish, connVars
    <3> QED BY <1>16, <3>1, <3>2, <3>3
  <2>2. welcomed
    BY <2>1 DEF SessionInv
  <2>3. CASE UNCHANGED <<session, welcomed>>
    BY <2>1, <2>2, <2>3, <1>q, <1>s, <1>u, <1>w
  <2>4. CASE LeaveSession /\ UNCHANGED up
    BY <2>1, <2>4, <1>l
  <2> QED BY <2>1, <2>3, <2>4
<1> QED
  BY <1>1, <1>2, <1>3, <1>5, <1>6, <1>7, <1>8, <1>9, <1>10, <1>11, <1>12, <1>13, <1>14, <1>15, <1>16
  DEF Next

-----------------------------------------------------------------------------
(* The places a job's token can be in.                                      *)

Unstarted(j) == ledger[j] \in {"none", "received", "accepted"}

\* The messages that may still set the Agent to work on j, those it answers
\* about j, and its word that j was not begun or will not be.
Commanding(j) == {m \in DownMessage : m.type = "command" /\ j \in m.jobs}
Touching(j)   == {m \in DownMessage : m.type \in {"command", "reconcile"} /\ j \in m.jobs}
Answers(j)    == {m \in UpMessage : m.job = j /\ m.status \in {"rejected", "not_started"}}
Acking(j)     == work.at = "acking" /\ work.job = j

\* j is in one place at most, and there once.
OneToken(j) ==
  /\ AtMostOne(Live, Touching(j)) /\ AtMostOne(queue, {j}) /\ AtMostOne(Heard, Answers(j))
  /\ ~NotIn(Live, Touching(j)) => NotIn(queue, {j}) /\ ~Acking(j) /\ NotIn(Heard, Answers(j))
  /\ ~NotIn(queue, {j}) => ~Acking(j) /\ NotIn(Heard, Answers(j))
  /\ Acking(j) => NotIn(Heard, Answers(j))

\* Nothing is left that could begin j.
NoToken(j) ==
  NotIn(Live, Touching(j)) /\ NotIn(queue, {j}) /\ ~Acking(j) /\ NotIn(Heard, Answers(j))

NoCommand(j) ==
  NotIn(Live, Commanding(j)) /\ NotIn(queue, {j}) /\ ~Acking(j) /\ NotIn(Heard, Answers(j))

LEMMA CommandsTouch ==
  ASSUME NEW j PROVE NotIn(Live, Touching(j)) => NotIn(Live, Commanding(j))
BY DEF NotIn, Touching, Commanding

\* A step that puts nothing new in any place.
Fewer(j) ==
  /\ Shrinks(Live, Live', Touching(j)) /\ Shrinks(Live, Live', Commanding(j))
  /\ Shrinks(queue, queue', {j})
  /\ Shrinks(Heard, Heard', Answers(j))
  /\ Acking(j)' => Acking(j)

\* The steps that move the token, by the places alone.
Sent(j) ==
  /\ Live' = Append(Live, Down("command", {j}))
  /\ queue' = queue /\ work' = work /\ Heard' = Heard

Asked(j) ==
  /\ Live = <<>> /\ Heard = <<>> /\ queue = <<>> /\ work.at = "idle"
  /\ \E lost \in SUBSET Jobs : Live' = <<Down("welcome", {}), Down("reconcile", lost)>>
  /\ state'[j] \in {"reconnect_pending", "outcome_unknown"}
  /\ queue' = queue /\ work' = work /\ Heard' = Heard

Received(j) ==
  /\ Live # <<>> /\ Head(Live) \in Commanding(j) /\ Live' = Tail(Live) /\ work' = work
  /\ \/ queue' = Append(queue, j) /\ Heard' = Heard
     \/ queue' = queue /\ Heard' = Append(Heard, Up("ack", j, "rejected"))

Answered(j) ==
  /\ Live # <<>> /\ Head(Live) \in Touching(j)
  /\ Shrinks(Live, Live', Commanding(j))
  /\ AtMostOne(Live, Touching(j)) => NotIn(Live', Touching(j))
  /\ queue' = queue /\ work' = work
  /\ Heard' = Append(Heard, Up("reconciled", j, ReconcileStatus(ledger[j])))

Taken(j) ==
  /\ Live' = Live /\ queue # <<>> /\ Head(queue) = j /\ queue' = Tail(queue)
  /\ \/ Acking(j)' /\ Shrinks(Heard, Heard', Answers(j))
     \/ ~Acking(j)' /\ (NotIn(Heard, Answers(j)) => AtMostOne(Heard', Answers(j)))

AskedAgain(j) ==
  /\ Heard # <<>> /\ Head(Heard).job = j /\ Head(Heard).status \notin {"accepted", "rejected"}
  /\ Heard' = Tail(Heard)
  /\ Live' = Append(Live, Down("reconcile", {j}))
  /\ queue' = queue /\ work' = work

LEMMA FewerKeeps ==
  ASSUME NEW j, Fewer(j)
  PROVE  /\ OneToken(j) => OneToken(j)'
         /\ NoToken(j) => NoToken(j)'
         /\ NoCommand(j) => NoCommand(j)'
BY DEF Fewer, Shrinks, OneToken, NoToken, NoCommand

LEMMA PlacesSame ==
  ASSUME UNCHANGED <<down, welcomed, queue, work, conn, up>>, NEW j
  PROVE  Fewer(j)
<1>1. Live' = Live /\ Heard' = Heard
  BY LiveUnread, HeardSame
<1>2. Acking(j)' => Acking(j)
  BY DEF Acking
<1> QED BY <1>1, <1>2, ShrinkSame DEF Fewer

LEMMA PlacesLeft ==
  ASSUME LeaveSession, UNCHANGED <<conn, up>>, NEW j
  PROVE  Fewer(j)
<1>1. Live' = <<>> /\ queue' = <<>> /\ work' = Idle /\ Heard' = Heard
  BY LiveLeft, HeardSame
<1>2. ~Acking(j)'
  BY <1>1 DEF Acking, Idle
<1> QED BY <1>1, <1>2, ShrinkSame DEF Fewer

LEMMA PlacesEnded ==
  ASSUME TypeOK, UNCHANGED <<down, welcomed, queue, work>>, Heard' = Heard \/ Heard' = <<>>, NEW j
  PROVE  Fewer(j)
<1>1. Live' = Live
  BY LiveUnread
<1>2. Acking(j)' => Acking(j)
  BY DEF Acking
<1> QED BY <1>1, <1>2, ShrinkSame DEF Fewer

\* The Gateway writes a message that is no command and no question about j.
LEMMA PlacesWritten ==
  ASSUME TypeOK, NEW j \in Jobs, NEW m \in DownMessage, m \notin Touching(j), m \notin Commanding(j),
         Live' = Live \/ Live' = Append(Live, m), Shrinks(Heard, Heard', Answers(j)),
         UNCHANGED <<queue, work>>
  PROVE  Fewer(j)
<1>1. Acking(j)' => Acking(j)
  BY DEF Acking
<1>2. Live \in Seq(DownMessage)
  BY LiveType
<1> QED BY <1>1, <1>2, ShrinkSame, ShrinkAppend DEF Fewer

\* What the Agent says where it says something.
LEMMA HeardSaid ==
  ASSUME TypeOK, NEW q \in Seq(UpMessage), SendUp(q), conn' = conn, NEW P
  PROVE  /\ NotIn(q, P) => Shrinks(Heard, Heard', P)
         /\ NotIn(Heard, P) /\ AtMostOne(q, P) => AtMostOne(Heard', P)
<1>1. Heard' = Heard \/ Heard' = Heard \o q
  BY HeardSent
<1>2. Heard \in Seq(UpMessage)
  BY LiveType
<1>3. CASE Heard' = Heard
  BY <1>3, ShrinkSame, NoneIsAtMostOne
<1>4. CASE Heard' = Heard \o q
  <2>1. /\ NotIn(q, P) => Shrinks(Heard, Heard \o q, P)
        /\ NotIn(Heard, P) /\ AtMostOne(q, P) => AtMostOne(Heard \o q, P)
    BY <1>2, ShrinkConcat
  <2> QED BY <1>4, <2>1
<1> QED BY <1>1, <1>3, <1>4

\* One or two messages, none of them the kind.
LEMMA SaidNothing ==
  ASSUME NEW S, NEW a \in S, NEW b \in S, NEW P
  PROVE  /\ <<a, b>> \in Seq(S) /\ <<a>> \in Seq(S)
         /\ a \notin P => NotIn(<<a>>, P)
         /\ a \notin P /\ b \notin P => NotIn(<<a, b>>, P)
         /\ b \notin P => AtMostOne(<<a, b>>, P)
BY DEF NotIn, AtMostOne

LEMMA AnswersAre ==
  ASSUME NEW j \in Jobs, NEW type \in UpType, NEW k \in Jobs, NEW status \in UpStatus
  PROVE  /\ Up(type, k, status) \in UpMessage
         /\ Up(type, k, status) \in Answers(j) <=> (k = j /\ status \in {"rejected", "not_started"})
BY DEF Up, UpMessage, Answers

LEMMA TouchesAre ==
  ASSUME NEW j \in Jobs, NEW type \in DownType, NEW jobs \in SUBSET Jobs
  PROVE  /\ Down(type, jobs) \in DownMessage
         /\ Down(type, jobs) \in Touching(j) <=> (type \in {"command", "reconcile"} /\ j \in jobs)
         /\ Down(type, jobs) \in Commanding(j) <=> (type = "command" /\ j \in jobs)
BY DEF Down, DownMessage, Touching, Commanding

Moved(j) ==
  \/ DispatchClaimed(j) /\ Sent(j)
  \/ \E s \in Session : Activate(s) /\ Asked(j)
  \/ ReceiveCommand /\ Received(j)
  \/ ReceiveReconcile /\ Answered(j)
  \/ Refuse(j) /\ Taken(j)
  \/ Accept(j) /\ Taken(j)
  \/ \E s \in Session : HandleAck(s) /\ conn = s /\ AskedAgain(j)

LEMMA GatewayPlaces ==
  ASSUME TInv, SessionInv, NEW j \in Jobs, NEW k \in Jobs,
         \/ Create(k) \/ Cancel(k) \/ DeadlinePasses(k) \/ Sweep(k) \/ DispatchRefused(k)
         \/ DispatchOffline(k) \/ DispatchClaimed(k) \/ HostEnds(k)
  PROVE  Fewer(j) \/ Moved(j)
<1> USE DEF jobVars, connVars, wireVars, agentVars
<1>t. TypeOK
  BY DEF TInv
<1>1. CASE \/ Create(k) \/ DeadlinePasses(k) \/ Sweep(k) \/ DispatchRefused(k)
           \/ DispatchOffline(k) \/ HostEnds(k)
  <2>1. UNCHANGED <<down, welcomed, queue, work, conn, up>>
    BY <1>1 DEF Create, DeadlinePasses, Sweep, DispatchRefused, DispatchOffline, HostEnds
  <2> QED BY <2>1, PlacesSame
<1>2. CASE Cancel(k)
  <2>1. /\ UNCHANGED <<session, welcomed, queue, work, conn, up>>
        /\ UNCHANGED down \/ SendDown(conn, Down("cancel", {k}))
    BY <1>2 DEF Cancel
  <2>2. Down("cancel", {k}) \in DownMessage \ (Touching(j) \cup Commanding(j))
    BY TouchesAre DEF DownType
  <2>3. Live' = Live \/ Live' = Append(Live, Down("cancel", {k}))
    BY <1>t, <2>1, LiveUnread, LiveSent, DownIsNoWelcome
  <2>4. Heard' = Heard
    BY <2>1, HeardSame
  <2> QED BY <1>t, <2>1, <2>2, <2>3, <2>4, PlacesWritten, ShrinkSame
<1>3. CASE DispatchClaimed(k)
  <2>1. /\ UNCHANGED <<session, welcomed, queue, work, conn, up>>
        /\ UNCHANGED down \/ SendDown(conn, Down("command", {k}))
    BY <1>3 DEF DispatchClaimed
  <2>2. /\ Down("command", {k}) \in DownMessage
        /\ k # j => Down("command", {k}) \notin Touching(j) \cup Commanding(j)
    BY TouchesAre DEF DownType
  <2>3. Live' = Live \/ Live' = Append(Live, Down("command", {k}))
    BY <1>t, <2>1, LiveUnread, LiveSent, DownIsNoWelcome
  <2>4. Heard' = Heard
    BY <2>1, HeardSame
  <2>5. CASE k = j /\ Live' = Append(Live, Down("command", {k}))
    BY <1>3, <2>1, <2>4, <2>5 DEF Moved, Sent
  <2>6. CASE Live' = Live
    <3>1. Down("cancel", {k}) \in DownMessage \ (Touching(j) \cup Commanding(j))
      BY TouchesAre DEF DownType
    <3> QED BY <1>t, <2>1, <2>4, <2>6, <3>1, PlacesWritten, ShrinkSame
  <2>7. CASE k # j
    BY <1>t, <2>1, <2>2, <2>3, <2>4, <2>7, PlacesWritten, ShrinkSame
  <2> QED BY <2>3, <2>5, <2>6, <2>7
<1> QED BY <1>1, <1>2, <1>3

LEMMA ActivatePlaces ==
  ASSUME TInv, SessionInv, NEW j \in Jobs, NEW s \in Session, Activate(s)
  PROVE  Fewer(j) \/ Moved(j)
<1>t. TypeOK
  BY DEF TInv
<1>1. UNCHANGED <<welcomed, queue, work, conn, up, session>>
  BY DEF Activate, agentVars
<1>2. CASE session # s
  BY <1>1, <1>2, PlacesSame DEF Activate
<1>3. CASE session = s
  <2>1. session # NoSession
    BY <1>3 DEF Session, NoSession
  <2>2. ~welcomed /\ Live = <<>> /\ queue = <<>> /\ work.at = "idle" /\ Heard = <<>>
    <3>1. handler[session] \in {"registered", "replacing"}
      BY <1>3 DEF Activate
    <3> QED BY <2>1, <3>1 DEF SessionInv, Heard
  <2>3. Heard' = Heard
    BY <1>1, HeardSame
  <2>4. PICK lost \in SUBSET Jobs :
          /\ down' = down \o <<Down("welcome", {})>> \o
                     (IF lost = {} THEN <<>> ELSE <<Down("reconcile", lost)>>)
          /\ j \in lost => state'[j] \in {"reconnect_pending", "outcome_unknown"}
    <3> DEFINE rows == [i \in Jobs |-> IF state[i] = "cancel_requested"
                                       THEN Recovery(i, state[i]) ELSE state[i]]
               lost == {i \in Jobs : rows[i] \in {"reconnect_pending", "outcome_unknown"}}
    <3>1. /\ down' = down \o <<Down("welcome", {})>> \o
                     (IF lost = {} THEN <<>> ELSE <<Down("reconcile", lost)>>)
          /\ state' = rows
      BY <1>3 DEF Activate
    <3>2. lost \in SUBSET Jobs /\ (j \in lost => state'[j] \in {"reconnect_pending", "outcome_unknown"})
      BY <3>1
    <3> HIDE DEF lost
    <3> QED BY <3>1, <3>2
  <2>5. CASE down = <<>>
    <3>1. down' = IF lost = {} THEN <<Down("welcome", {})>>
                  ELSE <<Down("welcome", {}), Down("reconcile", lost)>>
      BY <2>4, <2>5
    <3>2. Live' = down'
      BY <3>1 DEF Live, Doomed, Down
    <3>3. CASE lost = {}
      <4>1. Down("welcome", {}) \in DownMessage \ (Touching(j) \cup Commanding(j))
        BY TouchesAre DEF DownType
      <4>2. Live' = Append(Live, Down("welcome", {}))
        BY <2>2, <3>1, <3>2, <3>3
      <4> QED BY <1>t, <1>1, <2>3, <4>1, <4>2, PlacesWritten, ShrinkSame
    <3>4. CASE j \in lost
      <4>1. Asked(j)
        BY <1>1, <2>2, <2>3, <2>4, <3>1, <3>2, <3>4 DEF Asked
      <4> QED BY <4>1 DEF Moved
    <3>5. CASE lost # {} /\ j \notin lost
      <4>1. /\ Down("welcome", {}) \in DownMessage \ (Touching(j) \cup Commanding(j))
            /\ Down("reconcile", lost) \in DownMessage \ (Touching(j) \cup Commanding(j))
        BY <3>5, TouchesAre DEF DownType
      <4>2. NotIn(Live', Touching(j)) /\ NotIn(Live', Commanding(j))
        BY <3>1, <3>2, <3>5, <4>1, SaidNothing
      <4>3. Acking(j)' => Acking(j)
        BY <1>1 DEF Acking
      <4> QED BY <1>1, <2>3, <4>2, <4>3, ShrinkSame, NoneIsAtMostOne DEF Fewer, Shrinks
    <3> QED BY <3>3, <3>4, <3>5
  <2>6. CASE down # <<>>
    <3>1. Head(down).type # "welcome"
      BY <2>2, <2>6 DEF Live, Doomed
    <3>2. down' # <<>> /\ Head(down') = Head(down)
      <4>1. down \in Seq(DownMessage) /\ Len(down) > 0
        BY <1>t, <2>6, EmptySeq DEF TypeOK
      <4>2. Down("welcome", {}) \in DownMessage /\ Down("reconcile", lost) \in DownMessage
        BY TouchesAre DEF DownType
      <4>3. \A q \in Seq(DownMessage) : down \o q # <<>> /\ Head(down \o q) = Head(down)
        BY <4>1
      <4>4. \A q \in Seq(DownMessage) :
              <<Down("welcome", {})>> \o q \in Seq(DownMessage)
              /\ down \o <<Down("welcome", {})>> \o q = down \o (<<Down("welcome", {})>> \o q)
        BY <4>1, <4>2
      <4>5. IF lost = {} THEN down' = down \o <<Down("welcome", {})>> \o <<>>
            ELSE down' = down \o <<Down("welcome", {})>> \o <<Down("reconcile", lost)>>
        BY <2>4
      <4>6. <<>> \in Seq(DownMessage) /\ <<Down("reconcile", lost)>> \in Seq(DownMessage)
        BY <4>2
      <4>7. \E q \in Seq(DownMessage) : down' = down \o q
        BY <4>4, <4>5, <4>6
      <4> QED BY <4>3, <4>7
    <3>3. Live' = <<>>
      BY <1>1, <2>2, <3>1, <3>2 DEF Live, Doomed
    <3>4. Down("cancel", {j}) \in DownMessage \ (Touching(j) \cup Commanding(j))
      BY TouchesAre DEF DownType
    <3> QED BY <1>t, <1>1, <2>2, <2>3, <3>3, <3>4, PlacesWritten, ShrinkSame
  <2> QED BY <2>5, <2>6
<1> QED BY <1>2, <1>3

LEMMA HandlerPlaces ==
  ASSUME TInv, SessionInv, NEW j \in Jobs, NEW s \in Session,
         HandleAck(s) \/ HandleResult(s) \/ HandleReconcileResult(s)
  PROVE  Fewer(j) \/ Moved(j)
<1> DEFINE k == Read(s).job
<1>t. TypeOK
  BY DEF TInv
<1>1. /\ conn = s /\ up[s] # <<>> /\ k \in Jobs /\ UNCHANGED <<session, welcomed, queue, work>>
      /\ EndHandler(s) \/ (up' = [up EXCEPT ![s] = Tail(@)] /\ UNCHANGED conn)
  BY <1>t, HandlerCases DEF Acked, Finalized, Reconciled, Takes, agentVars, connVars
<1>2. \/ UNCHANGED down
      \/ SendDown(s, Down("cancel", {k}))
      \/ /\ HandleAck(s) /\ Read(s).status \notin {"accepted", "rejected"}
         /\ SendDown(s, Down("reconcile", {k}))
  BY DEF HandleAck, HandleResult, HandleReconcileResult, Read
<1>3. Down("cancel", {k}) \in DownMessage \ (Touching(j) \cup Commanding(j))
  BY <1>1, TouchesAre DEF DownType
<1>h. Heard = up[s] /\ Heard \in Seq(UpMessage) /\ Heard # <<>> /\ Head(Heard) = Read(s)
  BY <1>1, <1>t, LiveType DEF Heard, Read, Session, NoSession
<1>4. Shrinks(Heard, Heard', Answers(j))
  <2>1. CASE EndHandler(s)
    BY <1>t, <2>1, HeardEnds, ShrinkSame DEF EndHandler
  <2>2. CASE up' = [up EXCEPT ![s] = Tail(@)] /\ UNCHANGED conn
    <3>1. Heard' = Tail(Heard)
      BY <1>t, <1>1, <2>2, HeardTaken
    <3> QED BY <1>h, <3>1, ShrinkTail
  <2> QED BY <1>1, <2>1, <2>2
<1>5. CASE UNCHANGED down \/ SendDown(s, Down("cancel", {k}))
  <2>1. Live' = Live \/ Live' = Append(Live, Down("cancel", {k}))
    BY <1>t, <1>1, <1>5, LiveUnread, LiveSent, DownIsNoWelcome
  <2> HIDE DEF k
  <2> QED BY <1>t, <1>1, <1>3, <1>4, <2>1, PlacesWritten
<1>6. CASE /\ HandleAck(s) /\ Read(s).status \notin {"accepted", "rejected"}
           /\ SendDown(s, Down("reconcile", {k}))
  <2>1. Live' = Live \/ Live' = Append(Live, Down("reconcile", {k}))
    BY <1>t, <1>1, <1>6, LiveUnread, LiveSent, DownIsNoWelcome
  <2>2. Live' = Live => Fewer(j)
    <3> HIDE DEF k
    <3> QED BY <1>t, <1>1, <1>3, <1>4, PlacesWritten
  <2>3. k # j => Down("reconcile", {k}) \in DownMessage \ (Touching(j) \cup Commanding(j))
    BY <1>1, TouchesAre DEF DownType
  <2>4. k # j => Fewer(j)
    <3> HIDE DEF k
    <3> QED BY <1>t, <1>1, <1>4, <2>1, <2>3, PlacesWritten
  <2>5. CASE k = j /\ Live' = Append(Live, Down("reconcile", {k})) /\ ~EndHandler(s)
    <3>1. Heard' = Tail(Heard)
      BY <1>t, <1>1, <2>5, HeardTaken
    <3>2. AskedAgain(j)
      BY <1>1, <1>6, <1>h, <2>5, <3>1 DEF AskedAgain
    <3> QED BY <1>1, <1>6, <3>2 DEF Moved
  <2>6. CASE EndHandler(s)
    <3>1. AckTarget(k, Read(s).status) = "invalid"
      <4>1. conn' # conn
        BY <1>1, <2>6 DEF EndHandler, Session, NoSession
      <4>2. Store(s, k, AckTarget(k, Read(s).status), "agent")
        BY <1>6 DEF HandleAck, Read
      <4> QED BY <4>1, <4>2 DEF Store, connVars
    <3>2. state[k] # "invalid"
      BY <1>1, <1>t DEF TypeOK, JobState
    <3>3. FALSE
      BY <1>6, <3>1, <3>2 DEF AckTarget, Recovery
    <3> QED BY <3>3
  <2> QED BY <2>1, <2>2, <2>4, <2>5, <2>6
<1> QED BY <1>2, <1>5, <1>6

LEMMA SessionPlaces ==
  ASSUME TInv, SessionInv, NEW j \in Jobs, NEW s \in Session,
         Connect(s) \/ Opened(s) \/ ActivationFails(s) \/ HandlerEnds(s)
  PROVE  Fewer(j)
<1>t. TypeOK
  BY DEF TInv
<1>1. CASE Opened(s)
  <2>1. UNCHANGED <<down, welcomed, queue, work, conn, up>>
    BY <1>1 DEF Opened, wireVars, agentVars
  <2> QED BY <2>1, PlacesSame
<1>2. CASE ActivationFails(s) \/ HandlerEnds(s)
  <2>1. /\ UNCHANGED <<down, welcomed, queue, work>> /\ up' = [up EXCEPT ![s] = <<>>]
        /\ conn' = IF conn = s THEN NoSession ELSE conn
    BY <1>2 DEF ActivationFails, HandlerEnds, EndHandler, agentVars
  <2> QED BY <1>t, <2>1, HeardEnds, PlacesEnded
<1>3. CASE Connect(s)
  <2>1. UNCHANGED <<down, welcomed, queue, work, up>> /\ conn' = s /\ handler[s] = "none"
    BY <1>3 DEF Connect, wireVars
  <2>2. Heard' = <<>>
    <3>1. up[s] = <<>>
      BY <2>1 DEF SessionInv
    <3> QED BY <2>1, <3>1 DEF Heard
  <2> QED BY <1>t, <2>1, <2>2, PlacesEnded
<1> QED BY <1>1, <1>2, <1>3

LEMMA QuietPlaces ==
  ASSUME TInv, NEW j \in Jobs,
         \/ SendReturns \/ SendFails \/ GoStale \/ Heartbeat \/ MarkStale \/ GatewayRestart
         \/ Drop \/ ReceiveEarly \/ AgentRestart \/ UNCHANGED vars
  PROVE  Fewer(j)
<1>t. TypeOK
  BY DEF TInv
<1>1. CASE SendReturns \/ SendFails \/ GoStale \/ Heartbeat \/ MarkStale \/ UNCHANGED vars
  <2>1. UNCHANGED <<down, welcomed, queue, work, conn, up>>
    BY <1>1 DEF SendReturns, SendFails, GoStale, Heartbeat, MarkStale, vars, wireVars, agentVars, connVars
  <2> QED BY <2>1, PlacesSame
<1>2. CASE GatewayRestart
  <2>1. UNCHANGED <<down, welcomed, queue, work>> /\ conn' = NoSession
    BY <1>2 DEF GatewayRestart, agentVars
  <2>2. Heard' = <<>>
    BY <2>1 DEF Heard
  <2> QED BY <1>t, <2>1, <2>2, PlacesEnded
<1>3. CASE Drop \/ ReceiveEarly \/ AgentRestart
  BY <1>3, PlacesLeft DEF Drop, ReceiveEarly, AgentRestart, connVars
<1> QED BY <1>1, <1>2, <1>3

-----------------------------------------------------------------------------
(* The Agent's steps. *)

LEMMA ReceivePlaces ==
  ASSUME TInv, SessionInv, NEW j \in Jobs, ReceiveWelcome \/ ReceiveCommand \/ ReceiveCancel \/ ReceiveReconcile
  PROVE  Fewer(j) \/ Moved(j)
<1>t. TypeOK
  BY DEF TInv
<1>l. Live \in Seq(DownMessage) /\ Heard \in Seq(UpMessage)
  BY <1>t, LiveType
<1>1. UNCHANGED work /\ conn' = conn
  BY DEF ReceiveWelcome, ReceiveCommand, ReceiveCancel, ReceiveReconcile, connVars
<1>2. Acking(j)' => Acking(j)
  BY <1>1 DEF Acking
<1>3. CASE ReceiveWelcome
  <2>1. Live # <<>> /\ Live' = Tail(Live) /\ UNCHANGED <<queue, up>>
    BY <1>3, LiveRead DEF ReceiveWelcome
  <2>2. Heard' = Heard
    BY <1>1, <2>1, HeardSame
  <2> QED BY <1>l, <1>2, <2>1, <2>2, ShrinkTail, ShrinkSame DEF Fewer
<1>4. CASE ReceiveCommand
  <2>1. Live = down /\ Live # <<>> /\ Head(Live).type = "command" /\ Live' = Tail(Live)
    BY <1>4, LiveRead DEF ReceiveCommand
  <2>2. PICK k \in Head(Live).jobs :
          IF Len(queue) < QueueSize
          THEN queue' = Append(queue, k) /\ UNCHANGED up
          ELSE SendUp(<<Up("ack", k, "rejected")>>) /\ UNCHANGED queue
    BY <1>4, <2>1 DEF ReceiveCommand
  <2>3. Head(Live) \in DownMessage
    BY <1>l, <2>1, TailOfSeq
  <2>4. k \in Jobs
    BY <2>2, <2>3 DEF DownMessage
  <2>5. \/ queue' = Append(queue, k) /\ Heard' = Heard
        \/ queue' = queue /\ Heard' = Heard
        \/ queue' = queue /\ Heard' = Append(Heard, Up("ack", k, "rejected"))
    <3>1. UNCHANGED up => Heard' = Heard
      BY <1>1, HeardSame
    <3>2. SendUp(<<Up("ack", k, "rejected")>>) =>
            Heard' = Heard \/ Heard' = Heard \o <<Up("ack", k, "rejected")>>
      BY <1>t, <1>1, HeardSent
    <3>3. Heard \o <<Up("ack", k, "rejected")>> = Append(Heard, Up("ack", k, "rejected"))
      BY <1>l, <2>4, AppendIsConcat, AnswersAre DEF UpType, UpStatus
    <3> QED BY <2>2, <3>1, <3>2, <3>3
  <2>6. CASE queue' = queue /\ Heard' = Heard
    BY <1>l, <1>2, <2>1, <2>6, ShrinkTail, ShrinkSame DEF Fewer
  <2>7. CASE k = j
    <3>1. Head(Live) \in Commanding(j)
      BY <2>1, <2>2, <2>3, <2>7 DEF Commanding
    <3> QED BY <1>1, <1>4, <2>1, <2>5, <2>6, <2>7, <3>1 DEF Received, Moved
  <2>8. CASE k # j
    <3>1. Shrinks(queue, Append(queue, k), {j})
      <4>1. queue \in Seq(Jobs)
        BY <1>t DEF TypeOK
      <4> QED BY <2>4, <2>8, <4>1, ShrinkAppend
    <3>2. Shrinks(Heard, Append(Heard, Up("ack", k, "rejected")), Answers(j))
      BY <1>l, <2>4, <2>8, AnswersAre, ShrinkAppend DEF UpType, UpStatus
    <3> QED BY <1>l, <1>2, <2>1, <2>5, <3>1, <3>2, ShrinkTail, ShrinkSame DEF Fewer
  <2> QED BY <2>7, <2>8
<1>5. CASE ReceiveCancel
  <2>1. Live = down /\ Live # <<>> /\ Live' = Tail(Live) /\ UNCHANGED queue
    BY <1>5, LiveRead DEF ReceiveCancel
  <2>2. PICK k \in Head(Live).jobs : UNCHANGED up \/ SendUp(<<Up("result", k, "cancelled")>>)
    BY <1>5, <2>1 DEF ReceiveCancel
  <2>3. k \in Jobs
    <3>1. Head(Live) \in DownMessage
      BY <1>l, <2>1, TailOfSeq
    <3> QED BY <2>2, <3>1 DEF DownMessage
  <2>4. Shrinks(Heard, Heard', Answers(j))
    <3>1. /\ <<Up("result", k, "cancelled")>> \in Seq(UpMessage)
          /\ NotIn(<<Up("result", k, "cancelled")>>, Answers(j))
      <4>1. Up("result", k, "cancelled") \in UpMessage \ Answers(j)
        BY <2>3, AnswersAre DEF UpType, UpStatus
      <4> QED BY <4>1, SaidNothing
    <3>2. UNCHANGED up => Heard' = Heard
      BY <1>1, HeardSame
    <3> QED BY <1>t, <1>1, <2>2, <3>1, <3>2, HeardSaid, ShrinkSame
  <2> QED BY <1>l, <1>2, <2>1, <2>4, ShrinkTail, ShrinkSame DEF Fewer
<1>6. CASE ReceiveReconcile
  <2> DEFINE rest(k) == Down("reconcile", Head(down).jobs \ {k})
  <2>1. Live = down /\ Live # <<>> /\ Head(Live).type = "reconcile" /\ welcomed /\ welcomed' = welcomed
    <3>1. Receiving("reconcile") /\ welcomed /\ welcomed' = welcomed
      BY <1>6 DEF ReceiveReconcile
    <3> QED BY <3>1 DEF Live, Doomed, Receiving
  <2>2. PICK k \in Head(down).jobs :
          /\ SendUp(<<Up("reconciled", k, ReconcileStatus(ledger[k]))>>)
          /\ down' = IF Head(down).jobs = {k} THEN Tail(down) ELSE <<rest(k)>> \o Tail(down)
    BY <1>6 DEF ReceiveReconcile
  <2>3. Head(down) \in DownMessage /\ Head(down).jobs \in SUBSET Jobs
    <3>1. Head(down) \in DownMessage
      BY <1>l, <2>1, TailOfSeq
    <3> QED BY <3>1 DEF DownMessage
  <2>4. k \in Jobs /\ UNCHANGED queue /\ ledger[k] \in LedgerState
    BY <1>6, <1>t, <2>2, <2>3 DEF ReceiveReconcile, TypeOK
  <2>5. Live' = down'
    BY <2>1 DEF Live, Doomed
  <2>6. ASSUME NEW P PROVE /\ (rest(k) \in P => Head(Live) \in P) => Shrinks(Live, Live', P)
                           /\ rest(k) \notin P /\ NotIn(Tail(Live), P) => NotIn(Live', P)
    <3>1. rest(k) \in DownMessage
      BY <2>3, TouchesAre DEF DownType
    <3>2. CASE down' = Tail(down)
      BY <1>l, <2>1, <2>5, <3>2, ShrinkTail
    <3>3. CASE down' = <<rest(k)>> \o Tail(down)
      <4> HIDE DEF rest
      <4> QED BY <1>l, <2>1, <2>5, <3>1, <3>3, ShrinkHead
    <3> QED BY <2>2, <3>2, <3>3
  <2>7. /\ rest(k) \in Touching(j) <=> (j \in Head(down).jobs /\ j # k)
        /\ rest(k) \notin Commanding(j)
        /\ Head(Live) \in Touching(j) <=> j \in Head(down).jobs
    <3>1. Head(down).jobs \ {k} \in SUBSET Jobs
      BY <2>3
    <3>2. /\ rest(k) \in Touching(j) <=> (j \in Head(down).jobs /\ j # k)
          /\ rest(k) \notin Commanding(j)
      BY <3>1, TouchesAre DEF DownType
    <3> QED BY <2>1, <2>3, <3>2 DEF Touching
  <2>8. Shrinks(Live, Live', Commanding(j)) /\ Shrinks(Live, Live', Touching(j))
    BY <2>6, <2>7
  <2> DEFINE m == Up("reconciled", k, ReconcileStatus(ledger[k]))
  <2>9. m \in UpMessage /\ (k # j => m \notin Answers(j))
    <3>1. ReconcileStatus(ledger[k]) \in UpStatus
      BY <2>4, ReconcileStatusType DEF ReconcileStatus, LedgerState, LedgerTerminal, UpStatus
    <3> QED BY <2>4, <3>1, AnswersAre DEF UpType
  <2>10. Heard' = Heard \/ Heard' = Append(Heard, m)
    <3>1. SendUp(<<m>>)
      BY <2>2
    <3>2. Heard \o <<m>> = Append(Heard, m)
      BY <1>l, <2>9, AppendIsConcat
    <3> HIDE DEF m
    <3> QED BY <1>t, <1>1, <3>1, <3>2, HeardSent
  <2>11. CASE Heard' = Heard
    BY <1>2, <2>4, <2>8, <2>11, ShrinkSame DEF Fewer
  <2>12. CASE k # j /\ Heard' = Append(Heard, m)
    <3>1. Shrinks(Heard, Heard', Answers(j))
      <4> HIDE DEF m
      <4> QED BY <1>l, <2>9, <2>12, ShrinkAppend
    <3> QED BY <1>2, <2>4, <2>8, <3>1, ShrinkSame DEF Fewer
  <2>13. CASE k = j /\ Heard' = Append(Heard, m)
    <3>1. Head(Live) \in Touching(j) /\ rest(k) \notin Touching(j)
      BY <2>2, <2>7, <2>13
    <3>2. AtMostOne(Live, Touching(j)) => NotIn(Live', Touching(j))
      <4>1. AtMostOne(Live, Touching(j)) => NotIn(Tail(Live), Touching(j))
        BY <1>l, <2>1, <3>1, ShrinkTail
      <4> QED BY <2>6, <3>1, <4>1
    <3>3. Answered(j)
      BY <1>1, <2>1, <2>4, <2>8, <2>13, <3>1, <3>2 DEF Answered
    <3> QED BY <1>6, <3>3 DEF Moved
  <2> QED BY <2>10, <2>11, <2>12, <2>13
<1> QED BY <1>3, <1>4, <1>5, <1>6

LEMMA WorkerPlaces ==
  ASSUME TInv, SessionInv, NEW j \in Jobs, NEW k \in Jobs, AnswerKnown(k) \/ Refuse(k) \/ Accept(k)
  PROVE  Fewer(j) \/ Moved(j)
<1>t. TypeOK
  BY DEF TInv
<1>1. /\ work.at = "idle" /\ queue # <<>> /\ Head(queue) = k /\ queue' = Tail(queue)
      /\ UNCHANGED <<down, welcomed, conn>>
  BY DEF AnswerKnown, Refuse, Accept, Take, connVars
<1>2. Live' = Live
  BY <1>1, LiveUnread
<1>3. Shrinks(queue, queue', {j})
  <2>1. queue \in Seq(Jobs)
    BY <1>t DEF TypeOK
  <2> QED BY <1>1, <2>1, ShrinkTail
<1>4. ASSUME NEW i \in Jobs, NEW status \in UpStatus, NEW type \in UpType
      PROVE  /\ Up(type, i, status) \in UpMessage
             /\ Up(type, i, status) \in Answers(j) <=> (i = j /\ status \in {"rejected", "not_started"})
  BY AnswersAre
<1>5. CASE AnswerKnown(k)
  <2> DEFINE one   == <<Up("ack", k, "duplicate")>>
             two   == <<Up("ack", k, "already_terminal"), Up("result", k, ledger[k])>>
  <2>1. SendUp(one) \/ (SendUp(two) /\ ledger[k] \in LedgerTerminal)
    BY <1>5 DEF AnswerKnown
  <2>2. one \in Seq(UpMessage) /\ NotIn(one, Answers(j))
    <3>1. Up("ack", k, "duplicate") \in UpMessage \ Answers(j)
      BY <1>4 DEF UpType, UpStatus
    <3> QED BY <3>1, SaidNothing
  <2>3. ledger[k] \in LedgerTerminal => two \in Seq(UpMessage) /\ NotIn(two, Answers(j))
    <3>1. /\ Up("ack", k, "already_terminal") \in UpMessage \ Answers(j)
          /\ ledger[k] \in LedgerTerminal => Up("result", k, ledger[k]) \in UpMessage \ Answers(j)
      BY <1>4 DEF UpType, UpStatus, LedgerTerminal
    <3> HAVE ledger[k] \in LedgerTerminal
    <3>2. Up("result", k, ledger[k]) \in UpMessage \ Answers(j)
      BY <3>1
    <3>3. Up("ack", k, "already_terminal") \in UpMessage \ Answers(j)
      BY <3>1
    <3> DEFINE a == Up("ack", k, "already_terminal")
               b == Up("result", k, ledger[k])
    <3>4. a \in UpMessage /\ b \in UpMessage /\ a \notin Answers(j) /\ b \notin Answers(j)
      BY <3>2, <3>3
    <3> HIDE DEF a, b
    <3>5. <<a, b>> \in Seq(UpMessage) /\ NotIn(<<a, b>>, Answers(j))
      BY <3>4, SaidNothing
    <3> QED BY <3>5 DEF a, b
  <2>4. Shrinks(Heard, Heard', Answers(j))
    <3> HIDE DEF one, two
    <3> QED BY <1>t, <1>1, <2>1, <2>2, <2>3, HeardSaid
  <2>5. Acking(j)' => Acking(j)
    BY <1>5 DEF AnswerKnown, Acking
  <2> QED BY <1>2, <1>3, <2>4, <2>5, ShrinkSame DEF Fewer
<1>6. CASE Accept(k)
  <2>1. SendUp(<<Up("ack", k, "accepted")>>) /\ work' = [at |-> "acking", job |-> k]
    BY <1>6 DEF Accept
  <2>2. Shrinks(Heard, Heard', Answers(j))
    <3>1. Up("ack", k, "accepted") \in UpMessage \ Answers(j)
      BY <1>4 DEF UpType, UpStatus
    <3>2. <<Up("ack", k, "accepted")>> \in Seq(UpMessage) /\ NotIn(<<Up("ack", k, "accepted")>>, Answers(j))
      BY <3>1, SaidNothing
    <3> QED BY <1>t, <1>1, <2>1, <3>2, HeardSaid
  <2>3. CASE k = j
    <3>1. Acking(j)'
      BY <2>1, <2>3 DEF Acking
    <3> QED BY <1>1, <1>2, <1>6, <2>2, <2>3, <3>1 DEF Taken, Moved
  <2>4. CASE k # j
    <3>1. ~Acking(j)'
      BY <2>1, <2>4 DEF Acking
    <3> QED BY <1>2, <1>3, <2>2, <3>1, ShrinkSame DEF Fewer
  <2> QED BY <2>3, <2>4
<1>7. CASE Refuse(k)
  <2> DEFINE one == <<Up("ack", k, "rejected")>>
             two == <<Up("ack", k, "rejected"), Up("result", k, "failed")>>
  <2>1. SendUp(one) \/ SendUp(two)
    BY <1>7 DEF Refuse
  <2>2. ~Acking(j)'
    BY <1>1, <1>7 DEF Refuse, Acking
  <2>3. /\ one \in Seq(UpMessage) /\ two \in Seq(UpMessage)
        /\ AtMostOne(one, Answers(j)) /\ AtMostOne(two, Answers(j))
        /\ k # j => NotIn(one, Answers(j)) /\ NotIn(two, Answers(j))
    <3>1. /\ Up("ack", k, "rejected") \in UpMessage
          /\ Up("result", k, "failed") \in UpMessage \ Answers(j)
          /\ k # j => Up("ack", k, "rejected") \notin Answers(j)
      BY <1>4 DEF UpType, UpStatus
    <3> QED BY <3>1, SaidNothing, OneMessage
  <2>4. /\ NotIn(Heard, Answers(j)) => AtMostOne(Heard', Answers(j))
        /\ k # j => Shrinks(Heard, Heard', Answers(j))
    <3> HIDE DEF one, two
    <3> QED BY <1>t, <1>1, <2>1, <2>3, HeardSaid
  <2>5. CASE k = j
    BY <1>1, <1>2, <1>7, <2>2, <2>4, <2>5 DEF Taken, Moved
  <2>6. CASE k # j
    BY <1>2, <1>3, <2>2, <2>4, <2>6, ShrinkSame DEF Fewer
  <2> QED BY <2>5, <2>6
<1> QED BY <1>5, <1>6, <1>7

LEMMA TaskPlaces ==
  ASSUME TInv, SessionInv, NEW j \in Jobs, RejectDone \/ Start \/ Finish
  PROVE  Fewer(j)
<1>t. TypeOK
  BY DEF TInv
<1>1. CASE Finish
  <2>1. UNCHANGED <<down, welcomed, queue, conn>> /\ work' = Idle
    BY <1>1 DEF Finish, connVars
  <2>2. PICK entry \in Endings(work.job) : SendUp(<<Up("result", work.job, entry)>>)
    BY <1>1 DEF Finish
  <2>3. Shrinks(Heard, Heard', Answers(j))
    <3>1. entry \in {"succeeded", "failed", "outcome_unknown"}
      BY <2>2, EndingsAre
    <3>2. work.job \in Jobs
      BY <1>1 DEF Finish, TInv, WorkHasJob
    <3>3. Up("result", work.job, entry) \in UpMessage \ Answers(j)
      BY <3>1, <3>2, AnswersAre DEF UpType, UpStatus
    <3>4. /\ <<Up("result", work.job, entry)>> \in Seq(UpMessage)
          /\ NotIn(<<Up("result", work.job, entry)>>, Answers(j))
      BY <3>3, SaidNothing
    <3> QED BY <1>t, <2>1, <2>2, <3>4, HeardSaid
  <2>4. Live' = Live /\ ~Acking(j)'
    BY <2>1, LiveUnread DEF Acking, Idle
  <2> QED BY <2>1, <2>3, <2>4, ShrinkSame DEF Fewer
<1>2. CASE (RejectDone \/ Start) /\ ~LeaveSession
  <2>1. /\ UNCHANGED <<down, welcomed, queue, conn, up>>
        /\ work' = Idle \/ work' = [at |-> "executing", job |-> work.job]
    BY <1>2 DEF RejectDone, Start, connVars
  <2>2. Live' = Live /\ Heard' = Heard /\ ~Acking(j)'
    BY <2>1, LiveUnread, HeardSame DEF Acking, Idle
  <2> QED BY <2>1, <2>2, ShrinkSame DEF Fewer
<1>3. CASE (RejectDone \/ Start) /\ LeaveSession
  BY <1>3, PlacesLeft DEF RejectDone, Start, connVars
<1> QED BY <1>1, <1>2, <1>3

\* Every step takes tokens away, or moves one.
LEMMA PlacesStep ==
  ASSUME TInv, SessionInv, [Next]_vars, NEW j \in Jobs
  PROVE  Fewer(j) \/ Moved(j)
BY GatewayPlaces, ActivatePlaces, HandlerPlaces, SessionPlaces, QuietPlaces, ReceivePlaces,
   WorkerPlaces, TaskPlaces DEF Next

-----------------------------------------------------------------------------
(* What the token tells.                                                    *)

\* The rows nobody may begin.
Barred(j) ==
  \/ state[j] \in {"absent", "queued", "cancelled"}
  \/ state[j] = "failed" /\ cause[j] # "deadline"

\* A command not started is in one place, and in none if its row is barred.
TokenInv ==
  \A j \in Jobs : Unstarted(j) => OneToken(j) /\ (Barred(j) => NoToken(j))

\* A command handed to the Host is in none of the places it could start from.
PendingInv == \A j \in Jobs : runs[j] # 0 => NoCommand(j)

\* What the ledger or the Gateway says was not begun was not.
CancelledInv == \A j \in Jobs : ledger[j] = "cancelled" => runs[j] = 0
UntouchedInv == \A j \in Jobs : state[j] \in {"absent", "queued", "cancelled"} => runs[j] = 0

\* Only reads are rejected in two steps.
RejectingReads == work.at = "rejecting" => work.job \in Observes

\* Why a commit is recorded, or reported, as failed.
FailedInv ==
  \A j \in Commits :
    /\ ledger[j] = "failed" => runs[j] = 0 \/ host[j] = "refused" \/ j \in Unverified
    /\ state[j] = "failed" => \/ cause[j] = "deadline" \/ runs[j] = 0 \/ host[j] = "refused"
                              \/ ledger[j] = "outcome_unknown" \/ j \in Unverified \cup Unproven

OInv == RInv /\ SessionInv /\ TokenInv /\ PendingInv /\ CancelledInv /\ UntouchedInv
             /\ RejectingReads /\ FailedInv /\ HostInv

LEMMA OutcomeInit == Init => OInv
<1> SUFFICES ASSUME Init PROVE OInv
  OBVIOUS
<1>1. Live = <<>> /\ Heard = <<>> /\ queue = <<>> /\ work = Idle
  BY DEF Init, Live, Doomed, Heard
<1>2. \A j \in Jobs : NoToken(j) /\ NoCommand(j) /\ ~Acking(j)
  BY <1>1, ShrinkSame DEF NoToken, NoCommand, Acking, Idle
<1>3. \A j \in Jobs : OneToken(j)
  BY <1>1, <1>2, NoneIsAtMostOne DEF NoToken, OneToken
<1>4. TokenInv /\ PendingInv
  BY <1>2, <1>3 DEF TokenInv, PendingInv
<1>5. CancelledInv /\ UntouchedInv /\ RejectingReads
  BY <1>1 DEF Init, CancelledInv, UntouchedInv, RejectingReads, Idle
<1>6. FailedInv /\ HostInv
  BY DEF Init, FailedInv, HostInv, Jobs, Programs
<1> QED BY <1>4, <1>5, <1>6, RecordInit, SessionInit DEF OInv

LEMMA MovedOnce ==
  ASSUME TypeOK, NEW j \in Jobs, OneToken(j),
         \/ Sent(j) /\ NoToken(j)
         \/ Asked(j) \/ Received(j) \/ Answered(j) \/ Taken(j)
         \/ AskedAgain(j) /\ Head(Heard) \in Answers(j)
  PROVE  OneToken(j)'
<1>l. Live \in Seq(DownMessage) /\ Heard \in Seq(UpMessage) /\ queue \in Seq(Jobs)
  BY LiveType DEF TypeOK
<1>1. CASE Sent(j) /\ NoToken(j)
  <2>1. Down("command", {j}) \in DownMessage
    BY TouchesAre DEF DownType
  <2>2. AtMostOne(Live', Touching(j))
    BY <1>l, <1>1, <2>1, ShrinkAppend DEF Sent, NoToken
  <2>3. Acking(j)' => Acking(j)
    BY <1>1 DEF Sent, Acking
  <2> QED BY <1>1, <2>2, <2>3, NoneIsAtMostOne DEF Sent, NoToken, OneToken
<1>2. CASE Asked(j)
  <2>1. PICK lost \in SUBSET Jobs : Live' = <<Down("welcome", {}), Down("reconcile", lost)>>
    BY <1>2 DEF Asked
  <2>2. AtMostOne(Live', Touching(j))
    <3>1. /\ Down("welcome", {}) \in DownMessage \ Touching(j)
          /\ Down("reconcile", lost) \in DownMessage
      BY TouchesAre DEF DownType
    <3> QED BY <2>1, <3>1 DEF AtMostOne
  <2>3. ~Acking(j)'
    BY <1>2 DEF Asked, Acking
  <2> QED BY <1>2, <2>2, <2>3, ShrinkSame, NoneIsAtMostOne DEF Asked, OneToken
<1>3. CASE Received(j)
  <2>1. Head(Live) \in Touching(j) /\ Live # <<>> /\ Live' = Tail(Live)
    BY <1>3 DEF Received, Commanding, Touching
  <2>2. NotIn(Live', Touching(j)) /\ ~NotIn(Live, Touching(j))
    BY <1>l, <2>1, ShrinkTail DEF OneToken
  <2>3. NotIn(queue, {j}) /\ ~Acking(j) /\ NotIn(Heard, Answers(j))
    BY <2>2 DEF OneToken
  <2>4. ~Acking(j)'
    BY <1>3, <2>3 DEF Received, Acking
  <2>5. AtMostOne(Append(queue, j), {j})
    BY <1>l, <2>3, ShrinkAppend
  <2>6. AtMostOne(Append(Heard, Up("ack", j, "rejected")), Answers(j))
    BY <1>l, <2>3, ShrinkAppend, AnswersAre DEF UpType, UpStatus
  <2> QED BY <1>3, <2>2, <2>3, <2>4, <2>5, <2>6, NoneIsAtMostOne DEF Received, OneToken
<1>4. CASE Answered(j)
  <2>1. NotIn(Live', Touching(j)) /\ ~NotIn(Live, Touching(j))
    BY <1>l, <1>4, ShrinkTail DEF Answered, OneToken
  <2>2. NotIn(queue, {j}) /\ ~Acking(j) /\ NotIn(Heard, Answers(j))
    BY <2>1 DEF OneToken
  <2>3. ~Acking(j)'
    BY <1>4, <2>2 DEF Answered, Acking
  <2>4. AtMostOne(Heard', Answers(j))
    <3>1. ReconcileStatus(ledger[j]) \in UpStatus
      <4>1. ledger[j] \in LedgerState
        BY DEF TypeOK
      <4> QED BY <4>1, ReconcileStatusType DEF ReconcileStatus, LedgerState, LedgerTerminal, UpStatus
    <3>2. Up("reconciled", j, ReconcileStatus(ledger[j])) \in UpMessage
      BY <3>1, AnswersAre DEF UpType
    <3> QED BY <1>l, <1>4, <2>2, <3>2, ShrinkAppend DEF Answered
  <2> QED BY <1>4, <2>1, <2>2, <2>3, <2>4, NoneIsAtMostOne DEF Answered, OneToken
<1>5. CASE Taken(j)
  <2>1. ~NotIn(queue, {j}) /\ NotIn(queue', {j})
    BY <1>l, <1>5, ShrinkTail DEF Taken, OneToken
  <2>2. NotIn(Live, Touching(j)) /\ ~Acking(j) /\ NotIn(Heard, Answers(j))
    BY <2>1 DEF OneToken
  <2>3. IF Acking(j)' THEN NotIn(Heard', Answers(j)) ELSE AtMostOne(Heard', Answers(j))
    BY <1>5, <2>2 DEF Taken, Shrinks
  <2> QED BY <1>5, <2>1, <2>2, <2>3, NoneIsAtMostOne DEF Taken, OneToken
<1>6. CASE AskedAgain(j) /\ Head(Heard) \in Answers(j)
  <2>1. ~NotIn(Heard, Answers(j)) /\ NotIn(Heard', Answers(j))
    BY <1>l, <1>6, ShrinkTail DEF AskedAgain, OneToken
  <2>2. NotIn(Live, Touching(j)) /\ ~Acking(j) /\ NotIn(queue, {j})
    BY <2>1 DEF OneToken
  <2>3. ~Acking(j)'
    BY <1>6, <2>2 DEF AskedAgain, Acking
  <2>4. AtMostOne(Live', Touching(j))
    BY <1>l, <1>6, <2>2, ShrinkAppend, TouchesAre DEF AskedAgain, DownType
  <2> QED BY <1>6, <2>1, <2>2, <2>3, <2>4, NoneIsAtMostOne DEF AskedAgain, OneToken
<1> QED BY <1>1, <1>2, <1>3, <1>4, <1>5, <1>6

LEMMA HeardIsRead ==
  ASSUME TypeOK, NEW s \in Session, conn = s
  PROVE  Heard = up[s] /\ Head(Heard) = Read(s)
BY DEF Heard, Read, Session, NoSession

\* A question asked a second time leaves the row where it was, or to recovery.
LEMMA AskedAgainRow ==
  ASSUME TypeOK, NEW j \in Jobs, NEW s \in Session, HandleAck(s), conn = s, AskedAgain(j)
  PROVE  /\ state'[j] \in {state[j], "reconnect_pending", "outcome_unknown"}
         /\ cause' = cause \/ cause'[j] = cause[j]
<1> DEFINE status == Read(s).status
<1>1. Read(s).job = j /\ status \notin {"accepted", "rejected"}
  BY HeardIsRead DEF AskedAgain
<1>2. Store(s, j, AckTarget(j, status), "agent")
  BY <1>1 DEF HandleAck, Read
<1>3. CASE AckTarget(j, status) = "invalid"
  <2>1. EndHandler(s) /\ cause' = cause
    BY <1>2, <1>3 DEF Store
  <2> QED BY <2>1 DEF EndHandler, Disconnected, Recovery
<1>4. CASE AckTarget(j, status) # "invalid"
  <2>1. AckTarget(j, status) \in {state[j], "reconnect_pending", "outcome_unknown"}
    BY <1>1 DEF AckTarget, Recovery
  <2>2. AckTarget(j, status) \in Terminal => AckTarget(j, status) = state[j]
    BY <2>1 DEF Terminal
  <2>3. /\ state' = [state EXCEPT ![j] = AckTarget(j, status)]
        /\ cause' = [cause EXCEPT ![j] = cause[j]]
    BY <1>2, <1>4, <2>2 DEF Store, Move
  <2> HIDE DEF status
  <2> QED BY <2>1, <2>3 DEF TypeOK
<1> QED BY <1>3, <1>4

\* A move of j's token starts nothing, and takes its row no further.
LEMMA MovedRow ==
  ASSUME TypeOK, NEW j \in Jobs, Moved(j)
  PROVE  /\ runs' = runs
         /\ \/ Sent(j) /\ state[j] = "queued" /\ state'[j] = "dispatched"
            \/ Asked(j)
            \/ (Received(j) \/ Answered(j) \/ Taken(j)) /\ state' = state /\ cause' = cause
            \/ /\ AskedAgain(j) /\ \E s \in Session : conn = s /\ up[s] # <<>>
               /\ state'[j] \in {state[j], "reconnect_pending", "outcome_unknown"}
               /\ cause'[j] = cause[j]
<1> USE DEF hostVars, jobVars
<1>1. CASE DispatchClaimed(j) /\ Sent(j)
  BY <1>1 DEF DispatchClaimed, TypeOK
<1>2. ASSUME NEW s \in Session, Activate(s), Asked(j)
      PROVE  runs' = runs
  BY <1>2 DEF Activate
<1>3. CASE (ReceiveCommand /\ Received(j)) \/ (ReceiveReconcile /\ Answered(j))
  BY <1>3 DEF ReceiveCommand, ReceiveReconcile
<1>4. CASE (Refuse(j) \/ Accept(j)) /\ Taken(j)
  BY <1>4 DEF Refuse, Accept
<1>5. ASSUME NEW s \in Session, HandleAck(s), conn = s, AskedAgain(j)
      PROVE  /\ runs' = runs /\ conn = s /\ up[s] # <<>>
             /\ state'[j] \in {state[j], "reconnect_pending", "outcome_unknown"}
             /\ cause'[j] = cause[j]
  BY <1>5, AskedAgainRow DEF HandleAck, Reading
<1> QED BY <1>1, <1>2, <1>3, <1>4, <1>5 DEF Moved

LEMMA ResultWord ==
  ASSUME NEW j \in Jobs, NEW status \in UpStatus, ResultTarget(j, status) # "invalid"
  PROVE  status \in LedgerTerminal
<1>1. CASE state[j] \in Terminal
  BY <1>1 DEF ResultTarget, UpStatus, LedgerTerminal, Terminal
<1>2. CASE state[j] \notin Terminal
  <2>1. ASSUME NEW w, NEW e, ValidTransition(state[j], status, w, e)
        PROVE  status \notin {"accepted", "rejected", "duplicate", "already_terminal", "not_started", "started"}
    BY <2>1 DEF ValidTransition, Moves
  <2> QED BY <1>2, <2>1 DEF ResultTarget, UpStatus, LedgerTerminal
<1> QED BY <1>1, <1>2

\* A result is stored only of a command the ledger has ended, as it ended.
LEMMA FinalizedWord ==
  ASSUME RInv, NEW s \in Session, Finalized(s), up[s] # <<>>,
         Read(s).job \in Jobs, Read(s).status \in UpStatus
  PROVE  /\ Read(s).status \in LedgerTerminal /\ ledger[Read(s).job] = Read(s).status
         /\ Told(s) \in LedgerTerminal
<1>1. Told(s) \in UpStatus
  BY DEF Told, UpStatus
<1>2. Told(s) \in LedgerTerminal
  BY <1>1, ResultWord DEF Finalized, Takes
<1>3. Read(s).status \in LedgerTerminal
  BY <1>2 DEF Told, LedgerTerminal
<1>4. Vouched(Read(s).status, ledger[Read(s).job])
  BY ReadIsFaithful DEF RInv
<1> QED BY <1>2, <1>3, <1>4 DEF Vouched

LEMMA AckBars ==
  ASSUME NEW j \in Jobs, state[j] \in JobRow, NEW status,
         AckTarget(j, status) \in {"absent", "queued", "cancelled", "failed"}
  PROVE  AckTarget(j, status) = state[j] \/ (status = "rejected" /\ AckTarget(j, status) = "failed")
BY DEF AckTarget, Recovery

LEMMA ReconcileBars ==
  ASSUME NEW j \in Jobs, NEW status,
         ReconcileTarget(j, status) \in {"absent", "queued", "cancelled", "failed"}
  PROVE  status = "not_started" /\ state[j] = "reconnect_pending"
         /\ ReconcileTarget(j, status) \in {"queued", "cancelled"}
BY DEF ReconcileTarget

\* A row whose command was not started is barred only by the word of the Agent.
LEMMA BarredStep ==
  ASSUME RInv, SessionInv, [Next]_vars, NEW j \in Jobs, Unstarted(j), ~Barred(j), Barred(j)'
  PROVE  Heard # <<>> /\ Head(Heard) \in Answers(j) /\ Heard' = Tail(Heard)
<1>t. TypeOK
  BY DEF RInv, LInv, TInv
<1> USE DEF Barred
<1>1. ASSUME NEW k \in Jobs, NEW target, state' = [state EXCEPT ![k] = target],
             \A i \in Jobs : i # k => cause'[i] = cause[i]
      PROVE  k = j
  BY <1>1, <1>t DEF TypeOK
<1>2. CASE UNCHANGED <<state, cause, lock>>
  BY <1>2
<1>3. CASE state' = Disconnected(state) /\ cause' = cause
  BY <1>3 DEF Disconnected, Recovery
<1>4. ASSUME NEW k \in Jobs, Create(k) \/ DispatchOffline(k) \/ DispatchClaimed(k) \/ DispatchRefused(k)
      PROVE  FALSE
  <2>1. k = j
    BY <1>1, <1>4, <1>t DEF Create, DispatchOffline, DispatchClaimed, DispatchRefused, Move, TypeOK
  <2> QED BY <1>4, <2>1, <1>t DEF Create, DispatchOffline, DispatchClaimed, DispatchRefused, TypeOK
<1>5. ASSUME NEW k \in Jobs, Sweep(k) PROVE FALSE
  BY <1>5, <1>t DEF Sweep, Move, TypeOK
<1>6. ASSUME NEW k \in Jobs, Cancel(k) PROVE FALSE
  BY <1>6, <1>t DEF Cancel, Move, CancelTarget, TypeOK, Terminal
<1>7. ASSUME NEW s \in Session, Activate(s) PROVE FALSE
  BY <1>7, <1>t DEF Activate, Recovery
<1>8. ASSUME NEW s \in Session, HandlerEnds(s)
      PROVE  Heard # <<>> /\ Head(Heard) \in Answers(j) /\ Heard' = Tail(Heard)
  <2>1. UNCHANGED <<cause, lock>> /\ (UNCHANGED state \/ state' = Disconnected(state))
    BY <1>8 DEF HandlerEnds, EndHandler
  <2> QED BY <1>2, <1>3, <2>1
<1>9. CASE SendFails \/ MarkStale \/ GatewayRestart
  BY <1>3, <1>9 DEF SendFails, MarkStale, GatewayRestart
<1>10. ASSUME NEW s \in Session, HandleAck(s) \/ HandleResult(s) \/ HandleReconcileResult(s)
       PROVE  Heard # <<>> /\ Head(Heard) \in Answers(j) /\ Heard' = Tail(Heard)
  <2> DEFINE k == Read(s).job
             status == Read(s).status
  <2>1. /\ conn = s /\ up[s] # <<>> /\ Read(s) \in UpMessage /\ k \in Jobs /\ status \in UpStatus
        /\ \/ EndHandler(s) /\ UNCHANGED <<cause, lock>>
           \/ UNCHANGED <<state, cause, lock, connVars>>
           \/ Acked(s) \/ Finalized(s) \/ Reconciled(s)
    BY <1>t, <1>10, HandlerCases
  <2>2. CASE EndHandler(s) /\ UNCHANGED <<cause, lock>>
    BY <2>2, <1>2, <1>3 DEF EndHandler
  <2>3. CASE UNCHANGED <<state, cause, lock, connVars>>
    BY <2>3, <1>2
  <2>4. ASSUME NEW target, NEW word, Takes(s, target, word)
        PROVE  /\ k = j /\ target \in {"absent", "queued", "cancelled", "failed"} /\ target # state[j]
               /\ Heard # <<>> /\ Heard' = Tail(Heard) /\ Head(Heard) = Read(s)
    <3>1. \A i \in Jobs : /\ state'[i] = IF i = k THEN target ELSE state[i]
                          /\ cause'[i] = IF i = k /\ target \in Terminal /\ state[i] \notin Terminal
                                         THEN word ELSE cause[i]
      BY <1>t, <2>1, <2>4, TakesRow
    <3>2. k = j /\ target \in {"absent", "queued", "cancelled", "failed"} /\ target # state[j]
      <4> HIDE DEF k
      <4> QED BY <3>1 DEF Terminal
    <3>3. Heard = up[s] /\ Heard' = Tail(Heard)
      BY <1>t, <2>1, <2>4, HeardTaken DEF Takes, connVars
    <3> QED BY <3>2, <3>3, <2>1 DEF Read
  <2>5. status \in {"rejected", "not_started"} /\ k = j => Read(s) \in Answers(j)
    BY <2>1 DEF Answers
  <2>6. CASE Acked(s)
    <3>1. state[j] \in JobRow
      BY <1>t DEF TypeOK, JobRow
    <3> QED BY <2>4, <2>5, <2>6, <3>1, AckBars DEF Acked
  <2>7. CASE Finalized(s)
    BY <2>1, <2>4, <2>7, FinalizedWord DEF Finalized, Unstarted, LedgerTerminal
  <2>8. CASE Reconciled(s)
    BY <2>4, <2>5, <2>8, ReconcileBars DEF Reconciled
  <2> QED BY <2>1, <2>2, <2>3, <2>6, <2>7, <2>8
<1> QED BY <1>2, <1>4, <1>5, <1>6, <1>7, <1>8, <1>9, <1>10, RowSteps

-----------------------------------------------------------------------------
(* The invariant is inductive. *)

LEMMA TokenStep == OInv /\ [Next]_vars => TokenInv'
<1> SUFFICES ASSUME OInv, [Next]_vars, NEW j \in Jobs, Unstarted(j)'
             PROVE  OneToken(j)' /\ (Barred(j)' => NoToken(j)')
  BY DEF TokenInv
<1>i. RInv /\ LInv /\ TInv /\ TypeOK /\ SessionInv /\ TokenInv /\ WireFaithful
  BY DEF OInv, RInv, LInv, TInv
<1>1. Unstarted(j)
  <2>1. ledger[j] \in LedgerState /\ ledger'[j] \in LedgerState /\ Grows(ledger[j], ledger'[j])
    BY <1>i, LedgerStep DEF LInv, TInv, TypeOK
  <2> QED BY <2>1, GrownEntry DEF Unstarted, LedgerState, LedgerTerminal
<1>2. OneToken(j) /\ (Barred(j) => NoToken(j))
  BY <1>i, <1>1 DEF TokenInv
<1>l. Heard \in Seq(UpMessage) /\ Live \in Seq(DownMessage) /\ queue \in Seq(Jobs)
  BY <1>i, LiveType DEF TypeOK
<1>b. ASSUME ~Barred(j), Barred(j)'
      PROVE  /\ Heard # <<>> /\ Head(Heard) \in Answers(j) /\ Heard' = Tail(Heard)
             /\ NotIn(Live, Touching(j)) /\ NotIn(queue, {j}) /\ ~Acking(j) /\ NotIn(Heard', Answers(j))
  <2>1. Heard # <<>> /\ Head(Heard) \in Answers(j) /\ Heard' = Tail(Heard)
    BY <1>i, <1>1, <1>b, BarredStep
  <2>2. ~NotIn(Heard, Answers(j)) /\ NotIn(Heard', Answers(j))
    BY <1>2, <1>l, <2>1, ShrinkTail DEF OneToken
  <2> QED BY <1>2, <2>1, <2>2 DEF OneToken
<1>3. CASE Fewer(j)
  <2>1. OneToken(j)' /\ (NoToken(j) => NoToken(j)')
    BY <1>2, <1>3, FewerKeeps
  <2>2. ~Barred(j) /\ Barred(j)' => NoToken(j)'
    BY <1>3, <1>b DEF Fewer, Shrinks, NoToken
  <2> QED BY <1>2, <2>1, <2>2
<1>4. CASE Moved(j)
  <2>1. CASE Sent(j) /\ state[j] = "queued" /\ state'[j] = "dispatched"
    BY <1>i, <1>2, <2>1, MovedOnce DEF Barred
  <2>2. CASE Asked(j)
    BY <1>i, <1>2, <2>2, MovedOnce DEF Barred, Asked
  <2>3. CASE (Received(j) \/ Answered(j) \/ Taken(j)) /\ state' = state /\ cause' = cause
    <3>1. ~NoToken(j)
      <4>1. Received(j) \/ Answered(j) => ~NotIn(Live, Touching(j))
        BY <1>l, ShrinkTail DEF Received, Answered, Commanding, Touching
      <4>2. Taken(j) => ~NotIn(queue, {j})
        BY <1>l, ShrinkTail DEF Taken
      <4> QED BY <2>3, <4>1, <4>2 DEF NoToken
    <3>2. ~Barred(j)'
      BY <1>2, <2>3, <3>1 DEF Barred
    <3> QED BY <1>i, <1>2, <2>3, <3>2, MovedOnce
  <2>4. CASE /\ AskedAgain(j) /\ \E s \in Session : conn = s /\ up[s] # <<>>
             /\ state'[j] \in {state[j], "reconnect_pending", "outcome_unknown"}
             /\ cause'[j] = cause[j]
    <3>1. Head(Heard) \in Answers(j)
      <4>1. PICK s \in Session : conn = s /\ up[s] # <<>>
        BY <2>4
      <4>2. Heard = up[s] /\ Head(Heard) = Read(s)
        BY <1>i, <4>1, HeardIsRead
      <4>3. Head(Heard) \in UpMessage
        BY <1>l, <4>1, <4>2, TailOfSeq
      <4>4. Vouched(Head(Heard).status, ledger[j])
        BY <1>i, <2>4, <4>1, <4>2, ReadIsFaithful DEF AskedAgain
      <4>5. Head(Heard).status = "not_started"
        BY <1>1, <2>4, <4>3, <4>4 DEF AskedAgain, Vouched, Unstarted, UpMessage, UpStatus, LedgerTerminal
      <4> QED BY <2>4, <4>3, <4>5 DEF AskedAgain, Answers
    <3>2. ~NotIn(Heard, Answers(j))
      BY <1>l, <2>4, <3>1, ShrinkTail DEF AskedAgain
    <3>3. ~Barred(j)'
      BY <1>2, <2>4, <3>2 DEF Barred, NoToken
    <3> QED BY <1>i, <1>2, <2>4, <3>1, <3>3, MovedOnce
  <2> QED BY <1>i, <1>4, <2>1, <2>2, <2>3, <2>4, MovedRow
<1> QED BY <1>i, <1>3, <1>4, PlacesStep

\* What is handed to the Host, and when.
LEMMA RunsStep ==
  ASSUME OInv, [Next]_vars, NEW j \in Jobs, runs'[j] # runs[j]
  PROVE  /\ Start /\ Acking(j) /\ ~Acking(j)' /\ Unstarted(j) /\ ~Barred(j)
         /\ ledger'[j] = "started" /\ NoCommand(j)'
         /\ UNCHANGED <<jobVars, connVars, sending, up>>
<1>i. TInv /\ TypeOK /\ SessionInv /\ TokenInv /\ WorkHasJob /\ WorkInv
  BY DEF OInv, RInv, LInv, TInv
<1>1. Start
  <2>1. ASSUME NEW k \in Jobs, HostEnds(k) PROVE runs' = runs
    BY <2>1 DEF HostEnds
  <2> QED BY <2>1, HostSteps DEF hostVars
<1>2. /\ CanMove(ledger[work.job], "started") /\ work.at = "acking"
      /\ runs' = [runs EXCEPT ![work.job] = @ + 1]
      /\ work' = [at |-> "executing", job |-> work.job]
      /\ Record(work.job, "started")
      /\ UNCHANGED <<jobVars, connVars, sending, up>>
  BY <1>1 DEF Start, Resume, hostVars
<1>3. work.job = j /\ Acking(j) /\ ~Acking(j)'
  BY <1>i, <1>2 DEF TypeOK, WorkHasJob, Acking
<1>4. Unstarted(j)
  <2>1. ledger[j] \in LedgerState /\ ledger[j] # "started"
    BY <1>i, <1>2, <1>3 DEF TypeOK, WorkInv
  <2> QED BY <1>2, <1>3, <2>1 DEF CanMove, Unstarted, LedgerState
<1>5. OneToken(j) /\ ~Barred(j)
  BY <1>i, <1>3, <1>4 DEF TokenInv, NoToken
<1>6. NotIn(Live, Touching(j)) /\ NotIn(queue, {j}) /\ NotIn(Heard, Answers(j))
  BY <1>3, <1>5 DEF OneToken
<1>7. NoCommand(j)'
  <2>1. Fewer(j)
    BY <1>1, <1>i, TaskPlaces
  <2> QED BY <1>3, <1>6, <2>1, CommandsTouch DEF Fewer, Shrinks, NoCommand
<1>8. ledger'[j] = "started"
  BY <1>i, <1>2, <1>3 DEF Record, TypeOK
<1> QED BY <1>1, <1>2, <1>3, <1>4, <1>5, <1>7, <1>8

LEMMA PendingStep == OInv /\ [Next]_vars => PendingInv'
<1> SUFFICES ASSUME OInv, [Next]_vars, NEW j \in Jobs, runs'[j] # 0 PROVE NoCommand(j)'
  BY DEF PendingInv
<1>i. RInv /\ LInv /\ TInv /\ TypeOK /\ SessionInv /\ PendingInv /\ UntouchedInv /\ RunsInv
  BY DEF OInv, RInv, LInv, TInv
<1>l. Heard \in Seq(UpMessage) /\ Live \in Seq(DownMessage) /\ queue \in Seq(Jobs)
  BY <1>i, LiveType DEF TypeOK
<1>1. CASE runs'[j] # runs[j]
  BY <1>1, RunsStep
<1>2. CASE runs'[j] = runs[j]
  <2>1. NoCommand(j)
    BY <1>i, <1>2 DEF PendingInv
  <2>2. CASE Fewer(j)
    BY <2>1, <2>2, FewerKeeps
  <2>3. CASE Asked(j)
    <3>1. PICK lost \in SUBSET Jobs : Live' = <<Down("welcome", {}), Down("reconcile", lost)>>
      BY <2>3 DEF Asked
    <3>2. NotIn(Live', Commanding(j))
      <4>1. /\ Down("welcome", {}) \in DownMessage \ Commanding(j)
            /\ Down("reconcile", lost) \in DownMessage \ Commanding(j)
        BY TouchesAre DEF DownType
      <4> QED BY <3>1, <4>1, SaidNothing
    <3>3. ~Acking(j)'
      BY <2>3 DEF Asked, Acking
    <3> QED BY <2>1, <2>3, <3>2, <3>3 DEF Asked, NoCommand
  <2>4. CASE Answered(j)
    <3>1. Up("reconciled", j, ReconcileStatus(ledger[j])) \in UpMessage \ Answers(j)
      <4>1. ledger[j] \in {"started"} \cup LedgerTerminal
        BY <1>i, <1>2 DEF RunsInv
      <4>2. ReconcileStatus(ledger[j]) \in {"started"} \cup LedgerTerminal
        BY <4>1 DEF ReconcileStatus, LedgerTerminal
      <4> QED BY <4>2, AnswersAre DEF UpType, UpStatus, LedgerTerminal
    <3>2. NotIn(Heard', Answers(j))
      BY <1>l, <2>1, <2>4, <3>1, ShrinkAppend DEF Answered, NoCommand, Shrinks
    <3>3. ~Acking(j)'
      BY <2>1, <2>4 DEF Answered, Acking, NoCommand
    <3> QED BY <2>1, <2>4, <3>2, <3>3 DEF Answered, NoCommand, Shrinks
  <2>5. CASE AskedAgain(j)
    <3>1. NotIn(Live', Commanding(j))
      BY <1>l, <2>1, <2>5, ShrinkAppend, TouchesAre DEF AskedAgain, NoCommand, Shrinks, DownType
    <3>2. NotIn(Heard', Answers(j))
      BY <1>l, <2>1, <2>5, ShrinkTail DEF AskedAgain, NoCommand, Shrinks
    <3>3. ~Acking(j)'
      BY <2>1, <2>5 DEF AskedAgain, Acking, NoCommand
    <3> QED BY <2>1, <2>5, <3>1, <3>2, <3>3 DEF AskedAgain, NoCommand
  <2>6. CASE Received(j)
    BY <1>l, <2>1, <2>6, ShrinkTail DEF Received, NoCommand
  <2>7. CASE Taken(j)
    BY <1>l, <2>1, <2>7, ShrinkTail DEF Taken, NoCommand
  <2>8. CASE state[j] = "queued"
    BY <1>i, <1>2, <2>8 DEF UntouchedInv
  <2> QED BY <1>i, <2>2, <2>3, <2>4, <2>5, <2>6, <2>7, <2>8, PlacesStep, MovedRow
<1> QED BY <1>1, <1>2

LEMMA RejectingStep == OInv /\ [Next]_vars => RejectingReads'
<1> SUFFICES ASSUME OInv, [Next]_vars PROVE RejectingReads'
  OBVIOUS
<1>1. RejectingReads
  BY DEF OInv
<1>2. ASSUME NEW k \in Jobs, Refuse(k) \/ Accept(k) PROVE RejectingReads'
  <2>1. \/ work' = [at |-> "rejecting", job |-> k] /\ k \in Observes
        \/ work' = work \/ work' = [at |-> "acking", job |-> k]
    BY <1>2 DEF Refuse, Accept
  <2> QED BY <1>1, <2>1 DEF RejectingReads
<1>3. CASE ReceiveCancel \/ RejectDone \/ Start \/ Finish \/ AgentRestart
  <2>1. \/ work' = work \/ work' = Idle
        \/ work' = [at |-> "executing", job |-> work.job]
    BY <1>3 DEF ReceiveCancel, RejectDone, Start, Finish, AgentRestart, LeaveSession
  <2> QED BY <1>1, <2>1 DEF RejectingReads, Idle
<1>4. CASE UNCHANGED work \/ work' = Idle
  BY <1>1, <1>4 DEF RejectingReads, Idle
<1> QED BY <1>2, <1>3, <1>4, LedgerSteps

LEMMA CancelledStep == OInv /\ [Next]_vars => CancelledInv'
<1> SUFFICES ASSUME OInv, [Next]_vars, NEW j \in Jobs, ledger'[j] = "cancelled" PROVE runs'[j] = 0
  BY DEF CancelledInv
<1>i. LInv /\ TypeOK /\ RunsInv /\ CancelledInv /\ WorkHasJob /\ RejectingReads
  BY DEF OInv, RInv, LInv, TInv
<1>1. runs'[j] = runs[j]
  BY RunsStep
<1>2. CASE ledger[j] = "cancelled"
  BY <1>i, <1>1, <1>2 DEF CancelledInv
<1>3. CASE ledger[j] # "cancelled"
  <2>1. ASSUME NEW k \in Jobs, NEW entry, Record(k, entry) PROVE k = j /\ entry = "cancelled"
    BY <1>3, <1>i, <2>1 DEF Record, TypeOK
  <2>2. ASSUME NEW k \in Jobs, Refuse(k) \/ Accept(k) PROVE FALSE
    <3>1. \E entry \in {"received", ledger[k], "failed", "accepted"} : Record(k, entry)
      BY <2>2 DEF Refuse, Accept
    <3> QED BY <1>3, <2>1, <3>1
  <2>3. CASE RejectDone \/ Start \/ Finish
    <3>1. work.job \in Jobs
      BY <1>i, <2>3 DEF RejectDone, Start, Finish, WorkHasJob
    <3>2. RejectDone \/ Start =>
            \/ ledger' = ledger \/ Record(work.job, "failed") \/ Record(work.job, "started")
      BY DEF RejectDone, Start, Resume
    <3>3. Finish => \E entry : Record(work.job, entry) /\ entry # "cancelled"
      BY EndingsAre DEF Finish
    <3> QED BY <1>3, <2>1, <2>3, <3>1, <3>2, <3>3
  <2>4. CASE AgentRestart
    BY <1>3, <2>4 DEF AgentRestart, Recovered
  <2>5. CASE ReceiveCancel
    <3>1. PICK k \in Head(down).jobs :
            IF ledger[k] \in {"received", "accepted"} THEN Record(k, "cancelled") ELSE UNCHANGED ledger
      BY <2>5 DEF ReceiveCancel
    <3>2. k \in Jobs
      <4>1. Head(down) \in DownMessage
        BY <1>i, <2>5, TailOfSeq DEF ReceiveCancel, Receiving, TypeOK
      <4> QED BY <3>1, <4>1 DEF DownMessage
    <3>3. ledger[j] \in {"received", "accepted"}
      BY <1>3, <2>1, <3>1, <3>2
    <3> QED BY <1>i, <1>1, <3>3 DEF RunsInv, LedgerTerminal
  <2> QED BY <1>3, <2>2, <2>3, <2>4, <2>5, LedgerSteps
<1> QED BY <1>2, <1>3

\* How a row comes to be one nobody may have begun.
LEMMA UntouchedStep == OInv /\ [Next]_vars => UntouchedInv'
<1> SUFFICES ASSUME OInv, [Next]_vars, NEW j \in Jobs, state'[j] \in {"absent", "queued", "cancelled"}
             PROVE  runs'[j] = 0
  BY DEF UntouchedInv
<1>i. RInv /\ TypeOK /\ UntouchedInv /\ PendingInv /\ CancelledInv
  BY DEF OInv, RInv, LInv, TInv
<1> DEFINE Fresh == {"absent", "queued", "cancelled"}
<1>k. ASSUME state[j] \in Fresh PROVE runs'[j] = 0
  <2>1. runs'[j] = runs[j]
    BY <1>k, RunsStep DEF Barred
  <2> QED BY <1>i, <1>k, <2>1 DEF UntouchedInv
<1>1. CASE UNCHANGED state \/ state' = Disconnected(state)
  <2>1. state[j] \in Fresh
    BY <1>1 DEF Disconnected, Recovery
  <2> QED BY <2>1, <1>k
<1>2. ASSUME NEW k \in Jobs, NEW target, state' = [state EXCEPT ![k] = target],
             target \in Fresh => state[k] \in Fresh
      PROVE  runs'[j] = 0
  <2>1. state[j] \in Fresh
    BY <1>2, <1>i DEF TypeOK
  <2> QED BY <2>1, <1>k
<1>3. ASSUME NEW k \in Jobs, \/ Create(k) \/ DispatchOffline(k) \/ DispatchClaimed(k)
                             \/ DispatchRefused(k) \/ Sweep(k) \/ Cancel(k)
      PROVE  runs'[j] = 0
  <2>1. \E target : state' = [state EXCEPT ![k] = target] /\ (target \in Fresh => state[k] \in Fresh)
    BY <1>3 DEF Create, DispatchOffline, DispatchClaimed, DispatchRefused, Sweep, Cancel, Move, CancelTarget
  <2> QED BY <1>2, <2>1
<1>4. ASSUME NEW s \in Session, Activate(s) PROVE runs'[j] = 0
  <2>1. state[j] \in Fresh
    BY <1>4 DEF Activate, Recovery
  <2> QED BY <2>1, <1>k
<1>5. ASSUME NEW s \in Session, HandlerEnds(s) PROVE runs'[j] = 0
  BY <1>1, <1>5 DEF HandlerEnds, EndHandler
<1>6. CASE SendFails \/ MarkStale \/ GatewayRestart
  BY <1>1, <1>6 DEF SendFails, MarkStale, GatewayRestart
<1>7. ASSUME NEW s \in Session, HandleAck(s) \/ HandleResult(s) \/ HandleReconcileResult(s)
      PROVE  runs'[j] = 0
  <2> DEFINE k == Read(s).job
             status == Read(s).status
  <2>1. /\ conn = s /\ up[s] # <<>> /\ Read(s) \in UpMessage /\ k \in Jobs /\ status \in UpStatus
        /\ UNCHANGED hostVars
        /\ \/ EndHandler(s) /\ UNCHANGED <<cause, lock>>
           \/ UNCHANGED <<state, cause, lock, connVars>>
           \/ Acked(s) \/ Finalized(s) \/ Reconciled(s)
    BY <1>i, <1>7, HandlerCases
  <2>2. CASE EndHandler(s) \/ UNCHANGED state
    BY <2>2, <1>1 DEF EndHandler
  <2>3. ASSUME NEW target, NEW word, Takes(s, target, word), target \in Fresh => state[k] \in Fresh
        PROVE  runs'[j] = 0
    <3>1. \A i \in Jobs : state'[i] = IF i = k THEN target ELSE state[i]
      BY <1>i, <2>1, <2>3, TakesRow
    <3> HIDE DEF k
    <3> QED BY <1>k, <2>3, <3>1
  <2>4. CASE Acked(s)
    <3>1. state[k] \in JobRow
      BY <1>i, <2>1 DEF TypeOK, JobRow
    <3>2. AckTarget(k, status) \in Fresh => state[k] \in Fresh
      BY <2>1, <3>1, AckBars
    <3> QED BY <2>3, <2>4, <3>2 DEF Acked
  <2>5. ASSUME NEW target, NEW word, Takes(s, target, word), runs[k] = 0
        PROVE  runs'[j] = 0
    <3>1. \A i \in Jobs : state'[i] = IF i = k THEN target ELSE state[i]
      BY <1>i, <2>1, <2>5, TakesRow
    <3>2. runs' = runs
      BY <2>1 DEF hostVars
    <3> HIDE DEF k
    <3> QED BY <1>k, <2>5, <3>1, <3>2
  <2>6. CASE Finalized(s)
    <3>1. status \in LedgerTerminal /\ ledger[k] = status /\ Told(s) \in LedgerTerminal
      BY <1>i, <2>1, <2>6, FinalizedWord
    <3>2. ResultTarget(k, Told(s)) \in Fresh => state[k] \in Fresh \/ Told(s) = "cancelled"
      BY <3>1 DEF ResultTarget, LedgerTerminal
    <3>3. Told(s) = "cancelled" => runs[k] = 0
      BY <1>i, <2>1, <3>1 DEF Told, CancelledInv
    <3> QED BY <2>3, <2>5, <2>6, <3>2, <3>3 DEF Finalized
  <2>7. CASE Reconciled(s)
    <3>1. ReconcileTarget(k, status) \in Fresh => runs[k] = 0
      <4>1. SUFFICES ASSUME status = "not_started" PROVE runs[k] = 0
        BY <2>1, ReconcileBars
      <4>2. Heard = up[s] /\ Head(Heard) = Read(s) /\ Heard \in Seq(UpMessage)
        BY <1>i, <2>1, HeardIsRead, LiveType
      <4>3. Head(Heard) \in Answers(k)
        BY <2>1, <4>1, <4>2 DEF Answers
      <4>4. ~NotIn(Heard, Answers(k))
        BY <2>1, <4>2, <4>3, ShrinkTail
      <4> QED BY <1>i, <2>1, <4>4 DEF PendingInv, NoCommand
    <3> QED BY <2>3, <2>5, <2>7, <3>1 DEF Reconciled
  <2> QED BY <2>1, <2>2, <2>4, <2>6, <2>7
<1> QED BY <1>1, <1>3, <1>4, <1>5, <1>6, <1>7, RowSteps

\* How the Agent comes to record a commit as failed.
LEMMA FailedEntryStep ==
  ASSUME OInv, [Next]_vars, NEW j \in Commits, ledger'[j] = "failed"
  PROVE  runs'[j] = 0 \/ host'[j] = "refused" \/ j \in Unverified
<1> USE DEF hostVars
<1>i. LInv /\ TypeOK /\ RunsInv /\ WorkHasJob /\ RejectingReads /\ FailedInv
  BY DEF OInv, RInv, LInv, TInv
<1>j. j \in Jobs /\ j \notin Observes
  BY KindsDisjoint DEF Jobs, Programs
<1>1. runs'[j] = runs[j]
  BY <1>j, RunsStep
<1>2. host[j] = "refused" => host'[j] = "refused"
  <2>1. ASSUME NEW k \in Jobs, HostEnds(k) PROVE host[j] = "refused" => host'[j] = "refused"
    BY <1>i, <1>j, <2>1 DEF HostEnds, TypeOK
  <2>2. Start /\ host[j] = "refused" => host'[j] = "refused"
    <3> SUFFICES ASSUME Start, host[j] = "refused" PROVE host'[j] = "refused"
      OBVIOUS
    <3>1. CASE UNCHANGED hostVars
      BY <3>1
    <3>2. CASE ~UNCHANGED hostVars
      <4>1. host' = [host EXCEPT ![work.job] = "running"] /\ runs' = [runs EXCEPT ![work.job] = @ + 1]
        BY <3>2 DEF Start
      <4>2. work.job # j
        BY <1>1, <1>i, <1>j, <4>1 DEF TypeOK
      <4> QED BY <1>i, <1>j, <4>1, <4>2 DEF TypeOK
    <3> QED BY <3>1, <3>2
  <2> QED BY <2>1, <2>2, HostSteps
<1>3. CASE ledger[j] = "failed"
  BY <1>i, <1>1, <1>2, <1>3 DEF FailedInv
<1>4. CASE ledger[j] # "failed"
  <2>1. ASSUME NEW k \in Jobs, NEW entry, Record(k, entry) PROVE k = j /\ entry = "failed"
    BY <1>4, <1>i, <2>1 DEF Record, TypeOK
  <2>2. ASSUME NEW k \in Jobs, Refuse(k) \/ Accept(k) PROVE runs[j] = 0
    <3>1. \E entry : Record(k, entry)
      BY <2>2 DEF Refuse, Accept
    <3>2. ledger[k] \in {"none", "received", "accepted"}
      BY <2>2 DEF Refuse, Accept
    <3> QED BY <1>i, <2>1, <3>1, <3>2 DEF RunsInv, LedgerTerminal
  <2>3. ASSUME RejectDone PROVE FALSE
    <3>1. work.job \in Jobs /\ work.job \in Observes
      BY <1>i, <2>3 DEF RejectDone, WorkHasJob, RejectingReads
    <3>2. ledger' = ledger \/ Record(work.job, "failed")
      BY <2>3 DEF RejectDone, Resume
    <3> QED BY <1>j, <1>4, <2>1, <3>1, <3>2
  <2>4. ASSUME Start PROVE FALSE
    <3>1. work.job \in Jobs
      BY <1>i, <2>4 DEF Start, WorkHasJob
    <3>2. ledger' = ledger \/ Record(work.job, "started")
      BY <2>4 DEF Start, Resume
    <3> QED BY <1>4, <2>1, <3>1, <3>2
  <2>5. CASE Finish
    <3>1. work.job \in Jobs
      BY <1>i, <2>5 DEF Finish, WorkHasJob
    <3>2. PICK entry \in Endings(work.job) : Record(work.job, entry)
      BY <2>5 DEF Finish
    <3>3. work.job = j /\ "failed" \in Endings(j)
      BY <2>1, <3>1, <3>2
    <3>4. host[j] = "refused" \/ j \in Unverified
      BY <3>3 DEF Endings
    <3> QED BY <1>2, <3>4
  <2>6. CASE AgentRestart
    BY <1>j, <1>4, <2>6, KindsDisjoint DEF AgentRestart, Recovered
  <2>7. CASE ReceiveCancel
    <3>1. PICK k \in Head(down).jobs :
            IF ledger[k] \in {"received", "accepted"} THEN Record(k, "cancelled") ELSE UNCHANGED ledger
      BY <2>7 DEF ReceiveCancel
    <3>2. k \in Jobs
      <4>1. Head(down) \in DownMessage
        BY <1>i, <2>7, TailOfSeq DEF ReceiveCancel, Receiving, TypeOK
      <4> QED BY <3>1, <4>1 DEF DownMessage
    <3> QED BY <1>4, <2>1, <3>1, <3>2
  <2> QED BY <1>1, <1>4, <2>2, <2>3, <2>4, <2>5, <2>6, <2>7, LedgerSteps
<1> QED BY <1>3, <1>4

\* How the Gateway comes to report a commit as failed.
FailedRow(j) ==
  \/ cause[j] = "deadline" \/ runs[j] = 0 \/ host[j] = "refused"
  \/ ledger[j] = "outcome_unknown" \/ j \in Unverified \cup Unproven

LEMMA FailedRowStep ==
  ASSUME OInv, [Next]_vars, NEW j \in Commits, state'[j] = "failed"
  PROVE  FailedRow(j)'
<1> USE DEF hostVars
<1>i. RInv /\ LInv /\ TypeOK /\ FailedInv /\ TokenInv /\ PendingInv /\ UntouchedInv
  BY DEF OInv, RInv, LInv, TInv
<1>j. j \in Jobs
  BY DEF Jobs, Programs
<1>u. ledger[j] = "outcome_unknown" => ledger'[j] = "outcome_unknown"
  BY <1>i, <1>j, LedgerStep DEF Grows, LedgerTerminal
<1>h. ASSUME runs'[j] = runs[j], host[j] = "refused" PROVE host'[j] = "refused"
  <2>1. ASSUME NEW k \in Jobs, HostEnds(k) PROVE host'[j] = "refused"
    BY <1>i, <1>j, <1>h, <2>1 DEF HostEnds, TypeOK
  <2>2. ASSUME Start, ~UNCHANGED hostVars PROVE host'[j] = "refused"
    <3>1. host' = [host EXCEPT ![work.job] = "running"] /\ runs' = [runs EXCEPT ![work.job] = @ + 1]
      BY <2>2 DEF Start
    <3>2. work.job # j
      BY <1>h, <1>i, <1>j, <3>1 DEF TypeOK
    <3> QED BY <1>i, <1>j, <1>h, <3>1, <3>2 DEF TypeOK
  <2> QED BY <1>h, <2>1, <2>2, HostSteps
\* What explained a failure still does.
<1>k. ASSUME FailedRow(j), cause'[j] = cause[j] \/ cause'[j] = "deadline", runs'[j] = runs[j]
      PROVE  FailedRow(j)'
  BY <1>k, <1>u, <1>h DEF FailedRow
<1>1. CASE runs'[j] # runs[j]
  <2>1. state'[j] = state[j] /\ cause'[j] = cause[j] /\ ~Barred(j)
    BY <1>1, <1>j, RunsStep DEF jobVars
  <2> QED BY <2>1 DEF Barred, FailedRow
<1>2. CASE runs'[j] = runs[j] /\ state[j] = "failed"
  <2>1. cause'[j] = cause[j]
    <3>1. CASE UNCHANGED cause
      BY <3>1
    <3>2. ASSUME NEW k \in Jobs, Cancel(k) \/ Sweep(k) \/ DispatchRefused(k) PROVE cause'[j] = cause[j]
      <4>1. k # j
        BY <1>2, <3>2 DEF Cancel, Sweep, DispatchRefused, Terminal
      <4> QED BY <1>i, <1>j, <3>2, <4>1 DEF Cancel, Sweep, DispatchRefused, Move, TypeOK
    <3>3. ASSUME NEW s \in Session, HandleAck(s) \/ HandleResult(s) \/ HandleReconcileResult(s)
          PROVE  cause'[j] = cause[j]
      <4>1. /\ Read(s).job \in Jobs
            /\ UNCHANGED cause \/ \E target, word : Takes(s, target, word)
        BY <1>i, <3>3, HandlerCases DEF Acked, Finalized, Reconciled
      <4> QED BY <1>i, <1>j, <1>2, <4>1, TakesRow DEF Terminal
    <3>4. ASSUME NEW k \in Jobs, Create(k) \/ DispatchOffline(k) \/ DispatchClaimed(k) PROVE UNCHANGED cause
      BY <3>4 DEF Create, DispatchOffline, DispatchClaimed
    <3>5. ASSUME NEW s \in Session, Activate(s) \/ HandlerEnds(s) PROVE UNCHANGED cause
      BY <3>5 DEF Activate, HandlerEnds
    <3>6. SendFails \/ MarkStale \/ GatewayRestart => UNCHANGED cause
      BY DEF SendFails, MarkStale, GatewayRestart
    <3> QED BY <3>1, <3>2, <3>3, <3>4, <3>5, <3>6, RowSteps
  <2>2. FailedRow(j)
    BY <1>i, <1>2 DEF FailedInv, FailedRow
  <2> QED BY <1>2, <1>k, <2>1, <2>2
<1>3. CASE runs'[j] = runs[j] /\ state[j] # "failed"
  <2>1. CASE UNCHANGED state \/ state' = Disconnected(state)
    BY <1>3, <1>j, <2>1 DEF Disconnected, Recovery
  <2>2. ASSUME NEW k \in Jobs, NEW target, state' = [state EXCEPT ![k] = target]
        PROVE  k = j /\ target = "failed"
    BY <1>3, <1>i, <1>j, <2>2 DEF TypeOK
  <2>3. ASSUME NEW k \in Jobs, Create(k) \/ DispatchOffline(k) \/ DispatchClaimed(k) \/ Cancel(k)
        PROVE  FALSE
    <3>1. \E target : state' = [state EXCEPT ![k] = target] /\ (target = "failed" => state[k] = "failed")
      BY <2>3 DEF Create, DispatchOffline, DispatchClaimed, Cancel, Move, CancelTarget
    <3> QED BY <1>3, <2>2, <3>1
  <2>4. ASSUME NEW k \in Jobs, Sweep(k) PROVE FailedRow(j)'
    <3>1. k = j
      BY <2>2, <2>4 DEF Sweep, Move
    <3> QED BY <1>i, <1>j, <2>4, <3>1 DEF Sweep, Move, TypeOK, FailedRow
  <2>5. ASSUME NEW k \in Jobs, DispatchRefused(k) PROVE FailedRow(j)'
    <3>1. k = j /\ state[k] = "queued"
      BY <2>2, <2>5 DEF DispatchRefused, Move
    <3> QED BY <1>i, <1>3, <1>j, <3>1 DEF UntouchedInv, FailedRow
  <2>6. ASSUME NEW s \in Session, Activate(s) PROVE FALSE
    BY <1>3, <1>j, <2>6 DEF Activate, Recovery
  <2>7. ASSUME NEW s \in Session, HandlerEnds(s) PROVE FailedRow(j)'
    BY <2>1, <2>7 DEF HandlerEnds, EndHandler
  <2>8. CASE SendFails \/ MarkStale \/ GatewayRestart
    BY <2>1, <2>8 DEF SendFails, MarkStale, GatewayRestart
  <2>9. ASSUME NEW s \in Session, HandleAck(s) \/ HandleResult(s) \/ HandleReconcileResult(s)
        PROVE  FailedRow(j)'
    <3> DEFINE k == Read(s).job
               status == Read(s).status
    <3>1. /\ conn = s /\ up[s] # <<>> /\ Read(s) \in UpMessage /\ k \in Jobs /\ status \in UpStatus
          /\ UNCHANGED <<ledger, hostVars>>
          /\ \/ EndHandler(s) /\ UNCHANGED <<cause, lock>>
             \/ UNCHANGED <<state, cause, lock, connVars>>
             \/ Acked(s) \/ Finalized(s) \/ Reconciled(s)
      BY <1>i, <2>9, HandlerCases
    <3>2. CASE EndHandler(s) \/ UNCHANGED state
      BY <3>2, <2>1 DEF EndHandler
    <3>3. ASSUME NEW target, NEW word, Takes(s, target, word) PROVE k = j /\ target = "failed"
      BY <2>2, <3>1, <3>3 DEF Takes, Move
    <3>4. CASE Acked(s)
      <4>1. k = j /\ AckTarget(k, status) = "failed"
        BY <3>3, <3>4 DEF Acked
      <4>2. status = "rejected"
        <5>1. state[j] \in JobRow /\ AckTarget(j, status) = "failed"
          BY <4>1, <1>i, <1>j DEF TypeOK, JobRow
        <5> HIDE DEF status
        <5> QED BY <1>3, <1>j, <5>1, AckBars
      <4>3. Heard = up[s] /\ Head(Heard) = Read(s) /\ Heard \in Seq(UpMessage)
        BY <1>i, <3>1, HeardIsRead, LiveType
      <4>4. ~NotIn(Heard, Answers(j))
        BY <3>1, <4>1, <4>2, <4>3, ShrinkTail DEF Answers
      <4>5. runs[j] = 0
        BY <1>i, <1>j, <4>4 DEF PendingInv, NoCommand
      <4> QED BY <1>3, <4>5 DEF FailedRow
    <3>5. CASE Finalized(s)
      <4>1. k = j /\ ResultTarget(j, Told(s)) = "failed" /\ ledger[j] = status
        BY <1>i, <3>1, <3>3, <3>5, FinalizedWord DEF Finalized
      <4>2. Told(s) = "failed" \/ j \in Unproven
        BY <1>3, <4>1 DEF ResultTarget
      <4>3. j \in Unproven \/ ledger[j] \in {"failed", "outcome_unknown"}
        BY <4>1, <4>2 DEF Told
      <4>4. FailedRow(j)
        BY <1>i, <4>3 DEF FailedInv, FailedRow
      <4>5. cause'[j] = cause[j] \/ j \in Unproven \/ ledger[j] = "outcome_unknown"
            \/ runs[j] = 0 \/ host[j] = "refused" \/ j \in Unverified
        BY <1>i, <4>3 DEF FailedInv
      <4>6. ledger' = ledger /\ runs' = runs /\ host' = host
        BY <3>1
      <4> QED BY <4>4, <4>5, <4>6 DEF FailedRow
    <3>6. CASE Reconciled(s)
      <4>1. ReconcileTarget(k, status) = "failed"
        BY <3>3, <3>6 DEF Reconciled
      <4> QED BY <3>1, <4>1, ReconcileBars
    <3> QED BY <3>1, <3>2, <3>4, <3>5, <3>6
  <2> QED BY <2>1, <2>3, <2>4, <2>5, <2>6, <2>7, <2>8, <2>9, RowSteps
<1> QED BY <1>1, <1>2, <1>3

LEMMA OutcomeStep == OInv /\ [Next]_vars => OInv'
<1> SUFFICES ASSUME OInv, [Next]_vars PROVE OInv'
  OBVIOUS
<1>i. RInv /\ LInv /\ TInv /\ SessionInv /\ HostInv
  BY DEF OInv, RInv, LInv
<1>1. RInv' /\ SessionInv' /\ HostInv'
  BY <1>i, RecordStep, SessionStep, HostStep
<1>2. FailedInv'
  BY FailedEntryStep, FailedRowStep DEF FailedInv, FailedRow
<1>3. TokenInv' /\ PendingInv' /\ CancelledInv' /\ UntouchedInv' /\ RejectingReads'
  BY TokenStep, PendingStep, CancelledStep, UntouchedStep, RejectingStep
<1> QED BY <1>1, <1>2, <1>3 DEF OInv

LEMMA OutcomeInvariant == Spec => []OInv
BY OutcomeInit, OutcomeStep, PTL DEF Spec

\* A job reported cancelled was never begun and never will be: the cancel that
\* wins its race with the worker, or meets a command that was not delivered,
\* really stops it (cancel, _handle_cancel, handle_reconcile_result).
THEOREM CancelledIsUntouched == Spec => []CancelledMeansUntouched
<1>1. OInv => CancelledMeansUntouched
  BY DEF OInv, UntouchedInv, CancelledMeansUntouched
<1> QED BY <1>1, OutcomeInvariant, PTL

\* A job is queued, and so can be sent again, only while the Host has not seen
\* it: a started command is never retried blindly (handle_reconcile_result).
THEOREM QueuedIsUntouched == Spec => []QueuedMeansUntouched
<1>1. OInv => QueuedMeansUntouched
  BY DEF OInv, UntouchedInv, QueuedMeansUntouched
<1> QED BY <1>1, OutcomeInvariant, PTL

\* A commit reported failed although its effect is in the drawing has a cause
\* the code knows of: the deadline, an unknown outcome or a receipt that was
\* not accepted (sweep_deadlines, handle_reconcile_result, finalize_program_job).
THEOREM FailedIsExplained == Spec => []FailedCommitExplained
<1>1. OInv => FailedCommitExplained
  <2> SUFFICES ASSUME OInv, NEW j \in Commits, state[j] = "failed", host[j] = "applied"
               PROVE  cause[j] = "deadline" \/ ledger[j] = "outcome_unknown" \/ j \in Unverified \cup Unproven
    BY DEF FailedCommitExplained
  <2>1. runs[j] # 0
    BY DEF OInv, HostInv, Jobs, Programs
  <2> QED BY <2>1 DEF OInv, FailedInv
<1> QED BY <1>1, OutcomeInvariant, PTL

-----------------------------------------------------------------------------
(* The two ends implement JobOutcome.  The rows change their report one at  *)
(* a time: a lost session moves many rows, and reports none of them.        *)

report == [j \in Jobs |-> Reported(j)]

LEMMA ReportSame ==
  ASSUME NEW j \in Jobs, state'[j] = state[j]
  PROVE  Reported(j)' = Reported(j)
BY DEF Reported

LEMMA DisconnectedReports ==
  ASSUME state' = Disconnected(state), NEW j \in Jobs
  PROVE  Reported(j)' = Reported(j)
<1>1. CASE state[j] \in InFlight
  <2>1. state'[j] \in {"outcome_unknown", "reconnect_pending"}
    BY <1>1 DEF Disconnected, Recovery
  <2> QED BY <1>1, <2>1 DEF Reported, InFlight, Terminal
<1>2. CASE state[j] \notin InFlight
  BY <1>2, ReportSame DEF Disconnected
<1> QED BY <1>1, <1>2

OneRow(j, target) ==
  /\ state' = [state EXCEPT ![j] = target]
  /\ target # "absent" /\ (state[j] = "absent" => target = "queued")

LEMMA ReportStep ==
  ASSUME TInv, [Next]_vars
  PROVE  \/ \A k \in Jobs : Reported(k)' = Reported(k)
         \/ \E j \in Jobs, target \in JobState : OneRow(j, target)
<1>t. TypeOK
  BY DEF TInv
<1> DEFINE Goal == \/ \A k \in Jobs : Reported(k)' = Reported(k)
                   \/ \E j \in Jobs, target \in JobState : OneRow(j, target)
<1>g. SUFFICES Goal
  OBVIOUS
<1>1. CASE UNCHANGED state \/ state' = Disconnected(state)
  BY <1>1, ReportSame, DisconnectedReports
<1>2. ASSUME NEW j \in Jobs, \/ Create(j) \/ DispatchOffline(j) \/ DispatchClaimed(j)
                             \/ DispatchRefused(j) \/ Sweep(j)
      PROVE  Goal
  <2>1. \E target \in {"queued", "reconnect_pending", "dispatched", "failed", "needs_attention"} :
          OneRow(j, target)
    BY <1>2 DEF Create, DispatchOffline, DispatchClaimed, DispatchRefused, Sweep, Move, OneRow
  <2> QED BY <2>1 DEF JobState
<1>3. ASSUME NEW j \in Jobs, Cancel(j) PROVE Goal
  <2>1. state[j] # "absent" /\ state' = [state EXCEPT ![j] = CancelTarget(j)]
    BY <1>3 DEF Cancel, Move
  <2>2. CancelTarget(j) \in {state[j], "cancelled", "cancel_requested"}
    BY DEF CancelTarget
  <2> QED BY <1>t, <2>1, <2>2 DEF OneRow, TypeOK, JobState
<1>4. ASSUME NEW s \in Session, Activate(s) PROVE Goal
  <2>1. state' = [j \in Jobs |-> IF state[j] = "cancel_requested"
                                 THEN Recovery(j, state[j]) ELSE state[j]]
    BY <1>4 DEF Activate
  <2>2. ASSUME NEW j \in Jobs PROVE Reported(j)' = Reported(j)
    <3>1. CASE state[j] = "cancel_requested"
      BY <2>1, <3>1 DEF Reported, Recovery, Terminal
    <3>2. CASE state[j] # "cancel_requested"
      BY <2>1, <3>2, ReportSame
    <3> QED BY <3>1, <3>2
  <2> QED BY <2>2
<1>5. ASSUME NEW s \in Session, HandlerEnds(s) PROVE Goal
  BY <1>1, <1>5 DEF HandlerEnds, EndHandler
<1>6. CASE SendFails \/ MarkStale \/ GatewayRestart
  BY <1>1, <1>6 DEF SendFails, MarkStale, GatewayRestart
<1>7. ASSUME NEW s \in Session, HandleAck(s) \/ HandleResult(s) \/ HandleReconcileResult(s)
      PROVE  Goal
  <2> DEFINE j == Read(s).job
  <2>1. /\ j \in Jobs /\ Read(s).status \in UpStatus
        /\ \/ EndHandler(s) \/ UNCHANGED state
           \/ Acked(s) \/ Finalized(s) \/ Reconciled(s)
    BY <1>t, <1>7, HandlerCases
  <2>2. CASE EndHandler(s) \/ UNCHANGED state
    BY <1>1, <2>2 DEF EndHandler
  <2>3. ASSUME NEW target, NEW word, Takes(s, target, word), target \in JobRow \cup {"invalid"},
               state[j] \in Over => target \in {state[j], "invalid"},
               target = "absent" => state[j] = "absent"
        PROVE  Goal
    <3>1. target # "invalid" /\ state' = [state EXCEPT ![j] = target]
      BY <2>3 DEF Takes, Move
    <3>2. CASE state[j] = "absent" \/ target = "absent"
      <4>1. target = state[j]
        BY <1>t, <2>1, <2>3, <3>1, <3>2 DEF Over
      <4>2. UNCHANGED state
        BY <1>t, <2>1, <3>1, <4>1 DEF TypeOK
      <4> QED BY <1>1, <4>2
    <3>3. CASE state[j] # "absent" /\ target # "absent"
      BY <2>1, <2>3, <3>1, <3>3 DEF OneRow, JobRow
    <3> QED BY <3>2, <3>3
  <2>4. /\ AckTarget(j, Read(s).status) \in JobRow \cup {"invalid"}
        /\ ResultTarget(j, Told(s)) \in JobRow \cup {"invalid"}
        /\ ReconcileTarget(j, Read(s).status) \in JobRow \cup {"invalid"}
    BY <1>t, <2>1, AckTargetState, ResultTargetState, ReconcileTargetState DEF TypeOK, JobRow
  <2>5. /\ AckTarget(j, Read(s).status) = "absent" => state[j] = "absent"
        /\ ResultTarget(j, Told(s)) # "absent"
        /\ ReconcileTarget(j, Read(s).status) # "absent"
    <3>1. Told(s) \in UpStatus
      BY <2>1 DEF Told, UpStatus
    <3>2. AckTarget(j, Read(s).status) = "absent" => state[j] = "absent"
      BY DEF AckTarget, Recovery
    <3>3. ReconcileTarget(j, Read(s).status) # "absent"
      BY DEF ReconcileTarget
    <3>4. ResultTarget(j, Told(s)) # "absent"
      BY <3>1 DEF ResultTarget, UpStatus, Terminal
    <3> QED BY <3>2, <3>3, <3>4
  <2> HIDE DEF j, Goal
  <2>6. Acked(s) \/ Finalized(s) \/ Reconciled(s) => Goal
    BY <2>1, <2>3, <2>4, <2>5, TargetsStayOver DEF Acked, Finalized, Reconciled, j
  <2> QED BY <2>1, <2>2, <2>6
<1> HIDE DEF Goal
<1> QED BY <1>1, <1>2, <1>3, <1>4, <1>5, <1>6, <1>7, RowSteps

LEMMA HostAlone ==
  ASSUME [Next]_vars, ~UNCHANGED hostVars
  PROVE  UNCHANGED state
BY HostSteps DEF HostEnds, Start, jobVars

\* One row's new report is a submission, or the settling of what was pending.
LEMMA SettleStep ==
  ASSUME OInv, SInv, [Next]_vars, UNCHANGED hostVars, NEW j \in Jobs, NEW target \in JobState,
         OneRow(j, target)
  PROVE  UNCHANGED report \/ Outcome!Submit(j) \/ Outcome!Settle(j)
<1>i. TInv /\ TypeOK /\ SInv' /\ OInv'
  BY SuccessStep, OutcomeStep DEF OInv, RInv, LInv, TInv
<1>1. state'[j] = target /\ \A k \in Jobs : k # j => state'[k] = state[k]
  BY <1>i DEF OneRow, TypeOK
<1>2. report' = [report EXCEPT ![j] = Reported(j)']
  <2>1. \A k \in Jobs : k # j => Reported(k)' = Reported(k)
    BY <1>1, ReportSame
  <2> QED BY <2>1 DEF report
<1>3. host' = host /\ runs' = runs
  BY DEF hostVars
<1>4. CASE state[j] \in Terminal
  <2>1. state'[j] = state[j]
    BY <1>4, <1>i, TerminalStep DEF KeepsTerminal
  <2> QED BY <1>2, <2>1, ReportSame DEF report
<1>5. CASE state[j] = "absent"
  <2>1. Reported(j)' = "pending" /\ Reported(j) = "none"
    BY <1>1, <1>5 DEF OneRow, Reported, Terminal
  <2> QED BY <1>2, <1>3, <2>1 DEF Outcome!Submit, Outcome!Tell, report
<1>6. CASE state[j] \notin Terminal \cup {"absent"}
  <2>1. Reported(j) = "pending" /\ report[j] = "pending"
    BY <1>6 DEF Reported, report
  <2>2. CASE target \notin Terminal
    <3>1. Reported(j)' = "pending"
      BY <1>1, <2>2 DEF OneRow, Reported
    <3> QED BY <1>2, <2>1, <3>1 DEF report
  <2>3. CASE target \in Terminal
    <3>1. Reported(j)' = target
      BY <1>1, <2>3 DEF Reported, Terminal
    <3>2. target = "succeeded" => host[j] = "applied"
      BY <1>1, <1>3, <1>i DEF SInv, SucceededMeansDone
    <3>3. target = "cancelled" => host[j] = "idle"
      BY <1>1, <1>3, <1>i DEF OInv, UntouchedInv, HostInv
    <3> QED BY <1>2, <1>3, <2>1, <2>3, <3>1, <3>2, <3>3
        DEF Outcome!Settle, Outcome!Tell, Terminal, report
  <2> QED BY <2>2, <2>3
<1> QED BY <1>4, <1>5, <1>6

\* What the Host does is the client's job beginning or ending.
LEMMA EffectStep ==
  ASSUME OInv, [Next]_vars, host' # host
  PROVE  \E j \in Jobs : Outcome!Begin(j) \/ Outcome!End(j)
<1>i. TypeOK /\ RunsInv /\ HostInv /\ WorkHasJob
  BY DEF OInv, RInv, LInv, TInv
<1>1. report' = report
  <2>1. UNCHANGED state
    BY HostAlone DEF hostVars
  <2> QED BY <2>1, ReportSame DEF report
<1>2. ASSUME NEW j \in Jobs, HostEnds(j) PROVE Outcome!End(j)
  BY <1>1, <1>2 DEF HostEnds, Outcome!End, report
<1>3. CASE Start
  <2> DEFINE j == work.job
  <2>1. /\ j \in Jobs /\ host' = [host EXCEPT ![j] = "running"]
        /\ runs' = [runs EXCEPT ![j] = @ + 1]
    BY <1>3, <1>i DEF Start, WorkHasJob, hostVars
  <2>2. runs'[j] # runs[j] /\ runs[j] \in Nat
    BY <1>i, <2>1 DEF TypeOK
  <2>3. ~Barred(j) /\ Unstarted(j)
    BY <2>1, <2>2, RunsStep
  <2>4. host[j] = "idle"
    BY <1>i, <2>1, <2>3 DEF HostInv, RunsInv, Unstarted, LedgerTerminal
  <2>5. report[j] \notin {"none", "cancelled"}
    BY <2>1, <2>3 DEF Barred, report, Reported, Terminal
  <2> HIDE DEF j
  <2> QED BY <1>1, <2>1, <2>4, <2>5 DEF Outcome!Begin, report
<1> QED BY <1>2, <1>3, HostSteps DEF hostVars

\* Every behaviour of the Gateway, the Agent and the Host, over any sessions,
\* losses and restarts, is one a client was promised by JobOutcome.
THEOREM OutcomeImplemented == Spec => ImplementsOutcome
<1>1. Init => Outcome!Init
  <2> SUFFICES ASSUME Init PROVE Outcome!Init
    OBVIOUS
  <2>1. \A j \in Jobs : Reported(j) = "none"
    BY DEF Init, Reported, Terminal
  <2> QED BY <2>1 DEF Init, Outcome!Init
<1>2. OInv /\ SInv /\ [Next]_vars => [Outcome!Next]_<<report, host>>
  <2> SUFFICES ASSUME OInv, SInv, [Next]_vars PROVE [Outcome!Next]_<<report, host>>
    OBVIOUS
  <2>1. CASE host' # host
    BY <2>1, EffectStep DEF Outcome!Next
  <2>2. CASE host' = host
    <3>1. TInv
      BY DEF OInv, RInv, LInv
    <3>2. CASE \A k \in Jobs : Reported(k)' = Reported(k)
      BY <2>2, <3>2 DEF report
    <3>3. ASSUME NEW j \in Jobs, NEW target \in JobState, OneRow(j, target)
          PROVE  [Outcome!Next]_<<report, host>>
      <4>1. CASE UNCHANGED hostVars
        BY <2>2, <3>3, <4>1, SettleStep DEF Outcome!Next
      <4>2. CASE ~UNCHANGED hostVars
        <5>1. report' = report
          BY <4>2, HostAlone, ReportSame DEF report
        <5> QED BY <2>2, <5>1
      <4> QED BY <4>1, <4>2
    <3> QED BY <3>1, <3>2, <3>3, ReportStep
  <2> QED BY <2>1, <2>2
<1>3. Spec => []OInv /\ []SInv
  BY OutcomeInvariant, SuccessInvariant, PTL
<1> QED BY <1>1, <1>2, <1>3, PTL DEF Spec, ImplementsOutcome, Outcome!Spec, report

-----------------------------------------------------------------------------
(* On the only session nobody is forgotten.  A job in flight is held: its   *)
(* command is on its way or with the worker, a message that ends its flight *)
(* is on the way back, or the send is about to fail.  The one answer that   *)
(* puts a job back in flight is that it was started; on the only session    *)
(* what was started is what the worker runs, or its result follows.         *)

\* The two ends are on one session, and there has been no other.
Sole ==
  /\ conn # NoSession /\ session = conn
  /\ \A s \in Session : handler[s] # "none" => s = conn

\* The registry holds only sessions whose handler runs.
Registered == conn # NoSession => handler[conn] \notin {"none", "closed"}

\* Before the first session nothing has been sent or started.
Pristine ==
  (\A s \in Session : handler[s] = "none") =>
    \A j \in Jobs : state[j] \notin InFlight /\ ledger[j] # "started"

Executing(j) == work.at = "executing" /\ work.job = j

\* The messages that end a job's flight, whatever its state.
Settling(j) ==
  {m \in UpMessage : m.job = j /\ (m.type = "result" \/ (m.type = "ack" /\ m.status = "rejected"))}

\* The answers after which a job is in flight again.
Resuming(j) == {m \in UpMessage : m.job = j /\ m.type = "reconciled" /\ m.status = "started"}
Results(j)  == {m \in UpMessage : m.job = j /\ m.type = "result"}

\* A message of q is in P; every one in A has one in B after it.
Has(q, P) == \E i \in 1..Len(q) : q[i] \in P
Followed(q, A, B) ==
  \A i \in 1..Len(q) : q[i] \in A => \E k \in 1..Len(q) : i < k /\ q[k] \in B

Busy(j) == work.job = j /\ work.at \in {"acking", "executing"}

\* Somebody has still to say what becomes of the job.
Held(j) ==
  \/ Has(down, {Down("command", {j})})
  \/ Has(queue, {j}) \/ Busy(j)
  \/ Has(Heard, Settling(j))
  \/ sending.job = j /\ ~sending.delivered

\* A job is in hand: the worker runs what the ledger has as started, an answer
\* that it was started has its result behind it, and a job in flight is held.
InHand(j) ==
  /\ ledger[j] = "started" => Executing(j)
  /\ Executing(j) \/ Followed(Heard, Resuming(j), Results(j))
  /\ state[j] \in InFlight => Held(j)

AloneInv == Registered /\ Pristine /\ (Sole => \A j \in Jobs : InHand(j))

LEMMA HasConcat ==
  ASSUME NEW S, NEW q \in Seq(S), NEW r \in Seq(S), NEW P, Has(q, P) \/ Has(r, P)
  PROVE  Has(q \o r, P)
<1>1. /\ Len(q \o r) = Len(q) + Len(r) /\ Len(q) \in Nat /\ Len(r) \in Nat
      /\ \A i \in 1..Len(q) + Len(r) : (q \o r)[i] = IF i <= Len(q) THEN q[i] ELSE r[i - Len(q)]
  BY ConcatProperties, LenProperties
<1>2. CASE Has(q, P)
  <2>1. PICK i \in 1..Len(q) : q[i] \in P
    BY <1>2 DEF Has
  <2>2. i \in 1..Len(q \o r) /\ (q \o r)[i] \in P
    BY <1>1, <2>1
  <2> QED BY <2>2 DEF Has
<1>3. CASE Has(r, P)
  <2>1. PICK i \in 1..Len(r) : r[i] \in P
    BY <1>3 DEF Has
  <2>2. i + Len(q) \in 1..Len(q \o r) /\ ~(i + Len(q) <= Len(q)) /\ (i + Len(q)) - Len(q) = i
    BY <1>1, <2>1
  <2>3. (q \o r)[i + Len(q)] \in P
    BY <1>1, <2>1, <2>2
  <2> QED BY <2>2, <2>3 DEF Has
<1> QED BY <1>2, <1>3

LEMMA HasOne ==
  ASSUME NEW S, NEW a \in S, NEW b \in S, NEW P
  PROVE  /\ <<a>> \in Seq(S) /\ <<a, b>> \in Seq(S)
         /\ a \in P => Has(<<a>>, P) /\ Has(<<a, b>>, P)
         /\ b \in P => Has(<<a, b>>, P)
<1>1. /\ Len(<<a>>) = 1 /\ Len(<<a, b>>) = 2
      /\ <<a>>[1] = a /\ <<a, b>>[1] = a /\ <<a, b>>[2] = b
  OBVIOUS
<1>2. /\ <<a>> \in Seq(S) /\ <<a, b>> \in Seq(S)
      /\ 1 \in 1..Len(<<a>>) /\ 1 \in 1..Len(<<a, b>>) /\ 2 \in 1..Len(<<a, b>>)
  BY <1>1
<1> QED BY <1>1, <1>2 DEF Has

LEMMA HasTail ==
  ASSUME NEW S, NEW q \in Seq(S), q # <<>>, NEW P, Has(q, P), Head(q) \notin P
  PROVE  Has(Tail(q), P)
<1>1. /\ Len(q) \in Nat /\ Len(Tail(q)) = Len(q) - 1 /\ Head(q) = q[1]
      /\ \A i \in 1..Len(Tail(q)) : Tail(q)[i] = q[i + 1]
  BY HeadTailProperties, LenProperties, EmptySeq
<1>2. PICK i \in 1..Len(q) : q[i] \in P
  BY DEF Has
<1>3. i # 1 /\ i - 1 \in 1..Len(Tail(q)) /\ (i - 1) + 1 = i
  BY <1>1, <1>2
<1> QED BY <1>1, <1>2, <1>3 DEF Has

LEMMA HasAppend ==
  ASSUME NEW S, NEW q \in Seq(S), NEW m \in S, NEW P, Has(q, P) \/ m \in P
  PROVE  Has(Append(q, m), P)
<1>1. Append(q, m) = q \o <<m>> /\ <<m>> \in Seq(S) /\ (m \in P => Has(<<m>>, P))
  BY AppendIsConcat, HasOne
<1>2. Has(q \o <<m>>, P)
  BY <1>1, HasConcat
<1> QED BY <1>1, <1>2

LEMMA FollowedTail ==
  ASSUME NEW S, NEW q \in Seq(S), q # <<>>, NEW A, NEW B, Followed(q, A, B)
  PROVE  Followed(Tail(q), A, B) /\ (Head(q) \in A => Has(Tail(q), B))
<1>1. /\ Len(q) \in Nat /\ Len(q) > 0 /\ Len(Tail(q)) = Len(q) - 1 /\ Head(q) = q[1]
      /\ \A i \in 1..Len(Tail(q)) : Tail(q)[i] = q[i + 1]
  BY HeadTailProperties, LenProperties, EmptySeq
<1>2. ASSUME NEW i \in 1..Len(Tail(q)), Tail(q)[i] \in A
      PROVE  \E k \in 1..Len(Tail(q)) : i < k /\ Tail(q)[k] \in B
  <2>1. i + 1 \in 1..Len(q) /\ q[i + 1] \in A
    BY <1>1, <1>2
  <2>2. PICK k \in 1..Len(q) : i + 1 < k /\ q[k] \in B
    BY <2>1 DEF Followed
  <2>3. k - 1 \in 1..Len(Tail(q)) /\ i < k - 1 /\ (k - 1) + 1 = k
    BY <1>1, <2>2
  <2> QED BY <1>1, <2>2, <2>3
<1>3. ASSUME Head(q) \in A PROVE Has(Tail(q), B)
  <2>1. 1 \in 1..Len(q) /\ q[1] \in A
    BY <1>1, <1>3
  <2>2. PICK k \in 1..Len(q) : 1 < k /\ q[k] \in B
    BY <2>1 DEF Followed
  <2>3. k - 1 \in 1..Len(Tail(q)) /\ (k - 1) + 1 = k
    BY <1>1, <2>2
  <2> QED BY <1>1, <2>2, <2>3 DEF Has
<1> QED BY <1>2, <1>3 DEF Followed

\* What is written behind q needs no answer, or is the answer itself.
LEMMA FollowedConcat ==
  ASSUME NEW S, NEW q \in Seq(S), NEW r \in Seq(S), NEW A, NEW B, NotIn(r, A),
         Followed(q, A, B) \/ Has(r, B)
  PROVE  Followed(q \o r, A, B)
<1>1. /\ Len(q \o r) = Len(q) + Len(r) /\ Len(q) \in Nat /\ Len(r) \in Nat
      /\ \A i \in 1..Len(q) + Len(r) : (q \o r)[i] = IF i <= Len(q) THEN q[i] ELSE r[i - Len(q)]
  BY ConcatProperties, LenProperties
<1> SUFFICES ASSUME NEW i \in 1..Len(q \o r), (q \o r)[i] \in A
             PROVE  \E k \in 1..Len(q \o r) : i < k /\ (q \o r)[k] \in B
  BY DEF Followed
<1>2. i \in 1..Len(q) /\ q[i] \in A
  BY ConcatIndex DEF NotIn
<1>3. CASE Followed(q, A, B)
  <2>1. PICK k \in 1..Len(q) : i < k /\ q[k] \in B
    BY <1>2, <1>3 DEF Followed
  <2>2. k \in 1..Len(q \o r) /\ (q \o r)[k] \in B
    BY <1>1, <2>1
  <2> QED BY <2>1, <2>2
<1>4. CASE Has(r, B)
  <2>1. PICK k \in 1..Len(r) : r[k] \in B
    BY <1>4 DEF Has
  <2>2. /\ k + Len(q) \in 1..Len(q \o r) /\ ~(k + Len(q) <= Len(q)) /\ (k + Len(q)) - Len(q) = k
        /\ i < k + Len(q)
    BY <1>1, <1>2, <2>1
  <2>3. (q \o r)[k + Len(q)] \in B
    BY <1>1, <2>1, <2>2
  <2> QED BY <2>2, <2>3
<1> QED BY <1>3, <1>4

\* The Gateway's messages leave the commands on the wire where they are.
LEMMA CommandsStay ==
  ASSUME TypeOK, NEW s, NEW m \in DownMessage, UNCHANGED down \/ SendDown(s, m), NEW P, Has(down, P)
  PROVE  Has(down', P)
<1>1. CASE UNCHANGED down
  BY <1>1
<1>2. CASE down' = Append(down, m)
  <2>1. Has(Append(down, m), P)
    BY HasAppend DEF TypeOK
  <2> QED BY <1>2, <2>1
<1> QED BY <1>1, <1>2 DEF SendDown

\* A step of the Gateway that reads no message.
LEMMA RowsInHand ==
  ASSUME NEW j \in Jobs, InHand(j), UNCHANGED <<ledger, work, queue, conn, up>>,
         Has(down, {Down("command", {j})}) => Has(down', {Down("command", {j})}),
         \/ state'[j] \notin InFlight
         \/ /\ state[j] \in InFlight
            /\ sending.job = j /\ ~sending.delivered => UNCHANGED sending
         \/ Held(j)'
  PROVE  InHand(j)'
<1>1. Heard' = Heard
  BY HeardSame
<1>2. Executing(j)' <=> Executing(j)
  BY DEF Executing
<1>3. Busy(j)' <=> Busy(j)
  BY DEF Busy
<1>4. /\ ledger'[j] = "started" => Executing(j)'
      /\ Executing(j)' \/ Followed(Heard', Resuming(j), Results(j))
  BY <1>1, <1>2 DEF InHand
<1>5. state'[j] \in InFlight => Held(j)'
  <2>1. CASE state'[j] \notin InFlight \/ Held(j)'
    BY <2>1
  <2>2. CASE state[j] \in InFlight /\ (sending.job = j /\ ~sending.delivered => UNCHANGED sending)
    <3>1. Held(j)
      BY <2>2 DEF InHand
    <3> QED BY <1>1, <1>3, <2>2, <3>1 DEF Held
  <2> QED BY <2>1, <2>2
<1> QED BY <1>4, <1>5 DEF InHand, Resuming, Results

\* A step of the Agent: what it says is behind what it has said.
LEMMA SaidInHand ==
  ASSUME TypeOK, NEW j \in Jobs, InHand(j), NEW q \in Seq(UpMessage), Heard' = Heard \o q,
         UNCHANGED <<state, sending>>,
         ledger'[j] = "started" => Executing(j)',
         NotIn(q, Resuming(j)) \/ Executing(j)',
         Executing(j) => Executing(j)' \/ Has(q, Results(j)),
         \/ Has(q, Settling(j))
         \/ /\ Has(down, {Down("command", {j})}) =>
                 Has(down', {Down("command", {j})}) \/ Has(queue', {j})
            /\ Has(queue, {j}) => Has(queue', {j}) \/ Busy(j)'
            /\ Busy(j) => Busy(j)'
  PROVE  InHand(j)'
<1>t. Heard \in Seq(UpMessage)
  BY LiveType
<1>1. Executing(j)' \/ Followed(Heard', Resuming(j), Results(j))
  <2>1. CASE Executing(j)'
    BY <2>1
  <2>2. CASE ~Executing(j)'
    <3>1. NotIn(q, Resuming(j))
      BY <2>2
    <3>2. Followed(Heard, Resuming(j), Results(j)) \/ Has(q, Results(j))
      BY <2>2 DEF InHand
    <3>3. Followed(Heard \o q, Resuming(j), Results(j))
      BY <1>t, <3>1, <3>2, FollowedConcat
    <3> QED BY <3>3
  <2> QED BY <2>1, <2>2
<1>2. ASSUME state[j] \in InFlight PROVE Held(j)'
  <2>1. Has(Heard, Settling(j)) \/ Has(q, Settling(j)) => Has(Heard \o q, Settling(j))
    BY <1>t, HasConcat
  <2>2. Held(j)
    BY <1>2 DEF InHand
  <2> QED BY <2>1, <2>2 DEF Held, Settling
<1> QED BY <1>1, <1>2 DEF InHand, Resuming, Results

LEMMA NothingFlies ==
  ASSUME NEW j \in Jobs
  PROVE  /\ Disconnected(state)[j] \notin InFlight
         /\ \A current : Recovery(j, current) \notin InFlight
BY DEF Disconnected, Recovery, InFlight

\* The Gateway's steps that read no message leave every job in hand.
LEMMA GatewayInHand ==
  ASSUME TypeOK, Sole, NEW j \in Jobs, InHand(j),
         \/ \E k \in Jobs : \/ Create(k) \/ Cancel(k) \/ DeadlinePasses(k) \/ Sweep(k)
                            \/ DispatchRefused(k) \/ DispatchOffline(k) \/ DispatchClaimed(k)
                            \/ HostEnds(k)
         \/ \E s \in Session : Activate(s) \/ Opened(s)
         \/ SendReturns \/ SendFails \/ GoStale \/ Heartbeat \/ MarkStale \/ UNCHANGED vars
  PROVE  InHand(j)'
<1> USE DEF envVars, jobVars, connVars, wireVars, agentVars
<1> DEFINE Command == Down("command", {j})
<1>t. state \in [Jobs -> JobRow] /\ down \in Seq(DownMessage)
  BY DEF TypeOK, JobRow
\* One row moves, to no state in flight.
<1>r. ASSUME NEW k \in Jobs, NEW target, state' = [state EXCEPT ![k] = target], target \notin InFlight,
             UNCHANGED <<ledger, work, queue, conn, up, down, sending>>
      PROVE  InHand(j)'
  <2>1. state'[j] = state[j] \/ state'[j] \notin InFlight
    BY <1>r, <1>t
  <2> QED BY <1>r, <2>1, RowsInHand
<1>1. ASSUME NEW k \in Jobs,
             Create(k) \/ Sweep(k) \/ DispatchRefused(k) \/ DispatchOffline(k)
      PROVE  InHand(j)'
  <2>1. UNCHANGED <<ledger, work, queue, conn, up, down, sending>>
    BY <1>1 DEF Create, Sweep, DispatchRefused, DispatchOffline
  <2>2. \E target \in {"queued", "needs_attention", "failed", "reconnect_pending"} :
          state' = [state EXCEPT ![k] = target]
    BY <1>1 DEF Create, Sweep, DispatchRefused, DispatchOffline, Move
  <2> QED BY <2>1, <2>2, <1>r DEF InFlight
<1>2. ASSUME NEW k \in Jobs, Cancel(k) PROVE InHand(j)'
  <2>1. /\ UNCHANGED <<ledger, work, queue, conn, up, sending>>
        /\ state' = [state EXCEPT ![k] = CancelTarget(k)]
        /\ UNCHANGED down \/ SendDown(conn, Down("cancel", {k}))
    BY <1>2 DEF Cancel, Move
  <2>2. state'[j] \in InFlight => state[j] \in InFlight
    BY <2>1, <1>t DEF CancelTarget, InFlight
  <2>3. Has(down, {Command}) => Has(down', {Command})
    BY <2>1, CommandsStay, DownIsNoWelcome
  <2> QED BY <2>1, <2>2, <2>3, RowsInHand
<1>3. ASSUME NEW k \in Jobs, DispatchClaimed(k) PROVE InHand(j)'
  <2>1. PICK delivered \in BOOLEAN :
          /\ sending' = [job |-> k, to |-> conn, delivered |-> delivered]
          /\ IF delivered THEN SendDown(conn, Down("command", {k})) ELSE UNCHANGED down
    BY <1>3 DEF DispatchClaimed
  <2>2. /\ UNCHANGED <<ledger, work, queue, conn, up>> /\ sending = NotSending
        /\ state' = [state EXCEPT ![k] = "dispatched"]
    BY <1>3 DEF DispatchClaimed
  <2>3. Has(down, {Command}) => Has(down', {Command})
    BY <2>1, CommandsStay, DownIsNoWelcome
  <2>4. CASE j = k
    <3>1. CASE delivered
      <4>1. down' = Append(down, Command)
        BY <2>1, <2>4, <3>1 DEF SendDown, Sole
      <4>2. Command \in DownMessage /\ Command \in {Command}
        BY DownIsNoWelcome
      <4> HIDE DEF Command
      <4>3. Has(Append(down, Command), {Command})
        BY <1>t, <4>2, HasAppend
      <4>4. Has(down', {Command})
        BY <4>1, <4>3
      <4> QED BY <2>2, <2>3, <4>4, RowsInHand DEF Held, Command
    <3>2. CASE ~delivered
      <4>1. sending'.job = j /\ ~sending'.delivered
        BY <2>1, <2>4, <3>2
      <4> QED BY <2>2, <2>3, <4>1, RowsInHand DEF Held
    <3> QED BY <3>1, <3>2
  <2>5. CASE j # k
    <3>1. state'[j] = state[j]
      BY <2>2, <2>5, <1>t
    <3>2. sending.job # j
      BY <2>2, NoJobIsNoJob DEF NotSending
    <3> QED BY <2>2, <2>3, <3>1, <3>2, RowsInHand
  <2> QED BY <2>4, <2>5
<1>4. ASSUME NEW k \in Jobs, DeadlinePasses(k) \/ HostEnds(k) PROVE InHand(j)'
  <2>1. UNCHANGED <<state, ledger, work, queue, conn, up, down, sending>>
    BY <1>4 DEF DeadlinePasses, HostEnds
  <2> QED BY <2>1, RowsInHand
<1>5. CASE GoStale \/ Heartbeat \/ UNCHANGED vars
  <2>1. UNCHANGED <<state, ledger, work, queue, conn, up, down, sending>>
    BY <1>5 DEF GoStale, Heartbeat, vars
  <2> QED BY <2>1, RowsInHand
<1>6. CASE SendReturns
  <2>1. UNCHANGED <<state, ledger, work, queue, conn, up, down>> /\ sending.delivered
    BY <1>6 DEF SendReturns
  <2> QED BY <2>1, RowsInHand
<1>7. CASE SendFails \/ MarkStale
  <2>1. UNCHANGED <<ledger, work, queue, conn, up, down>> /\ state' = Disconnected(state)
    BY <1>7 DEF SendFails, MarkStale
  <2> QED BY <2>1, NothingFlies, RowsInHand
<1>8. ASSUME NEW s \in Session, Opened(s) PROVE InHand(j)'
  <2>1. UNCHANGED <<state, ledger, work, queue, conn, up, down, sending>>
    BY <1>8 DEF Opened
  <2> QED BY <2>1, RowsInHand
<1>9. ASSUME NEW s \in Session, Activate(s) PROVE InHand(j)'
  <2>1. UNCHANGED <<ledger, work, queue, conn, up, sending>>
    BY <1>9 DEF Activate
  <2>2. state'[j] \in InFlight => state[j] \in InFlight
    BY <1>9, NothingFlies DEF Activate
  <2>3. PICK lost \in SUBSET Jobs :
          \/ down' = down
          \/ down' = down \o <<Down("welcome", {})>> \o <<>>
          \/ down' = down \o <<Down("welcome", {})>> \o <<Down("reconcile", lost)>>
    <3> DEFINE rows == [i \in Jobs |-> IF state[i] = "cancel_requested"
                                       THEN Recovery(i, state[i]) ELSE state[i]]
               lost == {i \in Jobs : rows[i] \in {"reconnect_pending", "outcome_unknown"}}
    <3>1. down' = IF session # s THEN down
                  ELSE down \o <<Down("welcome", {})>> \o
                       (IF lost = {} THEN <<>> ELSE <<Down("reconcile", lost)>>)
      BY <1>9 DEF Activate
    <3>2. lost \in SUBSET Jobs
      OBVIOUS
    <3> HIDE DEF lost
    <3> QED BY <3>1, <3>2
  <2>4. Has(down, {Command}) => Has(down', {Command})
    <3>1. Down("welcome", {}) \in DownMessage /\ Down("reconcile", lost) \in DownMessage
      BY TouchesAre DEF DownType
    <3>2. /\ <<Down("welcome", {})>> \in Seq(DownMessage) /\ <<Down("reconcile", lost)>> \in Seq(DownMessage)
          /\ <<>> \in Seq(DownMessage)
      BY <3>1, HasOne
    <3>3. down \o <<Down("welcome", {})>> \in Seq(DownMessage)
      BY <1>t, <3>2, ConcatOfSeq
    <3> SUFFICES ASSUME Has(down, {Command}) PROVE Has(down', {Command})
      OBVIOUS
    <3>4. Has(down \o <<Down("welcome", {})>>, {Command})
      BY <1>t, <3>2, HasConcat
    <3>5. Has(down \o <<Down("welcome", {})>> \o <<>>, {Command})
      BY <3>2, <3>3, <3>4, HasConcat
    <3>6. Has(down \o <<Down("welcome", {})>> \o <<Down("reconcile", lost)>>, {Command})
      BY <3>2, <3>3, <3>4, HasConcat
    <3> QED BY <2>3, <3>5, <3>6
  <2> QED BY <2>1, <2>2, <2>4, RowsInHand
<1> QED BY <1>1, <1>2, <1>3, <1>4, <1>5, <1>6, <1>7, <1>8, <1>9

LEMMA ResultEndsFlight ==
  ASSUME TypeOK, NEW j \in Jobs, NEW status \in UpStatus
  PROVE  ResultTarget(j, status) \notin InFlight
BY DEF ResultTarget, UpStatus, Terminal, InFlight

\* A handler that goes on takes a job out of flight with its settling messages,
\* and puts one in flight only with the answer that it was started.
LEMMA MessageSettles ==
  ASSUME TypeOK, NEW s \in Session, NEW j \in Jobs, Read(s).job = j, conn' = conn,
         HandleAck(s) \/ HandleResult(s) \/ HandleReconcileResult(s)
  PROVE  /\ Read(s) \in Settling(j) => state'[j] \notin InFlight
         /\ state'[j] \in InFlight => state[j] \in InFlight \/ Read(s) \in Resuming(j)
<1>t. /\ state \in [Jobs -> JobRow] /\ conn = s /\ s # NoSession
      /\ Read(s) \in UpMessage /\ Read(s).status \in UpStatus
  BY HandlerCases DEF TypeOK, JobRow, Session, NoSession
<1>s. ASSUME NEW target, NEW word, Store(s, j, target, word)
      PROVE  state'[j] = target
  <2>1. ~EndHandler(s)
    BY <1>t DEF EndHandler
  <2> QED BY <1>s, <2>1, <1>t DEF Store, Move
<1>f. ASSUME NEW status \in UpStatus, Finalize(s, j, status) PROVE state'[j] \notin InFlight
  BY <1>f, <1>s, ResultEndsFlight DEF Finalize
<1>1. CASE HandleAck(s)
  <2>1. /\ Read(s).type = "ack"
        /\ state'[j] = AckTarget(j, Read(s).status)
    BY <1>1, <1>s DEF HandleAck, Reading, Read
  <2>2. AckTarget(j, "rejected") \notin InFlight
    BY DEF AckTarget, Terminal, InFlight
  <2>3. AckTarget(j, Read(s).status) \in InFlight => state[j] \in InFlight
    BY DEF AckTarget, Recovery, InFlight, Started
  <2> QED BY <2>1, <2>2, <2>3 DEF Settling
<1>2. CASE HandleResult(s)
  <2>1. Finalize(s, j, Read(s).status)
    BY <1>2 DEF HandleResult, Read
  <2> QED BY <1>t, <1>f, <2>1
<1>3. CASE HandleReconcileResult(s)
  <2>1. Read(s).type = "reconciled"
    BY <1>3 DEF HandleReconcileResult, Reading, Read
  <2>2. Read(s) \notin Settling(j)
    BY <2>1 DEF Settling
  <2>3. CASE Read(s).status \in LedgerTerminal
    <3>1. \/ UNCHANGED state
          \/ Finalize(s, j, IF Read(s).status = "outcome_unknown" THEN "failed" ELSE Read(s).status)
      BY <1>3, <2>3 DEF HandleReconcileResult, Read
    <3>2. (IF Read(s).status = "outcome_unknown" THEN "failed" ELSE Read(s).status) \in UpStatus
      BY <1>t DEF UpStatus
    <3> QED BY <1>f, <2>2, <3>1, <3>2
  <2>4. CASE Read(s).status \notin LedgerTerminal
    <3>1. state'[j] = ReconcileTarget(j, Read(s).status)
      BY <1>3, <1>s, <2>4 DEF HandleReconcileResult, Read
    <3>2. ReconcileTarget(j, Read(s).status) \in InFlight => Read(s).status = "started"
      BY DEF ReconcileTarget, InFlight
    <3> QED BY <1>t, <2>1, <2>2, <3>1, <3>2 DEF Resuming
  <2> QED BY <2>3, <2>4
<1> QED BY <1>1, <1>2, <1>3

\* A message read on the open session leaves every job in hand.
LEMMA MessageInHand ==
  ASSUME TypeOK, NEW s \in Session, NEW j \in Jobs, InHand(j), conn' # NoSession,
         HandleAck(s) \/ HandleResult(s) \/ HandleReconcileResult(s)
  PROVE  InHand(j)'
<1> DEFINE k == Read(s).job
<1>1. /\ conn = s /\ up[s] # <<>> /\ k \in Jobs /\ Read(s) \in UpMessage
      /\ UNCHANGED <<sending, queue, work, ledger>>
      /\ \/ EndHandler(s)
         \/ /\ up' = [up EXCEPT ![s] = Tail(@)] /\ conn' = conn
            /\ \A i \in Jobs : i # k => state'[i] = state[i]
  <2>1. /\ conn = s /\ up[s] # <<>> /\ k \in Jobs /\ Read(s) \in UpMessage
        /\ UNCHANGED <<sending, queue, work, ledger>>
        /\ \/ EndHandler(s)
           \/ up' = [up EXCEPT ![s] = Tail(@)] /\ UNCHANGED <<state, connVars>>
           \/ \E target, word : Takes(s, target, word)
    BY HandlerCases DEF Acked, Finalized, Reconciled, agentVars
  <2>2. ASSUME NEW target, NEW word, Takes(s, target, word)
        PROVE  /\ up' = [up EXCEPT ![s] = Tail(@)] /\ conn' = conn
               /\ \A i \in Jobs : i # k => state'[i] = state[i]
    BY <2>1, <2>2, TakesRow DEF Takes, connVars
  <2> QED BY <2>1, <2>2 DEF connVars
<1>2. ~EndHandler(s)
  BY <1>1 DEF EndHandler
<1>3. Heard \in Seq(UpMessage) /\ Heard # <<>> /\ Head(Heard) = Read(s) /\ Heard' = Tail(Heard)
  BY <1>1, <1>2, HeardTaken, LiveType DEF Read
<1>4. Has(down, {Down("command", {j})}) => Has(down', {Down("command", {j})})
  <2>1. \E type \in {"command", "cancel", "reconcile"} :
          UNCHANGED down \/ SendDown(s, Down(type, {k}))
    BY DEF HandleAck, HandleResult, HandleReconcileResult, Read
  <2> QED BY <1>1, <2>1, CommandsStay, DownIsNoWelcome
<1>5. (Executing(j)' <=> Executing(j)) /\ (Busy(j)' <=> Busy(j))
  BY <1>1 DEF Executing, Busy
<1>6. Executing(j)' \/ Followed(Heard', Resuming(j), Results(j))
  <2>1. Followed(Heard, Resuming(j), Results(j)) => Followed(Tail(Heard), Resuming(j), Results(j))
    BY <1>3, FollowedTail
  <2> QED BY <1>3, <1>5, <2>1 DEF InHand
<1>7. ASSUME state'[j] \in InFlight PROVE Held(j)'
  <2>1. Read(s) \notin Settling(j)
    <3>1. j = k => Read(s) \notin Settling(j)
      BY <1>1, <1>2, <1>7, MessageSettles
    <3> QED BY <3>1 DEF Settling
  <2>2. Has(Heard, Settling(j)) => Has(Tail(Heard), Settling(j))
    BY <1>3, <2>1, HasTail
  <2>3. CASE state[j] \in InFlight
    <3>1. Held(j)
      BY <2>3 DEF InHand
    <3> QED BY <1>1, <1>3, <1>4, <1>5, <2>2, <3>1 DEF Held, Settling
  <2>4. CASE state[j] \notin InFlight
    <3>1. j = k
      BY <1>1, <1>2, <1>7, <2>4
    <3>2. Read(s) \in Resuming(j)
      BY <1>1, <1>2, <1>7, <2>4, <3>1, MessageSettles
    <3>3. Executing(j) \/ Has(Tail(Heard), Results(j))
      BY <1>3, <3>2, FollowedTail DEF InHand
    <3>4. CASE Executing(j)
      BY <1>1, <3>4 DEF Executing, Held, Busy
    <3>5. CASE Has(Tail(Heard), Results(j))
      <4>1. Has(Tail(Heard), Settling(j))
        BY <3>5 DEF Has, Results, Settling
      <4> QED BY <1>3, <4>1 DEF Held, Settling
    <3> QED BY <3>3, <3>4, <3>5
  <2> QED BY <2>3, <2>4
<1> QED BY <1>1, <1>5, <1>6, <1>7 DEF InHand, Resuming, Results

\* What the Agent says on the only session is read by its handler.
LEMMA HeardOnSole ==
  ASSUME TypeOK, Sole, Registered, NEW q, SendUp(q), UNCHANGED conn
  PROVE  Heard' = Heard \o q
<1>1. conn \in Session /\ session = conn /\ handler[session] # "closed" /\ conn # NoSession
  BY DEF Sole, Registered, TypeOK
<1>2. up'[conn] = up[conn] \o q
  BY <1>1 DEF SendUp, TypeOK
<1> QED BY <1>1, <1>2 DEF Heard

LEMMA AgentWords ==
  ASSUME NEW j \in Jobs, NEW type \in UpType, NEW k \in Jobs, NEW status \in UpStatus
  PROVE  /\ Up(type, k, status) \in UpMessage
         /\ Up(type, k, status) \in Resuming(j) <=> (k = j /\ type = "reconciled" /\ status = "started")
         /\ Up(type, k, status) \in Results(j) <=> (k = j /\ type = "result")
         /\ Up(type, k, status) \in Settling(j) <=>
              (k = j /\ (type = "result" \/ (type = "ack" /\ status = "rejected")))
BY DEF Up, UpMessage, Resuming, Results, Settling

\* One message, or two.
LEMMA SaidOnce ==
  ASSUME NEW S, NEW a \in S, NEW b \in S, NEW P
  PROVE  /\ NotIn(<<a>>, P) <=> a \notin P
         /\ NotIn(<<a, b>>, P) <=> a \notin P /\ b \notin P
         /\ NotIn(<<>>, P)
<1>1. /\ Len(<<a>>) = 1 /\ Len(<<a, b>>) = 2 /\ Len(<<>>) = 0
      /\ <<a>>[1] = a /\ <<a, b>>[1] = a /\ <<a, b>>[2] = b
  OBVIOUS
<1> QED BY <1>1 DEF NotIn

\* The receiver's steps leave every job in hand.
LEMMA ReceiveInHand ==
  ASSUME TypeOK, Sole, Registered, \A k \in Jobs : InHand(k), NEW j \in Jobs,
         ReceiveWelcome \/ ReceiveCommand \/ ReceiveCancel \/ ReceiveReconcile
  PROVE  InHand(j)'
<1> USE DEF envVars, jobVars, connVars, wireVars, agentVars
<1> DEFINE Command == Down("command", {j})
<1>t. /\ down \in Seq(DownMessage) /\ queue \in Seq(Jobs) /\ Heard \in Seq(UpMessage)
      /\ <<>> \in Seq(UpMessage) /\ Heard \o <<>> = Heard
  <2>1. Heard \in Seq(UpMessage)
    BY LiveType
  <2> QED BY <2>1 DEF TypeOK
<1>d. down # <<>> /\ Head(down) \in DownMessage /\ Tail(down) \in Seq(DownMessage)
  BY <1>t, TailOfSeq DEF ReceiveWelcome, ReceiveCommand, ReceiveCancel, ReceiveReconcile, Receiving
<1>k. /\ UNCHANGED <<state, sending, work, conn>>
      /\ (Executing(j)' <=> Executing(j)) /\ (Busy(j)' <=> Busy(j))
  BY DEF ReceiveWelcome, ReceiveCommand, ReceiveCancel, ReceiveReconcile, Executing, Busy
<1>c. Head(down) # Command /\ Has(down, {Command}) => Has(Tail(down), {Command})
  <2> HIDE DEF Command
  <2> QED BY <1>t, <1>d, HasTail
<1>n. NotIn(<<>>, Resuming(j))
  BY DEF NotIn
<1>1. CASE ReceiveWelcome
  <2>1. UNCHANGED <<ledger, queue, up>> /\ down' = Tail(down) /\ Head(down).type = "welcome"
    BY <1>1 DEF ReceiveWelcome, Receiving
  <2>2. Heard' = Heard \o <<>> /\ Head(down) # Command
    BY <1>k, <1>t, <2>1, HeardSame DEF Down
  <2> QED BY <1>c, <1>k, <1>n, <1>t, <2>1, <2>2, SaidInHand DEF InHand
<1>2. CASE ReceiveCommand
  <2>1. PICK k \in Head(down).jobs :
          \/ queue' = Append(queue, k) /\ UNCHANGED up
          \/ SendUp(<<Up("ack", k, "rejected")>>) /\ UNCHANGED queue
    BY <1>2 DEF ReceiveCommand
  <2>2. k \in Jobs /\ UNCHANGED ledger /\ down' = Tail(down)
    BY <1>2, <1>d DEF ReceiveCommand, DownMessage
  <2>3. Head(down) = Command => k = j
    BY DEF Down
  <2>4. CASE queue' = Append(queue, k) /\ UNCHANGED up
    <3>1. Has(queue, {j}) \/ k = j => Has(Append(queue, k), {j})
      BY <1>t, <2>2, HasAppend
    <3>2. Heard' = Heard \o <<>>
      BY <1>k, <1>t, <2>4, HeardSame
    <3>3. /\ Has(down, {Command}) => Has(down', {Command}) \/ Has(queue', {j})
          /\ Has(queue, {j}) => Has(queue', {j})
      BY <1>c, <2>2, <2>3, <2>4, <3>1
    <3> QED BY <1>k, <1>n, <1>t, <2>2, <3>2, <3>3, SaidInHand DEF InHand
  <2>5. CASE SendUp(<<Up("ack", k, "rejected")>>) /\ UNCHANGED queue
    <3> DEFINE m == Up("ack", k, "rejected")
    <3>1. /\ m \in UpMessage /\ m \notin Resuming(j) /\ (k = j => m \in Settling(j))
      BY <2>2, AgentWords DEF UpType, UpStatus
    <3>2. Heard' = Heard \o <<m>>
      BY <1>k, <2>5, HeardOnSole
    <3> HIDE DEF m
    <3>3. <<m>> \in Seq(UpMessage) /\ NotIn(<<m>>, Resuming(j)) /\ (k = j => Has(<<m>>, Settling(j)))
      BY <3>1, HasOne, SaidOnce
    <3>4. k # j => (Has(down, {Command}) => Has(down', {Command}))
      BY <1>c, <2>2, <2>3
    <3> QED BY <1>k, <2>2, <2>5, <3>2, <3>3, <3>4, SaidInHand DEF InHand
  <2> QED BY <2>1, <2>4, <2>5
<1>3. CASE ReceiveCancel
  <2>1. PICK k \in Head(down).jobs :
          \/ /\ ledger' = [ledger EXCEPT ![k] = "cancelled"]
             /\ SendUp(<<Up("result", k, "cancelled")>>)
          \/ UNCHANGED <<ledger, up>>
    BY <1>3 DEF ReceiveCancel, Record
  <2>2. k \in Jobs /\ UNCHANGED queue /\ down' = Tail(down) /\ Head(down).type = "cancel"
    BY <1>3, <1>d DEF ReceiveCancel, Receiving, DownMessage
  <2>3. Has(down, {Command}) => Has(down', {Command})
    BY <1>c, <2>2 DEF Down
  <2>4. CASE UNCHANGED <<ledger, up>>
    <3>1. Heard' = Heard \o <<>>
      BY <1>k, <1>t, <2>4, HeardSame
    <3> QED BY <1>k, <1>n, <1>t, <2>2, <2>3, <2>4, <3>1, SaidInHand DEF InHand
  <2>5. CASE /\ ledger' = [ledger EXCEPT ![k] = "cancelled"]
             /\ SendUp(<<Up("result", k, "cancelled")>>)
    <3> DEFINE m == Up("result", k, "cancelled")
    <3>1. m \in UpMessage /\ m \notin Resuming(j)
      BY <2>2, AgentWords DEF UpType, UpStatus
    <3>2. Heard' = Heard \o <<m>>
      BY <1>k, <2>5, HeardOnSole
    <3>3. ledger'[j] = "started" => ledger[j] = "started"
      BY <2>5 DEF TypeOK
    <3> HIDE DEF m
    <3>4. <<m>> \in Seq(UpMessage) /\ NotIn(<<m>>, Resuming(j))
      BY <3>1, HasOne, SaidOnce
    <3> QED BY <1>k, <2>2, <2>3, <3>2, <3>3, <3>4, SaidInHand DEF InHand
  <2> QED BY <2>1, <2>4, <2>5
<1>4. CASE ReceiveReconcile
  <2>1. PICK k \in Head(down).jobs :
          /\ SendUp(<<Up("reconciled", k, ReconcileStatus(ledger[k]))>>)
          /\ \/ down' = Tail(down)
             \/ down' = <<Down("reconcile", Head(down).jobs \ {k})>> \o Tail(down)
    BY <1>4 DEF ReceiveReconcile
  <2>2. k \in Jobs /\ UNCHANGED <<queue, ledger>> /\ Head(down).type = "reconcile"
        /\ Head(down).jobs \in SUBSET Jobs
    BY <1>4, <1>d DEF ReceiveReconcile, Receiving, DownMessage
  <2>3. Has(down, {Command}) => Has(down', {Command})
    <3> DEFINE rest == Down("reconcile", Head(down).jobs \ {k})
    <3>1. rest \in DownMessage
      <4>1. Head(down).jobs \ {k} \in SUBSET Jobs
        BY <2>2
      <4> QED BY <4>1, TouchesAre DEF DownType
    <3>2. Has(down, {Command}) => Has(Tail(down), {Command})
      BY <1>c, <2>2 DEF Down
    <3>3. down' = Tail(down) \/ down' = <<rest>> \o Tail(down)
      BY <2>1
    <3> HIDE DEF rest, Command
    <3>4. <<rest>> \in Seq(DownMessage)
      BY <3>1, HasOne
    <3>5. Has(down, {Command}) => Has(<<rest>> \o Tail(down), {Command})
      BY <1>d, <3>2, <3>4, HasConcat
    <3> QED BY <3>2, <3>3, <3>5
  <2> DEFINE m == Up("reconciled", k, ReconcileStatus(ledger[k]))
  <2>4. m \in UpMessage /\ (m \in Resuming(j) => k = j /\ ledger[j] = "started")
    <3>1. ReconcileStatus(ledger[k]) \in UpStatus
      BY <2>2, ReconcileStatusType DEF TypeOK
    <3>2. ReconcileStatus(ledger[k]) = "started" => ledger[k] = "started"
      BY DEF ReconcileStatus
    <3> QED BY <2>2, <3>1, <3>2, AgentWords DEF UpType
  <2>5. Heard' = Heard \o <<m>>
    BY <1>k, <2>1, HeardOnSole
  <2> HIDE DEF m
  <2>6. <<m>> \in Seq(UpMessage) /\ (NotIn(<<m>>, Resuming(j)) \/ Executing(j))
    BY <2>4, HasOne, SaidOnce DEF InHand
  <2> QED BY <1>k, <2>2, <2>3, <2>5, <2>6, SaidInHand DEF InHand
<1> QED BY <1>1, <1>2, <1>3, <1>4

\* The worker's steps leave every job in hand, unless they give up the session.
LEMMA WorkerInHand ==
  ASSUME LInv, Sole, Registered, \A k \in Jobs : InHand(k), NEW j \in Jobs, session' # NoSession,
         (\E k \in Jobs : AnswerKnown(k) \/ Refuse(k) \/ Accept(k)) \/ RejectDone \/ Start \/ Finish
  PROVE  InHand(j)'
<1> USE DEF envVars, jobVars, connVars, wireVars, agentVars
<1> DEFINE Command == Down("command", {j})
<1>l. TypeOK /\ WorkHasJob /\ WorkInv
  BY DEF LInv, TInv
<1>t. /\ queue \in Seq(Jobs) /\ Heard \in Seq(UpMessage) /\ ledger \in [Jobs -> LedgerState]
      /\ <<>> \in Seq(UpMessage) /\ Heard \o <<>> = Heard
  <2>1. Heard \in Seq(UpMessage)
    BY <1>l, LiveType
  <2> QED BY <1>l, <2>1 DEF TypeOK
<1>k. UNCHANGED <<state, sending, conn>>
  BY DEF AnswerKnown, Refuse, Accept, RejectDone, Start, Finish
<1>n. NotIn(<<>>, Resuming(j))
  BY DEF NotIn
\* The worker takes a command: it was idle, so nothing was started.
<1>q. ASSUME NEW k \in Jobs, Take(k)
      PROVE  /\ \A i \in Jobs : ledger[i] # "started" /\ ~Executing(i) /\ ~Busy(i)
             /\ k # j => (Has(queue, {j}) => Has(queue', {j}))
  <2>1. work.at = "idle" /\ queue # <<>> /\ Head(queue) = k /\ queue' = Tail(queue)
    BY <1>q DEF Take
  <2>2. k # j => (Has(queue, {j}) => Has(Tail(queue), {j}))
    BY <1>t, <2>1, HasTail
  <2> QED BY <2>1, <2>2 DEF InHand, Executing, Busy
<1>1. ASSUME NEW k \in Jobs, AnswerKnown(k) PROVE InHand(j)'
  <2>1. Take(k) /\ UNCHANGED <<down, work, ledger>>
    BY <1>1 DEF AnswerKnown
  <2> DEFINE a == Up("ack", k, "already_terminal")
             b == Up("result", k, ledger[k])
  <2>2. ledger[k] \in LedgerTerminal /\ SendUp(<<a, b>>)
    BY <1>1, <1>q, <2>1 DEF AnswerKnown
  <2>3. /\ a \in UpMessage /\ b \in UpMessage /\ a \notin Resuming(j) /\ b \notin Resuming(j)
        /\ k = j => b \in Settling(j)
    <3>1. ledger[k] \in UpStatus
      BY <2>2 DEF LedgerTerminal, UpStatus
    <3> QED BY <3>1, AgentWords DEF UpType, UpStatus
  <2>4. Heard' = Heard \o <<a, b>>
    BY <1>l, <1>k, <2>2, HeardOnSole
  <2> HIDE DEF a, b
  <2>5. /\ <<a, b>> \in Seq(UpMessage) /\ NotIn(<<a, b>>, Resuming(j))
        /\ k = j => Has(<<a, b>>, Settling(j))
    BY <2>3, HasOne, SaidOnce
  <2> QED BY <1>k, <1>l, <1>q, <2>1, <2>4, <2>5, SaidInHand
<1>2. ASSUME NEW k \in Jobs, Refuse(k) PROVE InHand(j)'
  <2> DEFINE a == Up("ack", k, "rejected")
             b == Up("result", k, "failed")
  <2>1. /\ Take(k) /\ UNCHANGED down
        /\ SendUp(<<a>>) \/ SendUp(<<a, b>>)
    BY <1>2 DEF Refuse
  <2>2. \E entry : entry # "started" /\ ledger' = [ledger EXCEPT ![k] = entry]
    BY <1>2 DEF Refuse, Record
  <2>3. ledger'[j] # "started"
    BY <1>q, <1>t, <2>1, <2>2
  <2>4. /\ a \in UpMessage /\ b \in UpMessage /\ a \notin Resuming(j) /\ b \notin Resuming(j)
        /\ k = j => a \in Settling(j)
    BY AgentWords DEF UpType, UpStatus
  <2>5. Heard' = Heard \o <<a>> \/ Heard' = Heard \o <<a, b>>
    BY <1>l, <1>k, <2>1, HeardOnSole
  <2> HIDE DEF a, b
  <2>6. /\ <<a>> \in Seq(UpMessage) /\ NotIn(<<a>>, Resuming(j)) /\ (k = j => Has(<<a>>, Settling(j)))
        /\ <<a, b>> \in Seq(UpMessage) /\ NotIn(<<a, b>>, Resuming(j)) /\ (k = j => Has(<<a, b>>, Settling(j)))
    BY <2>4, HasOne, SaidOnce
  <2> QED BY <1>k, <1>l, <1>q, <2>1, <2>3, <2>5, <2>6, SaidInHand
<1>3. ASSUME NEW k \in Jobs, Accept(k) PROVE InHand(j)'
  <2> DEFINE a == Up("ack", k, "accepted")
  <2>1. /\ Take(k) /\ UNCHANGED down /\ SendUp(<<a>>)
        /\ ledger' = [ledger EXCEPT ![k] = "accepted"] /\ work' = [at |-> "acking", job |-> k]
    BY <1>3 DEF Accept, Record
  <2>2. ledger'[j] # "started"
    BY <1>q, <1>t, <2>1
  <2>3. a \in UpMessage /\ a \notin Resuming(j)
    BY AgentWords DEF UpType, UpStatus
  <2>4. Heard' = Heard \o <<a>>
    BY <1>l, <1>k, <2>1, HeardOnSole
  <2>5. k = j => Busy(j)'
    BY <2>1 DEF Busy
  <2> HIDE DEF a
  <2>6. <<a>> \in Seq(UpMessage) /\ NotIn(<<a>>, Resuming(j))
    BY <2>3, HasOne, SaidOnce
  <2> QED BY <1>k, <1>l, <1>q, <2>1, <2>2, <2>4, <2>5, <2>6, SaidInHand
<1>4. CASE RejectDone
  <2>1. /\ work.at = "rejecting" /\ UNCHANGED <<up, down, queue>>
        /\ ledger' = [ledger EXCEPT ![work.job] = "failed"]
    BY <1>4 DEF RejectDone, Resume, Record, LeaveSession
  <2>2. ledger'[j] = "started" => ledger[j] = "started"
    BY <1>t, <2>1
  <2>3. ~Executing(j) /\ ~Busy(j)
    BY <2>1 DEF Executing, Busy
  <2>4. Heard' = Heard \o <<>>
    BY <1>k, <1>t, <2>1, HeardSame
  <2> QED BY <1>k, <1>l, <1>n, <1>t, <2>1, <2>2, <2>3, <2>4, SaidInHand DEF InHand
<1>5. CASE Start
  <2>1. /\ work.at = "acking" /\ UNCHANGED <<up, down, queue>>
        /\ ledger' = [ledger EXCEPT ![work.job] = "started"]
        /\ work' = [at |-> "executing", job |-> work.job]
    BY <1>5 DEF Start, Resume, Record, LeaveSession
  <2>2. work.job \in Jobs /\ ~Executing(j)
    BY <1>l, <2>1 DEF WorkHasJob, Executing
  <2>3. ledger'[j] = "started" => Executing(j)'
    BY <1>t, <2>1, <2>2 DEF InHand, Executing
  <2>4. Busy(j) => Busy(j)'
    BY <2>1 DEF Busy
  <2>5. Heard' = Heard \o <<>>
    BY <1>k, <1>t, <2>1, HeardSame
  <2> QED BY <1>k, <1>l, <1>n, <1>t, <2>1, <2>2, <2>3, <2>4, <2>5, SaidInHand
<1>6. CASE Finish
  <2>1. /\ work.at = "executing" /\ UNCHANGED <<down, queue>> /\ work' = Idle
        /\ \E entry \in Endings(work.job) :
             /\ ledger' = [ledger EXCEPT ![work.job] = entry]
             /\ SendUp(<<Up("result", work.job, entry)>>)
    BY <1>6 DEF Finish, Record
  <2>2. PICK entry : /\ entry \in {"succeeded", "failed", "outcome_unknown"}
                     /\ ledger' = [ledger EXCEPT ![work.job] = entry]
                     /\ SendUp(<<Up("result", work.job, entry)>>)
    BY <2>1, EndingsAre
  <2>3. work.job \in Jobs
    BY <1>l, <2>1 DEF WorkHasJob
  <2> DEFINE k == work.job
             m == Up("result", k, entry)
  <2>4. /\ m \in UpMessage /\ m \notin Resuming(j)
        /\ k = j => m \in Results(j) /\ m \in Settling(j)
    BY <2>2, <2>3, AgentWords DEF UpType, UpStatus
  <2>5. Heard' = Heard \o <<m>>
    BY <1>l, <1>k, <2>2, HeardOnSole
  <2>6. ledger'[j] # "started"
    BY <1>t, <2>1, <2>2 DEF InHand, Executing
  <2>7. k # j => ~Executing(j) /\ ~Busy(j)
    BY DEF Executing, Busy
  <2> HIDE DEF m, k
  <2>8. /\ <<m>> \in Seq(UpMessage) /\ NotIn(<<m>>, Resuming(j))
        /\ k = j => Has(<<m>>, Results(j)) /\ Has(<<m>>, Settling(j))
    BY <2>4, HasOne, SaidOnce
  <2> QED BY <1>k, <1>l, <2>1, <2>5, <2>6, <2>7, <2>8, SaidInHand
<1> QED BY <1>1, <1>2, <1>3, <1>4, <1>5, <1>6

-----------------------------------------------------------------------------
(* The only session begins with nothing sent, and stays the only one.       *)

\* But for a connection, no step brings a session, and the one that ends is
\* out of the registry.
LEMMA SessionSteps ==
  ASSUME TypeOK, [Next]_vars
  PROVE  \/ \E s \in Session : Connect(s)
         \/ /\ session' \in {session, NoSession} /\ conn' \in {conn, NoSession}
            /\ \A s \in Session : /\ handler'[s] = "none" <=> handler[s] = "none"
                                  /\ handler'[s] = "closed" => handler[s] = "closed" \/ conn' # s
<1> USE DEF envVars, jobVars, connVars, wireVars, agentVars
<1> DEFINE Goal == /\ session' \in {session, NoSession} /\ conn' \in {conn, NoSession}
                   /\ \A s \in Session :
                        /\ handler'[s] = "none" <=> handler[s] = "none"
                        /\ handler'[s] = "closed" => handler[s] = "closed" \/ conn' # s
<1> SUFFICES ASSUME ~ \E s \in Session : Connect(s) PROVE Goal
  OBVIOUS
<1>s. \A s \in Session : s # NoSession
  BY DEF Session, NoSession
<1>1. ASSUME NEW j \in Jobs,
             Create(j) \/ Cancel(j) \/ DeadlinePasses(j) \/ Sweep(j) \/ DispatchRefused(j)
             \/ DispatchOffline(j) \/ DispatchClaimed(j) \/ AnswerKnown(j) \/ Refuse(j) \/ Accept(j)
             \/ HostEnds(j)
      PROVE  Goal
  <2>1. UNCHANGED <<session, conn, handler>>
    BY <1>1 DEF Create, Cancel, DeadlinePasses, Sweep, DispatchRefused, DispatchOffline,
       DispatchClaimed, AnswerKnown, Refuse, Accept, HostEnds
  <2> QED BY <2>1
<1>2. CASE SendReturns \/ SendFails \/ GoStale \/ Heartbeat \/ MarkStale \/ UNCHANGED vars
  <2>1. UNCHANGED <<session, conn, handler>>
    BY <1>2 DEF SendReturns, SendFails, GoStale, Heartbeat, MarkStale, vars
  <2> QED BY <2>1
<1>3. CASE Drop \/ ReceiveWelcome \/ ReceiveEarly \/ ReceiveCommand \/ ReceiveCancel
           \/ ReceiveReconcile \/ RejectDone \/ Start \/ Finish \/ AgentRestart
  <2>1. session' \in {session, NoSession} /\ UNCHANGED <<conn, handler>>
    BY <1>3 DEF Drop, ReceiveWelcome, ReceiveEarly, ReceiveCommand, ReceiveCancel,
       ReceiveReconcile, RejectDone, Start, Finish, AgentRestart, LeaveSession
  <2> QED BY <2>1
<1>4. CASE GatewayRestart
  <2>1. session' = session /\ conn' = NoSession
        /\ handler' = [s \in Session |-> IF handler[s] = "none" THEN "none" ELSE "closed"]
    BY <1>4 DEF GatewayRestart
  <2> QED BY <2>1, <1>s
\* The handler of s ends.
<1>5. ASSUME NEW s \in Session, handler[s] # "none", handler' = [handler EXCEPT ![s] = "closed"],
             conn' = IF conn = s THEN NoSession ELSE conn, session' = session
      PROVE  Goal
  <2>1. \A t \in Session : handler'[t] = IF t = s THEN "closed" ELSE handler[t]
    BY <1>5 DEF TypeOK
  <2> QED BY <1>5, <2>1, <1>s
<1>6. ASSUME NEW s \in Session, Activate(s) \/ Opened(s) PROVE Goal
  <2>1. /\ UNCHANGED <<session, conn>> /\ handler[s] # "none"
        /\ \E step \in {"activating", "open"} : handler' = [handler EXCEPT ![s] = step]
    BY <1>6 DEF Activate, Opened
  <2>2. \A t \in Session : handler'[t] = handler[t] \/ (t = s /\ handler'[t] \in {"activating", "open"})
    BY <2>1 DEF TypeOK
  <2> QED BY <2>1, <2>2
<1>7. ASSUME NEW s \in Session, ActivationFails(s) PROVE Goal
  <2>1. /\ handler[s] # "none" /\ handler' = [handler EXCEPT ![s] = "closed"]
        /\ conn' = (IF conn = s THEN NoSession ELSE conn) /\ session' = session
    BY <1>7 DEF ActivationFails
  <2> QED BY <1>5, <2>1
<1>8. ASSUME NEW s \in Session, EndHandler(s), handler[s] # "none", session' = session PROVE Goal
  BY <1>5, <1>8 DEF EndHandler
<1>9. ASSUME NEW s \in Session, HandlerEnds(s) PROVE Goal
  <2>1. EndHandler(s) /\ handler[s] # "none" /\ session' = session
    BY <1>9 DEF HandlerEnds
  <2> QED BY <1>8, <2>1
<1>10. ASSUME NEW s \in Session, HandleAck(s) \/ HandleResult(s) \/ HandleReconcileResult(s) PROVE Goal
  <2>1. /\ handler[s] = "open" /\ session' = session
        /\ EndHandler(s) \/ UNCHANGED <<conn, handler>>
    BY <1>10, HandlerCases DEF Acked, Finalized, Reconciled, Takes
  <2>2. CASE EndHandler(s)
    BY <1>8, <2>1, <2>2
  <2>3. CASE UNCHANGED <<conn, handler>>
    BY <2>1, <2>3
  <2> QED BY <2>1, <2>2, <2>3
<1> QED
  <2> HIDE DEF Goal
  <2>1. CASE \E j \in Jobs :
               \/ Create(j) \/ Cancel(j) \/ DeadlinePasses(j) \/ Sweep(j) \/ DispatchRefused(j)
               \/ DispatchOffline(j) \/ DispatchClaimed(j) \/ AnswerKnown(j) \/ Refuse(j) \/ Accept(j)
               \/ HostEnds(j)
    BY <1>1, <2>1
  <2>2. CASE \E s \in Session :
               \/ Activate(s) \/ Opened(s) \/ ActivationFails(s) \/ HandlerEnds(s)
               \/ HandleAck(s) \/ HandleResult(s) \/ HandleReconcileResult(s)
    BY <1>6, <1>7, <1>9, <1>10, <2>2
  <2> QED BY <1>2, <1>3, <1>4, <2>1, <2>2 DEF Next

LEMMA RegisteredStep ==
  ASSUME TypeOK, Registered, [Next]_vars PROVE Registered'
<1>1. conn \in Session \cup {NoSession}
  BY DEF TypeOK
<1>2. ASSUME NEW s \in Session, Connect(s) PROVE Registered'
  BY <1>2 DEF Connect, TypeOK, Registered
<1> QED BY <1>1, <1>2, SessionSteps DEF Registered

\* Before the first session no command has been sent, so none has been started.
LEMMA PristineStep ==
  ASSUME TInv, SessionInv, Registered, Pristine, [Next]_vars PROVE Pristine'
<1> SUFFICES ASSUME \A s \in Session : handler'[s] = "none", NEW j \in Jobs
             PROVE  state'[j] \notin InFlight /\ ledger'[j] # "started"
  BY DEF Pristine
<1>t. TypeOK
  BY DEF TInv
<1>c. ASSUME NEW s \in Session, Connect(s) PROVE FALSE
  <2>1. handler'[s] \in {"registered", "replacing"}
    BY <1>c, <1>t DEF Connect, TypeOK
  <2> QED BY <2>1
<1>1. \A s \in Session : handler[s] = "none"
  BY <1>t, <1>c, SessionSteps
<1>2. conn = NoSession /\ session = NoSession
  BY <1>1, <1>t DEF Registered, SessionInv, TypeOK
<1>3. queue = <<>> /\ work.at = "idle"
  BY <1>2 DEF SessionInv
<1>4. state[j] \notin InFlight /\ ledger[j] # "started"
  BY <1>1 DEF Pristine
<1>5. state'[j] \notin InFlight
  <2>1. ASSUME NEW k \in Jobs, NEW target, state' = [state EXCEPT ![k] = target],
               target \in InFlight => state[k] \in InFlight
        PROVE  state'[j] \notin InFlight
    BY <2>1, <1>4, <1>t DEF TypeOK
  <2>2. ASSUME NEW k \in Jobs, Create(k) \/ Sweep(k) \/ DispatchRefused(k) \/ DispatchOffline(k)
        PROVE  state'[j] \notin InFlight
    <3>1. \E target \in {"queued", "needs_attention", "failed", "reconnect_pending"} :
            state' = [state EXCEPT ![k] = target]
      BY <2>2 DEF Create, Sweep, DispatchRefused, DispatchOffline, Move
    <3> QED BY <2>1, <3>1 DEF InFlight
  <2>3. ASSUME NEW k \in Jobs, Cancel(k) PROVE state'[j] \notin InFlight
    <3>1. state' = [state EXCEPT ![k] = CancelTarget(k)]
      BY <2>3 DEF Cancel, Move
    <3>2. CancelTarget(k) \in InFlight => state[k] \in InFlight
      BY DEF CancelTarget, InFlight
    <3> QED BY <2>1, <3>1, <3>2
  <2>4. ASSUME NEW k \in Jobs, DispatchClaimed(k) PROVE FALSE
    BY <2>4, <1>2 DEF DispatchClaimed
  <2>5. ASSUME NEW s \in Session,
               Activate(s) \/ HandlerEnds(s) \/ HandleAck(s) \/ HandleResult(s) \/ HandleReconcileResult(s)
        PROVE  FALSE
    <3>1. handler[s] = "none"
      BY <1>1
    <3> QED BY <2>5, <3>1 DEF Activate, HandlerEnds, HandleAck, HandleResult,
        HandleReconcileResult, Reading
  <2>6. CASE SendFails \/ MarkStale \/ GatewayRestart
    <3>1. state' = Disconnected(state)
      BY <2>6 DEF SendFails, MarkStale, GatewayRestart
    <3> QED BY <3>1, NothingFlies
  <2> QED BY <1>4, <2>2, <2>3, <2>4, <2>5, <2>6, RowSteps
<1>6. ledger'[j] # "started"
  <2>1. ~ \E k \in Jobs : Refuse(k) \/ Accept(k)
    BY <1>3 DEF Refuse, Accept, Take
  <2>2. ~ReceiveCancel /\ ~RejectDone /\ ~Start /\ ~Finish
    BY <1>2, <1>3 DEF ReceiveCancel, Receiving, RejectDone, Start, Finish
  <2>3. AgentRestart => ledger'[j] = Recovered(j)
    BY DEF AgentRestart
  <2>4. Recovered(j) # "started"
    BY <1>4 DEF Recovered
  <2> QED BY <1>4, <2>1, <2>2, <2>3, <2>4, LedgerSteps
<1> QED BY <1>5, <1>6

\* The first session finds every job in hand: there is nothing to be in hand.
LEMMA ConnectInHand ==
  ASSUME TInv, SessionInv, Pristine, NEW s \in Session, Connect(s), Sole', NEW j \in Jobs
  PROVE  InHand(j)'
<1>t. TypeOK
  BY DEF TInv
<1>1. /\ handler[s] = "none" /\ conn' = s /\ s # NoSession /\ UNCHANGED <<state, ledger, up>>
      /\ \A t \in Session : t # s => handler'[t] = handler[t]
  BY <1>t DEF Connect, TypeOK, jobVars, wireVars, Session, NoSession
<1>2. \A t \in Session : handler[t] = "none"
  BY <1>1 DEF Sole
<1>3. state[j] \notin InFlight /\ ledger[j] # "started"
  BY <1>2 DEF Pristine
<1>4. Heard' = <<>>
  BY <1>1 DEF SessionInv, Heard
<1> QED BY <1>1, <1>3, <1>4 DEF InHand, Followed

LEMMA AloneStep == LInv /\ SessionInv /\ AloneInv /\ [Next]_vars => AloneInv'
<1> SUFFICES ASSUME LInv, SessionInv, AloneInv, [Next]_vars PROVE AloneInv'
  OBVIOUS
<1>t. TInv /\ TypeOK /\ Registered /\ Pristine
  BY DEF LInv, TInv, AloneInv
<1>1. Registered' /\ Pristine'
  BY <1>t, RegisteredStep, PristineStep
<1>2. ASSUME Sole', NEW j \in Jobs PROVE InHand(j)'
  <2>c. CASE \E s \in Session : Connect(s)
    BY <1>t, <1>2, <2>c, ConnectInHand
  <2>n. CASE ~ \E s \in Session : Connect(s)
    <3>1. /\ session' \in {session, NoSession} /\ conn' \in {conn, NoSession}
          /\ \A s \in Session : /\ handler'[s] = "none" <=> handler[s] = "none"
                                /\ handler'[s] = "closed" => handler[s] = "closed" \/ conn' # s
      BY <1>t, <2>n, SessionSteps
    <3>2. Sole /\ conn' # NoSession /\ session' # NoSession /\ conn' = conn
      BY <1>2, <3>1 DEF Sole
    <3>3. \A k \in Jobs : InHand(k)
      BY <3>2 DEF AloneInv
    <3>4. ASSUME NEW s \in Session, ActivationFails(s) \/ HandlerEnds(s) PROVE FALSE
      <4>1. handler[s] # "none"
        BY <3>4 DEF ActivationFails, HandlerEnds
      <4>2. conn = s
        BY <3>2, <4>1 DEF Sole
      <4> QED BY <3>2, <3>4, <4>2 DEF ActivationFails, HandlerEnds, EndHandler
    <3>5. CASE \E s \in Session : HandleAck(s) \/ HandleResult(s) \/ HandleReconcileResult(s)
      BY <1>t, <3>2, <3>3, <3>5, MessageInHand
    <3>6. CASE ReceiveWelcome \/ ReceiveCommand \/ ReceiveCancel \/ ReceiveReconcile
      BY <1>t, <3>2, <3>3, <3>6, ReceiveInHand
    <3>7. CASE (\E k \in Jobs : AnswerKnown(k) \/ Refuse(k) \/ Accept(k)) \/ RejectDone \/ Start \/ Finish
      BY <1>t, <3>2, <3>3, <3>7, WorkerInHand
    <3>8. CASE \/ \E k \in Jobs : \/ Create(k) \/ Cancel(k) \/ DeadlinePasses(k) \/ Sweep(k)
                                  \/ DispatchRefused(k) \/ DispatchOffline(k) \/ DispatchClaimed(k)
                                  \/ HostEnds(k)
               \/ \E s \in Session : Activate(s) \/ Opened(s)
               \/ SendReturns \/ SendFails \/ GoStale \/ Heartbeat \/ MarkStale \/ UNCHANGED vars
      BY <1>t, <3>2, <3>3, <3>8, GatewayInHand
    <3>9. ~(Drop \/ ReceiveEarly \/ AgentRestart \/ GatewayRestart)
      BY <3>2 DEF Drop, ReceiveEarly, AgentRestart, GatewayRestart, LeaveSession
    <3> QED BY <2>n, <3>4, <3>5, <3>6, <3>7, <3>8, <3>9 DEF Next
  <2> QED BY <2>c, <2>n
<1> QED BY <1>1, <1>2 DEF AloneInv

LEMMA AloneInit == Init => AloneInv
BY DEF Init, AloneInv, Registered, Pristine, Sole, NoSession, InFlight

LEMMA AloneInvariant == Spec => []AloneInv
<1>1. Spec => [](LInv /\ SessionInv)
  <2>1. OInv => LInv /\ SessionInv
    BY DEF OInv, RInv
  <2> QED BY <2>1, OutcomeInvariant, PTL
<1> QED BY <1>1, AloneInit, AloneStep, PTL DEF Spec

\* On the only session there has been, two quiet ends leave no job waiting for
\* an answer that nobody is going to send: no full queue, refused command, lost
\* send, stale heartbeat or deadline loses it (handle_disconnect, _handle_result).
THEOREM NobodyForgotten == Spec => []NothingForgottenAlone
<1>1. TypeOK /\ AloneInv => NothingForgottenAlone
  <2> SUFFICES ASSUME TypeOK, AloneInv, \A s \in Session : handler[s] # "none" => s = conn, Quiet,
                      NEW j \in Jobs, state[j] \in InFlight
               PROVE  FALSE
    BY DEF NothingForgottenAlone, NothingForgotten
  <2>1. /\ down = <<>> /\ queue = <<>> /\ Heard = <<>> /\ work.at = "idle" /\ sending.job # j
    BY NoJobIsNoJob DEF Quiet, Heard, Idle, NotSending
  <2>2. Held(j)
    BY DEF AloneInv, Sole, Quiet, InHand
  <2>3. \A P : ~Has(<<>>, P)
    BY DEF Has
  <2> QED BY <2>1, <2>2, <2>3 DEF Held, Busy
<1>2. Spec => []TypeOK
  BY TypeCorrect
<1> QED BY <1>1, <1>2, AloneInvariant, PTL
=============================================================================
