------------------------------- MODULE Grant --------------------------------
(***************************************************************************)
(* What trusted approval promises, with no messages, sessions or crashes   *)
(* in sight: a commit is carried out only on a grant, a grant is given     *)
(* only on request and at most once, it is spent by the one job it allows  *)
(* and by nothing else, what is refused or withdrawn stays so, and of the  *)
(* jobs that write the document only one is active at a time.              *)
(***************************************************************************)
CONSTANTS Keys

VARIABLES
  grant,     \* grant[k]
  answered,  \* keys an approver has answered
  work       \* work[k]: the job of this commit

Init ==
  /\ grant = [k \in Keys |-> "none"]
  /\ answered = {}
  /\ work = [k \in Keys |-> "none"]

Become(k, word) == grant' = [grant EXCEPT ![k] = word]

\* An approver answers a request once.
Answer(k) ==
  /\ grant[k] = "asked" /\ k \notin answered
  /\ answered' = answered \cup {k}

Request(k) == grant[k] = "none" /\ Become(k, "asked") /\ UNCHANGED <<answered, work>>

Grant(k)   == Answer(k) /\ Become(k, "granted") /\ UNCHANGED work

Refuse(k)  == Answer(k) /\ Become(k, "refused") /\ UNCHANGED work

\* A grant that came too late is withdrawn in the same step.
Withdraw(k) ==
  /\ \/ Answer(k)
     \/ grant[k] \in {"asked", "granted"} /\ UNCHANGED answered
  /\ Become(k, "withdrawn")
  /\ UNCHANGED work

\* A grant is spent when it is given, or later.
Spend(k) ==
  /\ \/ Answer(k)
     \/ grant[k] = "granted" /\ UNCHANGED answered
  /\ \A j \in Keys : work[j] # "active"
  /\ Become(k, "spent")
  /\ work' = [work EXCEPT ![k] = "active"]

Finish(k) ==
  /\ work[k] = "active"
  /\ \E word \in {"succeeded", "failed"} : work' = [work EXCEPT ![k] = word]
  /\ UNCHANGED <<grant, answered>>

Next == \E k \in Keys :
  Request(k) \/ Grant(k) \/ Refuse(k) \/ Withdraw(k) \/ Spend(k) \/ Finish(k)

Spec == Init /\ [][Next]_<<grant, answered, work>>
=============================================================================
