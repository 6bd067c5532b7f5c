----------------------------- MODULE JobOutcome ------------------------------
(***************************************************************************)
(* What a client of the Gateway is promised about a job, with no sessions, *)
(* messages or ledger in sight: the Host begins a job at most once, a job  *)
(* is reported succeeded only after its effect is there, reported          *)
(* cancelled only if the Host never began it and never will, and a report  *)
(* is final.                                                                 *)
(***************************************************************************)
CONSTANTS Jobs

VARIABLES
  report,   \* report[j]: what the client is told
  effect    \* effect[j]: what the Host has done

Report == {"none", "pending", "succeeded", "failed", "cancelled", "needs_attention"}
Effect == {"idle", "running", "applied", "refused"}

Final == {"succeeded", "failed", "cancelled", "needs_attention"}

Init ==
  /\ report = [j \in Jobs |-> "none"]
  /\ effect = [j \in Jobs |-> "idle"]

Tell(j, word) == report' = [report EXCEPT ![j] = word] /\ UNCHANGED effect

Submit(j) == report[j] = "none" /\ Tell(j, "pending")

\* Work may begin on anything submitted that was not reported cancelled.
Begin(j) ==
  /\ report[j] \notin {"none", "cancelled"} /\ effect[j] = "idle"
  /\ effect' = [effect EXCEPT ![j] = "running"]
  /\ UNCHANGED report

End(j) ==
  /\ effect[j] = "running"
  /\ \E outcome \in {"applied", "refused"} : effect' = [effect EXCEPT ![j] = outcome]
  /\ UNCHANGED report

Settle(j) ==
  /\ report[j] = "pending"
  /\ \/ effect[j] = "applied" /\ Tell(j, "succeeded")
     \/ effect[j] = "idle" /\ Tell(j, "cancelled")
     \/ Tell(j, "failed")
     \/ Tell(j, "needs_attention")

Next == \E j \in Jobs : Submit(j) \/ Begin(j) \/ End(j) \/ Settle(j)

Spec == Init /\ [][Next]_<<report, effect>>
=============================================================================
