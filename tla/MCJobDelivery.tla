---------------------------- MODULE MCJobDelivery ----------------------------
(***************************************************************************)
(* Instances of JobDelivery for TLC.                                       *)
(***************************************************************************)
EXTENDS JobDelivery

\* Two casts: the reads, over every session and restart; or two of the other jobs,
\* which share one session.
OneCast ==
  \/ \A j \in Jobs \ Observes : state'[j] = "absent"
  \/ /\ \A j \in Observes : state'[j] = "absent"
     /\ \A s \in Session : s > 1 => handler'[s] = "none"
     /\ restarts' = 0
     /\ Cardinality({j \in Jobs : state'[j] # "absent"}) <= 2
=============================================================================
