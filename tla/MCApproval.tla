----------------------------- MODULE MCApproval ------------------------------
(***************************************************************************)
(* Instances of Approval for TLC.                                          *)
(***************************************************************************)
EXTENDS Approval

CONSTANTS c1, s1, s2, r1, one, plan, undo

\* Two sealed commits share a plan.
MCSubjectOf ==
  [k \in Keys |-> CASE k \in Programs -> one
                    [] k \in Sealed   -> plan
                    [] OTHER          -> undo]
=============================================================================
