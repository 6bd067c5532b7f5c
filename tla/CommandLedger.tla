---------------------------- MODULE CommandLedger ----------------------------
(***************************************************************************)
(* The Desktop Agent's durable command ledger (ledger.py): one entry per   *)
(* command, whose state only grows and is frozen once terminal.  "none"    *)
(* stands for a command the ledger has no row for.                         *)
(***************************************************************************)
EXTENDS Naturals

LedgerTerminal == {"succeeded", "failed", "cancelled", "outcome_unknown"}
LedgerState    == {"none", "received", "accepted", "started"} \cup LedgerTerminal

Rank(entry) == CASE entry = "none"     -> 0
                 [] entry = "received" -> 1
                 [] entry = "accepted" -> 2
                 [] entry = "started"  -> 3
                 [] OTHER              -> 4

\* Mutant: a frozen or further entry can be overwritten.
CanMoveAnywhere(entry, target) == entry # "none"

\* What transition() accepts; on anything else it raises LedgerConflict.
CanMove(entry, target) ==
  entry \notin {"none"} \cup LedgerTerminal /\ Rank(target) >= Rank(entry)

\* Mutant: a started command is reported as if it could be sent again.
ReconcileStatusForgetsStart(entry) ==
  IF entry \in LedgerTerminal THEN entry ELSE "not_started"

\* What the Agent answers when the Gateway asks about a command.
ReconcileStatus(entry) ==
  CASE entry \in {"none", "received", "accepted"} -> "not_started"
    [] OTHER                                      -> entry
=============================================================================
