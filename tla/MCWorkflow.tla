---------------------------- MODULE MCWorkflow -----------------------------
(***************************************************************************)
(* Instances of Workflow for TLC.                                          *)
(***************************************************************************)
EXTENDS Workflow

CONSTANTS plate, dimension, audit

MCReadsOf ==
  [r \in Runs |-> CASE r = plate     -> <<"preview">>
                     [] r = dimension -> <<"build_scene", "preview">>
                     [] OTHER         -> <<"build_scene">>]

MCCasts ==
  { [runs |-> {dimension, audit}, handlers |-> {"loop", "client"}],
    [runs |-> {dimension},        handlers |-> {"loop", "agent", "client"}],
    [runs |-> {plate},            handlers |-> {"loop", "agent", "client"}] }
=============================================================================
