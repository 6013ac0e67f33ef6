------------------------------- MODULE MCAgentRuns -------------------------------
(***************************************************************************)
(* Two agents with workflows: that of a calls b, that of b calls c, and c    *)
(* has none but may delegate to a, whose workflow is then skipped.           *)
(***************************************************************************)
EXTENDS AgentRuns, TLC

CONSTANTS a, b, c
MCTarget == (a :> b) @@ (b :> c) @@ (c :> None)
MCSubs == (a :> {}) @@ (b :> {}) @@ (c :> {a})
=============================================================================
