----------------------------- MODULE MCWorkflowDag ------------------------------
(***************************************************************************)
(* Every definition over four nodes without unknown targets and self-loops *)
(* in both versions, and in addition the ones whose first node also has an *)
(* edge to itself or to an id nobody has (there the last node is an end):  *)
(* all joins, diamonds and cycles four nodes allow, in every array order.  *)
(***************************************************************************)
EXTENDS WorkflowDag

Plain == {next \in [1 .. 4 -> SUBSET (1 .. 4)] : \A n \in 1 .. 4 : n \notin next[n]}
Odd == {[next EXCEPT ![1] = @ \cup {t}] : next \in {f \in Plain : f[4] = {}}, t \in {0, 1}}
MCDefinitions == [version : {1, 2}, next : Plain \cup Odd]
=============================================================================
