------------------------------- MODULE DurableRun -------------------------------
(***************************************************************************)
(* What a workflow run promises its user, without workers or leases: the   *)
(* status only takes the documented transitions, each node contributes one *)
(* result that is never replaced, results appear parents first, and a run  *)
(* that was asked to stop contributes nothing more and never succeeds.     *)
(***************************************************************************)
CONSTANTS
    Node, Edges,   \* the graph of the definition
    Result, None   \* results a node can have, and none (not a result)

VARIABLES
    state,      \* status of the run
    stopped,    \* a cancel was accepted
    results     \* the result of each node, None while it has none

avars == <<state, stopped, results>>

Init ==
    /\ state = "none"
    /\ stopped = FALSE
    /\ results = [n \in Node |-> None]

Submit == state = "none" /\ state' = "pending" /\ UNCHANGED <<stopped, results>>

\* A worker takes the run, or takes it over, or resumes it.
Take ==
    /\ state \in {"pending", "running", "failed", "interrupted"}
    /\ ~stopped
    /\ state' = "running"
    /\ UNCHANGED <<stopped, results>>

\* The frontier of one superstep contributes its results together.
Advance ==
    /\ state = "running" /\ ~stopped
    /\ \E frontier \in SUBSET {n \in Node : results[n] = None} :
         /\ \A n \in frontier : \A m \in Node : <<m, n>> \in Edges => results[m] # None
         /\ results' \in [Node -> Result \cup {None}]
         /\ \A n \in Node : n \in frontier <=> results'[n] # results[n]
    /\ UNCHANGED <<state, stopped>>

Complete ==
    /\ state = "running" /\ ~stopped
    /\ \A n \in Node : results[n] # None
    /\ state' = "succeeded"
    /\ UNCHANGED <<stopped, results>>

Break ==
    /\ state = "running" /\ ~stopped
    /\ state' \in {"failed", "interrupted"}
    /\ UNCHANGED <<stopped, results>>

\* A cancel settles the run at once or leaves that to the worker that runs it.
Stop ==
    /\ state \notin {"none", "succeeded", "cancelled"}
    /\ stopped' = TRUE
    /\ \/ state' = "cancelled"
       \/ state = "running" /\ UNCHANGED state
    /\ UNCHANGED results

Stopped ==
    /\ state = "running" /\ stopped
    /\ state' = "cancelled"
    /\ UNCHANGED <<stopped, results>>

Next == Submit \/ Take \/ Advance \/ Complete \/ Break \/ Stop \/ Stopped

Spec == Init /\ [][Next]_avars
=============================================================================
