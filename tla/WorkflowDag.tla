------------------------------ MODULE WorkflowDag ------------------------------
(***************************************************************************)
(* How LangGraphWorkflowEngine turns a workflow definition into supersteps. *)
(* A definition is validated and compiled to edges; then a 'schedule' node  *)
(* and the nodes it found ready alternate: every ready node runs, its       *)
(* result and the edges it selected are merged when all of them are done,   *)
(* and schedule settles what can no longer be activated as skipped.         *)
(* A node selects a subset of its edges: all of them, the branch of a       *)
(* condition or classifier, or none at an end node (nextFor).               *)
(***************************************************************************)
EXTENDS Naturals, FiniteSets

CONSTANTS
    N,            \* number of nodes; a node is its position in the definition
    Definitions   \* the [version, next] records a run may start with

Node    == 1 .. N
Unknown == 0      \* an id in nextIds that no node has

\* A definition without nodes is compiled to another graph.
ASSUME DefinitionAssumption ==
    N \in Nat \ {0} /\
    Definitions \subseteq [version : {1, 2}, next : [Node -> SUBSET (Node \cup {Unknown})]]

VARIABLES
    def,        \* the definition: schemaVersion and nextIds
    edges,      \* compiled edges of each node
    phase,      \* where the execution is
    ready,      \* nodes the last schedule found ready
    done, skipped, selected     \* the LangGraph state; selected is {} if unset

graphState == <<done, skipped, selected>>
dagVars == <<def, edges, phase, ready, graphState>>

Outcomes == {"finished", "invalid", "stuck", "failed"}

DagTypeOK ==
    /\ def \in Definitions
    /\ edges \in [Node -> SUBSET Node]
    /\ phase \in {"compile", "schedule", "run"} \cup Outcomes
    /\ ready \subseteq Node /\ done \subseteq Node /\ skipped \subseteq Node
    /\ selected \in [Node -> SUBSET Node]

DagInit ==
    /\ def \in Definitions
    /\ edges = [n \in Node |-> {}]
    /\ phase = "compile"
    /\ ready = {} /\ done = {} /\ skipped = {}
    /\ selected = [n \in Node |-> {}]
-----------------------------------------------------------------------------
InArrayOrder(S) == {pair \in S \X S : pair[1] < pair[2]}

\* Nodes of R that no other node of R leads to.
Free(R) == {n \in R : \A p \in R \ {n} : n \notin def.next[p]}

\* legacyOrder, as the pairs in which one node comes before another: layer by
\* layer, each in array order and before the rest; a cycle is left as it is.
Layer(R) == InArrayOrder(Free(R)) \cup (Free(R) \X (R \ Free(R)))
ordered[R \in SUBSET Node] ==
    IF Free(R) = {} THEN InArrayOrder(R) ELSE Layer(R) \cup ordered[R \ Free(R)]
legacyOrderAsGiven == InArrayOrder(Node)     \* mutant: the array order is kept
legacyOrder == ordered[Node]

\* Kahn's loop of validateDefinition: the nodes whose indegree never drops to 0.
KahnFree(R) == {n \in R : \A p \in R : n \notin def.next[p]}
left[R \in SUBSET Node] == IF KahnFree(R) = {} THEN R ELSE left[R \ KahnFree(R)]
Unvisited == left[Node]

ValidDefinition ==
    def.version = 2 =>
        /\ \A n \in Node : Unknown \notin def.next[n]
        /\ Unvisited = {}

\* Version 1 runs the nodes as a chain in legacyOrder, version 2 along nextIds.
Successor(n) ==
    {m \in Node : <<n, m>> \in legacyOrder
                  /\ \A k \in Node : <<n, k>> \notin legacyOrder \/ <<k, m>> \notin legacyOrder}
Compile ==
    /\ phase = "compile"
    /\ IF ValidDefinition
       THEN /\ edges' = [n \in Node |-> IF def.version = 1 THEN Successor(n) ELSE def.next[n]]
            /\ phase' = "schedule"
       ELSE phase' = "invalid" /\ UNCHANGED edges
    /\ UNCHANGED <<def, ready, graphState>>
-----------------------------------------------------------------------------
Parents(n) == {p \in Node : n \in edges[p]}
SelectsAll(n) == \E p \in Parents(n) : p \in done     \* mutant: every branch is taken
Selects(n) == \E p \in Parents(n) : n \in selected[p]

\* A node all of whose parents are settled without selecting it is skipped, and
\* that settles it for its own successors: the while loop of schedule.
Dead(settled) ==
    {n \in Node \ settled : Parents(n) # {} /\ Parents(n) \subseteq settled /\ ~Selects(n)}
SettleOnce == done \cup skipped \cup Dead(done \cup skipped)   \* mutant: one pass only
close[S \in SUBSET Node] == IF Dead(S) = {} THEN S ELSE close[S \cup Dead(S)]
Settle == close[done \cup skipped]

ReadyAfterAny(settled) ==      \* mutant: a join does not wait for its other parents
    {n \in Node \ settled : Parents(n) = {} \/ Selects(n)}
Ready(settled) ==
    {n \in Node \ settled : Parents(n) \subseteq settled /\ (Parents(n) = {} \/ Selects(n))}

Schedule ==
    /\ phase = "schedule"
    /\ skipped' = Settle \ done
    /\ ready' = Ready(Settle)
    /\ phase' = IF ready' # {} THEN "run" ELSE IF Settle = Node THEN "finished" ELSE "stuck"
    /\ UNCHANGED <<def, edges, done, selected>>

\* The ready nodes run concurrently; each returns edges of its own.
Selections(n) == IF def.version = 1 THEN {edges[n]} ELSE SUBSET edges[n]
Superstep ==
    /\ phase = "run"
    /\ \E choice \in [ready -> SUBSET Node] :
         /\ \A n \in ready : choice[n] \in Selections(n)
         /\ selected' = [n \in Node |-> IF n \in ready THEN choice[n] ELSE selected[n]]
    /\ done' = done \cup ready
    /\ phase' = "schedule"
    /\ UNCHANGED <<def, edges, ready, skipped>>

\* A node throws (its executor, inputFrom or an undeclared edge) or the run is aborted.
NodeFails ==
    /\ phase \in {"schedule", "run"}
    /\ phase' = "failed"
    /\ UNCHANGED <<def, edges, ready, graphState>>

DagNext == Compile \/ Schedule \/ Superstep \/ NodeFails

DagSpec == DagInit /\ [][DagNext]_dagVars /\ WF_dagVars(Compile \/ Schedule \/ Superstep)

\* The result of the run: the executed nodes that activated nothing.
Terminals == {n \in done : edges[n] = {} \/ selected[n] = {}}
-----------------------------------------------------------------------------
\* The nodes that n leads to along one or more edges: they are in every set that
\* has the targets of n and, with a node, its targets.
Closed(next, C) == \A p \in C : next[p] \cap Node \subseteq C
After(next, n) ==
    {m \in Node : \A C \in SUBSET Node : next[n] \cap Node \subseteq C /\ Closed(next, C) => m \in C}
Cyclic == \E n \in Node : n \in After(def.next, n)

\* validateDefinition refuses exactly the version 2 definitions with a cycle or
\* an unknown target; version 1 is compiled whatever its edges are.
ValidationExact ==
    phase = "compile" =>
        (ValidDefinition <=> (def.version = 2 => ~Cyclic /\ \A n \in Node : Unknown \notin def.next[n]))

\* Every node of a finished run was executed or skipped, and executed exactly
\* when it is a root or an executed node selected it, however the branches went;
\* one of the executed nodes gives the result, so the input is never echoed.
ActivationExact ==
    phase = "finished" =>
        /\ done \cap skipped = {} /\ done \cup skipped = Node
        /\ \A n \in Node :
             n \in done <=> (Parents(n) = {} \/ \E p \in done : n \in selected[p])
        /\ Terminals # {}

\* A join runs once, after all its parents are done or skipped and at least one
\* of them selected it (P0-ARCHITECTURE.md:44); what was skipped never runs.
JoinWaits ==
    [][\A n \in done' \ done :
         /\ n \notin skipped
         /\ Parents(n) \subseteq done \cup skipped
         /\ Parents(n) # {} => Selects(n)]_dagVars

\* Version 1 compiles to a chain of all the nodes that runs every edge of an
\* acyclic definition forwards (legacyOrder).
ChainKeepsEdges ==
    (def.version = 1 /\ phase = "schedule" /\ done = {} /\ ~Cyclic) =>
        \A n, m \in Node : m \in def.next[n] => m \in After(edges, n)

\* Every execution ends, and never at 'Workflow cannot make progress': the loop of
\* schedule and nodes terminates, whatever the nodes select.
ExecutionEnds == <>(phase \in Outcomes \ {"stuck"})
=============================================================================
