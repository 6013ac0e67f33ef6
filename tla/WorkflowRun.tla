------------------------------ MODULE WorkflowRun ------------------------------
(***************************************************************************)
(* One row of workflow_runs executed by several backend workers.           *)
(*                                                                         *)
(* WorkflowRuntimeService claims the row with a lease, drives LangGraph,   *)
(* records every node in a ledger (workflow_node_executions) and LangGraph *)
(* saves a checkpoint per superstep through MysqlCheckpointer.  Each SQL   *)
(* statement is atomic and every await between two statements is a place   *)
(* where other workers run, so each statement is an action of its own.     *)
(*                                                                         *)
(* An Owner is one call of executeOwned, named by the randomUUID it writes *)
(* to lease_owner.  A node's result is named by the owner that computed    *)
(* it, which tells any two computations of the same node apart.            *)
(* The database clock only decides whether a lease is over, so it is       *)
(* abstracted to "live" / "expired".                                       *)
(***************************************************************************)
EXTENDS Naturals, FiniteSets

CONSTANTS
    Owner,       \* the randomUUIDs of executeOwned; bounds the claims of a run
    Node,        \* nodes of the frozen definition
    Edges,       \* nextIds: <<from, to>> pairs; every edge is selected here
    Impure,      \* nodes whose type is not in the "pure" list
    None,        \* no owner / no result
    MaxMishaps   \* bound on crashes, stalls, failures and user resumes

ASSUME NoneAssumption == None \notin Owner
ASSUME NodeAssumption == Impure \subseteq Node /\ Edges \subseteq Node \X Node
ASSUME MishapAssumption == MaxMishaps \in Nat

VARIABLES
    status, leaseOwner, lease, cancelRequested,  \* the workflow_runs row
    ledger,          \* workflow_node_executions: [status, value] per node
    ckpt, writes,    \* newest checkpoint and its pending writes
    pc, resume, aborted,    \* executeOwned of each owner; its AbortController
    done, value, task,      \* LangGraph state and the executeNode calls
    mishaps,                \* bound counter
    starts, consumed        \* history: see StartExecutor, BeginNode

row   == <<status, leaseOwner, lease, cancelRequested>>
checkpoints == <<ckpt, writes>>
local == <<resume, done, value>>
hist  == <<starts, consumed>>
vars  == <<row, ledger, checkpoints, pc, aborted, task, local, mishaps, hist>>

Values   == Owner \cup {None}
Statuses == {"none", "pending", "running", "succeeded", "failed",
             "interrupted", "cancelled"}
Pcs      == {"idle", "claim", "decide", "load", "input", "step", "publish",
             "catch", "catchAmbiguous", "ended"}
Waiting  == {"readLedger", "guard", "insert", "exec", "save", "putWrites"}
Tasks    == Waiting \cup {"idle", "written", "failed", "ambiguous"}

TypeOK ==
    /\ status \in Statuses
    /\ leaseOwner \in Values
    /\ lease \in {"none", "live", "expired"}
    /\ cancelRequested \in BOOLEAN
    /\ ledger \in [Node -> [status : {"none", "running", "succeeded"},
                            value : Values]]
    /\ ckpt \in [saved : BOOLEAN, done : SUBSET Node, value : [Node -> Values]]
    /\ writes \in [Node -> Values]
    /\ pc \in [Owner -> Pcs]
    /\ resume \in [Owner -> BOOLEAN]
    /\ aborted \in [Owner -> BOOLEAN]
    /\ done \in [Owner -> SUBSET Node]
    /\ value \in [Owner -> [Node -> Values]]
    /\ task \in [Owner -> [Node -> Tasks]]
    /\ mishaps \in 0 .. MaxMishaps
    /\ starts \in [Impure -> Nat]
    /\ consumed \in [Node -> SUBSET Values]

NoValues == [n \in Node |-> None]
NoTasks  == [n \in Node |-> "idle"]

Init ==
    /\ status = "none" /\ leaseOwner = None /\ lease = "none"
    /\ cancelRequested = FALSE
    /\ ledger = [n \in Node |-> [status |-> "none", value |-> None]]
    /\ ckpt = [saved |-> FALSE, done |-> {}, value |-> NoValues]
    /\ writes = NoValues
    /\ pc = [o \in Owner |-> "idle"]
    /\ resume = [o \in Owner |-> FALSE]
    /\ aborted = [o \in Owner |-> FALSE]
    /\ done = [o \in Owner |-> {}]
    /\ value = [o \in Owner |-> NoValues]
    /\ task = [o \in Owner |-> NoTasks]
    /\ mishaps = 0
    /\ starts = [n \in Impure |-> 0]
    /\ consumed = [n \in Node |-> {}]

-----------------------------------------------------------------------------
(* Shared conditions of the SQL statements.                                *)

Settled == {"succeeded", "failed", "interrupted", "cancelled"}

\* WHERE lease_owner=? AND status='running' AND lease_until>NOW(3)
Holds(o) == leaseOwner = o /\ status = "running" /\ lease = "live"

\* Mutant of Fence: the conjunct cancel_requested=0 is forgotten.
FenceIgnoresCancel(o) == Holds(o)

\* Mutant of Fence: the conjunct lease_owner=? is forgotten.
FenceAnyOwner(o) == status = "running" /\ lease = "live" /\ ~cancelRequested

\* ... AND cancel_requested=0: the fence of guard(), of node completion and of
\* every checkpoint write.
Fence(o) == Holds(o) /\ ~cancelRequested

Parents(n) == {m \in Node : <<m, n>> \in Edges}
Terminals  == {n \in Node : \A m \in Node : <<n, m>> \notin Edges}
Ready(o)   == {n \in Node \ done[o] : Parents(n) \subseteq done[o]}

InEngine(o) == pc[o] \in {"load", "input", "step"}
Active(o)   == pc[o] \notin {"idle", "claim", "ended"}

Mishap == mishaps < MaxMishaps /\ mishaps' = mishaps + 1

SetTask(o, n, to) == task' = [task EXCEPT ![o][n] = to]
Goto(o, to)       == pc' = [pc EXCEPT ![o] = to]

\* The finally block: timers are cleared and the LangGraph state is dropped.
\* executeNode calls still waiting on a promise go on in the background.
Finally(o) ==
    LET zombies == {n \in Node : task[o][n] \in Waiting} IN
    /\ pc' = [pc EXCEPT ![o] = "ended"]
    /\ done' = [done EXCEPT ![o] = {}]
    /\ value' = [value EXCEPT ![o] =
                    [n \in Node |-> IF n \in zombies THEN @[n] ELSE None]]
    /\ task' = [task EXCEPT ![o] =
                    [n \in Node |-> IF n \in zombies THEN @[n] ELSE "idle"]]
    /\ resume' = [resume EXCEPT ![o] = FALSE]
    /\ aborted' = [aborted EXCEPT ![o] = @ /\ zombies # {}]

-----------------------------------------------------------------------------
(* API calls and the recovery scan.                                        *)

\* start(): INSERT the row, then execute() unless the worker is at capacity.
Start ==
    /\ status = "none"
    /\ status' = "pending"
    /\ \/ UNCHANGED pc
       \/ \E o \in Owner : pc[o] = "idle" /\ Goto(o, "claim")
    /\ UNCHANGED <<leaseOwner, lease, cancelRequested, ledger, checkpoints, aborted,
                   task, local, mishaps, hist>>

\* resume(): asked for by a user, so it is charged to the bound.
Resume(o) ==
    /\ pc[o] = "idle"
    /\ status \notin {"none", "succeeded", "cancelled"}
    /\ Mishap
    /\ Goto(o, "claim")
    /\ resume' = [resume EXCEPT ![o] = TRUE]
    /\ UNCHANGED <<row, ledger, checkpoints, aborted, task, done, value, hist>>

\* Mutant of Recover: the scan only looks for runs that never started.
RecoverPendingOnly(o) ==
    /\ pc[o] = "idle"
    /\ ~cancelRequested
    /\ status = "pending"
    /\ lease # "live"
    /\ Goto(o, "claim")
    /\ UNCHANGED <<row, ledger, checkpoints, aborted, task, local, mishaps, hist>>

\* recover(): the row's status is read here, the claim comes later.
Recover(o) ==
    /\ pc[o] = "idle"
    /\ ~cancelRequested
    /\ status \in {"pending", "running"}
    /\ lease # "live"
    /\ Goto(o, "claim")
    /\ resume' = [resume EXCEPT ![o] = (status # "pending")]
    /\ UNCHANGED <<row, ledger, checkpoints, aborted, task, done, value, mishaps, hist>>

\* cancel(): settles the row itself only when nobody owns it; otherwise the
\* owner learns from the flag, or from its AbortController when the call reached
\* the worker that runs it.
Cancel ==
    /\ status \notin {"none", "succeeded", "cancelled"}
    /\ cancelRequested' = TRUE
    /\ status' = IF status \in {"pending", "failed", "interrupted"} \/ lease # "live"
                 THEN "cancelled" ELSE status
    /\ \E reached \in {{}} \cup {{o} : o \in {x \in Owner : Active(x)}} :
         aborted' = [o \in Owner |-> aborted[o] \/ o \in reached]
    /\ UNCHANGED <<leaseOwner, lease, ledger, checkpoints, pc, task, local, mishaps, hist>>

-----------------------------------------------------------------------------
(* executeOwned.                                                           *)

\* The compare-and-set that takes the lease; 0 changed rows is a Conflict.
ClaimGuard ==
    /\ status \in {"pending", "running", "failed", "interrupted"}
    /\ ~cancelRequested
    /\ lease # "live"

Claim(o) ==
    /\ pc[o] = "claim"
    /\ IF ClaimGuard
       THEN /\ status' = "running" /\ leaseOwner' = o /\ lease' = "live"
            /\ Goto(o, "decide")
            /\ UNCHANGED resume
       ELSE /\ Goto(o, "idle")
            /\ resume' = [resume EXCEPT ![o] = FALSE]
            /\ UNCHANGED <<status, leaseOwner, lease>>
    /\ UNCHANGED <<cancelRequested, ledger, checkpoints, aborted, task, done, value,
                   mishaps, hist>>

\* Resuming without a checkpoint is refused once a node has begun.
Decide(o) ==
    /\ pc[o] = "decide"
    /\ IF resume[o] /\ ~ckpt.saved
       THEN IF \E n \in Node : ledger[n].status # "none"
            THEN Goto(o, "catch") /\ UNCHANGED resume
            ELSE Goto(o, "load") /\ resume' = [resume EXCEPT ![o] = FALSE]
       ELSE Goto(o, "load") /\ UNCHANGED resume
    /\ UNCHANGED <<row, ledger, checkpoints, aborted, task, done, value, mishaps, hist>>

\* Mutant of Load: a fresh run starts its nodes before the input is saved.
LoadStartsNodes(o) ==
    /\ pc[o] = "load"
    /\ done' = [done EXCEPT ![o] = ckpt.done]
    /\ value' = [value EXCEPT ![o] = ckpt.value]
    /\ Goto(o, "step")
    /\ UNCHANGED <<row, ledger, checkpoints, aborted, task, resume, mishaps, hist>>

\* LangGraph loads the newest checkpoint.  A resumed run keeps the pending
\* writes; a fresh input on an existing thread drops them.
Load(o) ==
    /\ pc[o] = "load"
    /\ done' = [done EXCEPT ![o] = ckpt.done]
    /\ value' = [value EXCEPT ![o] = [n \in Node |->
                   IF n \in ckpt.done \/ ~resume[o] THEN ckpt.value[n] ELSE writes[n]]]
    /\ task' = [task EXCEPT ![o] = [n \in Node |->
                   IF resume[o] /\ writes[n] # None THEN "written" ELSE "idle"]]
    /\ Goto(o, IF resume[o] THEN "step" ELSE "input")
    /\ resume' = [resume EXCEPT ![o] = FALSE]
    /\ UNCHANGED <<row, ledger, checkpoints, aborted, mishaps, hist>>

\* Mutant of PutCheckpoint: the insert is not fenced.
PutCheckpointUnfenced(o, nodes) ==
    /\ ckpt' = [saved |-> TRUE, done |-> nodes,
                value |-> [n \in Node |-> IF n \in nodes THEN value[o][n] ELSE None]]
    /\ writes' = NoValues
    /\ Goto(o, "step")

\* MysqlCheckpointer.put: INSERT ... SELECT under the fence; 0 rows throws.
PutCheckpoint(o, nodes) ==
    IF Fence(o)
    THEN /\ ckpt' = [saved |-> TRUE, done |-> nodes,
                     value |-> [n \in Node |->
                                  IF n \in nodes THEN value[o][n] ELSE None]]
         /\ writes' = NoValues
         /\ Goto(o, "step")
    ELSE Goto(o, "catch") /\ UNCHANGED checkpoints

\* The checkpoint of a fresh input, saved before any node runs.
PutInput(o) ==
    /\ pc[o] = "input"
    /\ PutCheckpoint(o, done[o])
    /\ UNCHANGED <<row, ledger, aborted, task, local, mishaps, hist>>

\* End of a superstep: every ready node has written, the checkpoint is saved
\* synchronously and the schedule node computes the next frontier.
EndSuperstep(o) ==
    /\ pc[o] = "step" /\ ~aborted[o]
    /\ Ready(o) # {}
    /\ \A n \in Ready(o) : task[o][n] = "written"
    /\ PutCheckpoint(o, done[o] \cup Ready(o))
    /\ done' = [done EXCEPT ![o] = @ \cup Ready(o)]
    /\ task' = [task EXCEPT ![o] = NoTasks]
    /\ UNCHANGED <<row, ledger, aborted, resume, value, mishaps, hist>>

\* engine.execute returned: guard() before the result is published.
GuardPublish(o) ==
    /\ pc[o] = "step"
    /\ done[o] = Node
    /\ IF ~aborted[o] /\ Fence(o)
       THEN Goto(o, "publish") /\ UNCHANGED aborted
       ELSE Goto(o, "catch") /\ aborted' = [aborted EXCEPT ![o] = TRUE]
    /\ UNCHANGED <<row, ledger, checkpoints, task, local, mishaps, hist>>

\* The publishing UPDATE ignores how many rows it changed.
PublishGuard(o) == leaseOwner = o /\ status = "running" /\ ~cancelRequested

Publish(o) ==
    /\ pc[o] = "publish"
    /\ IF PublishGuard(o)
       THEN /\ status' = "succeeded" /\ leaseOwner' = None /\ lease' = "none"
            /\ consumed' = [n \in Node |-> IF n \in Terminals
                              THEN consumed[n] \cup {value[o][n]} ELSE consumed[n]]
       ELSE UNCHANGED <<status, leaseOwner, lease, consumed>>
    /\ Finally(o)
    /\ UNCHANGED <<cancelRequested, ledger, checkpoints, mishaps, starts>>

\* LangGraph rejects with the error of a node that failed, or because the
\* signal was aborted; it does not wait for the other nodes.
EngineRejects(o) ==
    /\ \/ pc[o] = "step" /\ (\E n \in Node : task[o][n] = "failed") /\ Goto(o, "catch")
       \/ pc[o] = "step" /\ (\E n \in Node : task[o][n] = "ambiguous")
                         /\ Goto(o, "catchAmbiguous")
       \/ InEngine(o) /\ aborted[o] /\ Goto(o, "catch")
    /\ UNCHANGED <<row, ledger, checkpoints, aborted, task, local, mishaps, hist>>

\* The catch block: cancelled wins, then interrupted, then failed.
FailedStatus(o) ==
    IF cancelRequested THEN "cancelled"
    ELSE IF pc[o] = "catchAmbiguous" \/ aborted[o] THEN "interrupted" ELSE "failed"

Catch(o) ==
    /\ pc[o] \in {"catch", "catchAmbiguous"}
    /\ IF leaseOwner = o /\ status = "running"
       THEN status' = FailedStatus(o) /\ leaseOwner' = None /\ lease' = "none"
       ELSE UNCHANGED <<status, leaseOwner, lease>>
    /\ Finally(o)
    /\ UNCHANGED <<cancelRequested, ledger, checkpoints, mishaps, hist>>

-----------------------------------------------------------------------------
(* executeNode, one call per ready node, all of a superstep concurrent.    *)

\* guard(): read the row; an execution that lost it aborts itself.
PassGuard(o, n, next) ==
    IF ~aborted[o] /\ Fence(o)
    THEN SetTask(o, n, next) /\ UNCHANGED aborted
    ELSE SetTask(o, n, "failed") /\ aborted' = [aborted EXCEPT ![o] = TRUE]

\* The node's input is built from the results of its parents, then guard().
BeginNode(o, n) ==
    /\ pc[o] = "step" /\ ~aborted[o]
    /\ n \in Ready(o) /\ task[o][n] = "idle"
    /\ PassGuard(o, n, "readLedger")
    /\ consumed' = [m \in Node |-> IF m \in Parents(n)
                      THEN consumed[m] \cup {value[o][m]} ELSE consumed[m]]
    /\ UNCHANGED <<row, ledger, checkpoints, pc, local, mishaps, starts>>

\* guard() before the ledger row is written; and abortable(): the executor's
\* result or the abort, whichever comes first, then guard() again.
GuardNode(o, n) ==
    /\ \/ task[o][n] = "guard" /\ PassGuard(o, n, "insert")
       \/ task[o][n] = "exec" /\ PassGuard(o, n, "save")
    /\ UNCHANGED <<row, ledger, checkpoints, pc, local, mishaps, hist>>

\* Mutant of ReadLedger: the outcome of a started row is assumed harmless.
ReadLedgerReplays(o, n) ==
    /\ task[o][n] = "readLedger"
    /\ SetTask(o, n, IF ledger[n].status = "succeeded" THEN "putWrites" ELSE "guard")
    /\ value' = [value EXCEPT ![o][n] =
                   IF ledger[n].status = "succeeded" THEN ledger[n].value ELSE @]
    /\ UNCHANGED <<row, ledger, checkpoints, pc, aborted, resume, done, mishaps, hist>>

\* A succeeded row is reused; a row of an impure node whose outcome is unknown
\* is refused; anything else may run.
ReadLedger(o, n) ==
    /\ task[o][n] = "readLedger"
    /\ \/ /\ ledger[n].status = "succeeded"
          /\ value' = [value EXCEPT ![o][n] = ledger[n].value]
          /\ SetTask(o, n, "putWrites")
       \/ /\ ledger[n].status = "running" /\ n \in Impure
          /\ SetTask(o, n, "ambiguous")
          /\ UNCHANGED value
       \/ /\ ledger[n].status = "none" \/ (ledger[n].status = "running" /\ n \notin Impure)
          /\ SetTask(o, n, "guard")
          /\ UNCHANGED value
    /\ UNCHANGED <<row, ledger, checkpoints, pc, aborted, resume, done, mishaps, hist>>

\* INSERT ... ON DUPLICATE KEY UPDATE status='running', which is not fenced,
\* then this.executor(...): the side effect leaves the process here, with no
\* guard in between and also when the signal was aborted meanwhile.  starts
\* counts the rows of impure nodes written while the lease was held.
StartExecutor(o, n) ==
    /\ task[o][n] = "insert"
    /\ ledger' = [ledger EXCEPT ![n].status = "running"]
    /\ starts' = [m \in Impure |-> IF m = n /\ Holds(o) THEN starts[m] + 1 ELSE starts[m]]
    /\ SetTask(o, n, "exec")
    /\ UNCHANGED <<row, checkpoints, pc, aborted, local, mishaps, consumed>>

\* UPDATE ... JOIN workflow_runs under the fence; 0 rows throws.
SaveResult(o, n) ==
    /\ task[o][n] = "save"
    /\ IF Fence(o)
       THEN /\ ledger' = [ledger EXCEPT ![n] = [status |-> "succeeded", value |-> o]]
            /\ value' = [value EXCEPT ![o][n] = o]
            /\ SetTask(o, n, "putWrites")
       ELSE SetTask(o, n, "failed") /\ UNCHANGED <<ledger, value>>
    /\ UNCHANGED <<row, checkpoints, pc, aborted, resume, done, mishaps, hist>>

\* MysqlCheckpointer.putWrites: one fenced batch that keeps an existing write,
\* and says nothing when the fence let no row through.
PutWrites(o, n) ==
    /\ task[o][n] = "putWrites"
    /\ writes' = IF Fence(o) /\ writes[n] = None
                 THEN [writes EXCEPT ![n] = value[o][n]] ELSE writes
    /\ SetTask(o, n, "written")
    /\ UNCHANGED <<row, ledger, ckpt, pc, aborted, local, mishaps, hist>>

-----------------------------------------------------------------------------
(* Time and failures.                                                      *)

\* The 10 s timer: renews a lease that is still live, aborts otherwise.
Heartbeat(o) ==
    /\ Active(o) /\ ~aborted[o]
    /\ ~Fence(o)
    /\ aborted' = [aborted EXCEPT ![o] = TRUE]
    /\ UNCHANGED <<row, ledger, checkpoints, pc, task, local, mishaps, hist>>

\* Workflow timeout, shutdown, or a heartbeat whose query failed.
Abort(o) ==
    /\ Active(o) /\ ~aborted[o]
    /\ Mishap
    /\ aborted' = [aborted EXCEPT ![o] = TRUE]
    /\ UNCHANGED <<row, ledger, checkpoints, pc, task, local, hist>>

\* The executor fails or times out, or any query of executeNode does.
NodeError(o, n) ==
    /\ task[o][n] \in Waiting
    /\ Mishap
    /\ SetTask(o, n, "failed")
    /\ UNCHANGED <<row, ledger, checkpoints, pc, aborted, local, hist>>

\* A query of executeOwned fails; in the catch block nothing handles it.
RunError(o) ==
    /\ Active(o)
    /\ Mishap
    /\ IF pc[o] \in {"catch", "catchAmbiguous"}
       THEN Finally(o)
       ELSE Goto(o, "catch") /\ UNCHANGED <<aborted, task, local>>
    /\ UNCHANGED <<row, ledger, checkpoints, hist>>

\* The process dies: nothing of it runs any more, the lease stays behind.
Crash(o) ==
    /\ Active(o)
    /\ Mishap
    /\ Goto(o, "ended")
    /\ task' = [task EXCEPT ![o] = NoTasks]
    /\ value' = [value EXCEPT ![o] = NoValues]
    /\ done' = [done EXCEPT ![o] = {}]
    /\ resume' = [resume EXCEPT ![o] = FALSE]
    /\ aborted' = [aborted EXCEPT ![o] = FALSE]
    /\ UNCHANGED <<row, ledger, checkpoints, hist>>

\* 60 s without a heartbeat.  Nobody renews the lease of an execution that has
\* ended; that of a running one lapses only when its process stalls.
LeaseLapses ==
    /\ lease = "live"
    /\ lease' = "expired"
    /\ IF pc[leaseOwner] = "ended" THEN UNCHANGED mishaps ELSE Mishap
    /\ UNCHANGED <<status, leaseOwner, cancelRequested, ledger, checkpoints, pc, aborted,
                   task, local, hist>>

-----------------------------------------------------------------------------
RunStep(o) ==
    \/ Claim(o) \/ Decide(o) \/ Load(o) \/ PutInput(o) \/ EndSuperstep(o)
    \/ GuardPublish(o) \/ Publish(o) \/ EngineRejects(o) \/ Catch(o)

NodeStep(o, n) ==
    \/ BeginNode(o, n) \/ GuardNode(o, n) \/ ReadLedger(o, n)
    \/ StartExecutor(o, n) \/ SaveResult(o, n) \/ PutWrites(o, n)

OwnerNext(o) ==
    \/ Resume(o) \/ Recover(o) \/ RunStep(o)
    \/ Heartbeat(o) \/ Abort(o) \/ RunError(o) \/ Crash(o)
    \/ \E n \in Node : NodeStep(o, n) \/ NodeError(o, n)

Next == Start \/ Cancel \/ LeaseLapses \/ \E o \in Owner : OwnerNext(o)

Spec == Init /\ [][Next]_vars

\* A worker that is up goes on with its promises and timers; node timeouts end
\* every executor; the scan runs every 30 s; the lease of an execution that has
\* ended runs out.  Nothing forces a user, a failure or a stall.
FairSpec ==
    /\ Spec
    /\ \A o \in Owner : WF_vars(RunStep(o)) /\ WF_vars(Heartbeat(o))
    /\ \A o \in Owner, n \in Node : WF_vars(NodeStep(o, n))
    /\ WF_vars(\E o \in Owner : Recover(o))
    /\ WF_vars(LeaseLapses /\ UNCHANGED mishaps)

-----------------------------------------------------------------------------
(* Properties.                                                             *)

\* At most one execution that holds the lease starts an impure node: the row it
\* writes stops every later owner of the run, through any sequence of crashes,
\* lapsed leases and resumes (the ledger check of executeNode).
OwnedStartOnce == \A n \in Impure : starts[n] <= 1

\* Whatever is recomputed after a crash, the children of a node and the output
\* of the run only ever see one result of that node, because results reach them
\* through fenced checkpoints and ledger rows alone.
OneResultConsumed ==
    \A n \in Node : \A v, w \in consumed[n] : v = w

\* The error "No checkpoint exists after node execution" cannot be met: the
\* checkpoint of the input is saved before any ledger row is written.
LedgerBehindCheckpoint ==
    (\E n \in Node : ledger[n].status # "none") => ckpt.saved

\* An execution that holds the lease works on the newest checkpoint, with the
\* results that it stores: no other owner has moved it since.
HolderIsCurrent ==
    \A o \in Owner :
        Holds(o) /\ pc[o] \in {"step", "publish"} =>
            /\ done[o] = ckpt.done
            /\ \A n \in done[o] : value[o][n] = ckpt.value[n]

\* Once the cancel flag is stored nothing more is published, whoever is still
\* running: no checkpoint, no pending write, no node result and no success.
NothingPublishedAfterCancel ==
    [][cancelRequested =>
         /\ UNCHANGED checkpoints
         /\ status' \in {status, "cancelled"}
         /\ \A n \in Node : ledger'[n].status = "succeeded" => ledger'[n] = ledger[n]]_vars

\* The row, the leases and the checkpoints together give the user a durable run:
\* one result per node, parents first, nothing after a cancel.
Durable == INSTANCE DurableRun WITH
    Result <- Owner, state <- status, stopped <- cancelRequested, results <- ckpt.value
IsDurableRun == Durable!Spec

\* A run that nobody cancels reaches a settled status, whatever crashes, stalls
\* or fails on the way: leases lapse and the scan takes the run over.
RunSettles == status = "pending" ~> (status \in Settled \/ cancelRequested)
=============================================================================
