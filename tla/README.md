# LLMGather in TLA+

LLMGather is a NestJS backend with a Vue frontend: a gateway to model services, with
agents, workflows, knowledge bases, long-term memory, prepaid billing and managed model
deployments. Its state is in MySQL. `docs/P0-ARCHITECTURE.md` says what its consistency
rests on: single atomic SQL statements, leases taken by compare-and-set, idempotent
upserts, and almost no transactions. Several backend processes may run, every `await`
lets other requests in, and processes die. Whether the pieces fit together under these
conditions is what the modules below examine; unit tests with a mocked connection hardly
reach it.

One action is one SQL statement, one request to another service, or one stretch of
synchronous JavaScript, because that is what runs without interruption. The database
clock appears only as what it decides: a lease is live or over, a delay is over or not.

## Inventory

Paths are under `src/`, `B` is `backend/src`.

| Component | State | Operations | What is hard | Correct means | Module |
|---|---|---|---|---|---|
| Workflow runtime, `B/workflows/runtime/workflow-runtime.service.ts` | `workflow_runs` (status, lease, cancel flag), `workflow_node_executions` (ledger) | start, resume, cancel, recover (30 s scan), executeOwned, heartbeat, executeNode | stalls past the lease, crashes between two statements, a cancel racing the end | one result per node, an impure node is started once by lease holders, nothing after a cancel, every run settles | `WorkflowRun` |
| Checkpointer, `B/workflows/runtime/mysql-checkpointer.ts` | checkpoints and pending writes | put, putWrites, getTuple | late writes of an old owner | only the holder moves the run | `WorkflowRun` |
| Engine, `B/workflows/runtime/workflow-engine.ts` | LangGraph state: done, skipped, selected edges | validate, compile, schedule, run a superstep | joins behind branches, cycles, skip propagation | validation exact, joins wait, no dead end | `WorkflowDag` |
| Billing and recharge, `B/billing`, `B/recharge`, parts of `B/auth/users.service.ts` and `B/admin/admin.service.ts` | balance, totals, ledger, orders | charge, notify, check, top-up, award, edit | read-modify-write without a transaction, repeated notifications, failure between two statements | the books balance, an order is credited once | `Wallet` |
| API key pool, `B/providers/api-key-pool.ts` | per key: circuit, failures, probes, successes (in memory) | getKey, markSuccess, mark...Failure, refresh | answers that arrive after the key changed state | open keys are not used, probes are bounded and returned | `ApiKeyPool` |
| Upstream calls, `B/providers/*.provider.ts`, `B/knowledge/retrieval/embedding.service.ts`, `B/gateway/tts.controller.ts` | attempt and key of a call | fetchWithRetry, embed, speech | every path must report its key | calls end, keys come back | `ProviderCalls` |
| Memory index, `B/memory` | `memories.index_*`, `memory_index_spaces`, Qdrant points | edit, remove, rebuild, drain | stale workers writing late, change of the embedding model | an acknowledged row is indexed, every row gets there | `MemoryIndex` |
| Model services, `B/model-services` | nodes, instances (desired, actual, registered, operation), tasks with leases | enqueue, cancel, poll, sync, work | reservation without a task, stale snapshots of the agent | one operation per instance, both sides agree in the end | `ModelServices` |
| Deployment agent, `deployment-agent` | `state.json`, containers | submit, drain, execute, cancel, reconcile, restart | timer against task, crash between saves | tasks survive a restart, the container follows what is desired | `DeploymentAgent` |
| Agents, `B/agents/agents.service.ts` | `agent_runs` with steps, `agent_versions`, the state of a LangGraph run | run, plan, tools, delegation, reflection, harness, bound workflow, versions, publication, roll back | nested runs that share places, deadlines, errors half way, reads before a lock | runs end within their limits, nothing is called twice, verdicts agree, one release | `AgentGraph`, `AgentRuns`, `AgentVersions` and their proofs |
| Knowledge index, `B/knowledge/retrieval/knowledge-index.service.ts` | lease, cursor, status, Qdrant points | locked, mutate, migrate, build | a check before and after an unfenced write | ready means complete | `KnowledgeIndex` |
| Knowledge documents, `B/knowledge/knowledge.service.ts` | documents and chunks | add, reparse, delete | rows and points change apart | see the index | `KnowledgeIndex` |
| Chat gateway, router, teams, tools, skills, MCP | rows of one user | CRUD, prompt assembly, one outside call | little: one request at a time | - | not modelled |
| Accounts, administration, API keys, rate limits, settings | users, sessions, settings | CRUD, guards | first administrator, last administrator | - | only balances |
| Provider registry | configuration in memory | load, reload | reload in two steps | - | not modelled |
| Database bootstrap, cache, frontend, scripts | tables, Redis | DDL under one lock, get and set, views | - | - | not modelled |

`PROJECT.json` lists all of them with a reason for each that has no module, and the
hazards at their lines.

### How they interact

* The runtime drives the engine; the engine calls back `executeNode` for each ready node
  and `MysqlCheckpointer` after each superstep. Both write to MySQL only under the fence
  "I own the run, the lease is live and nobody cancelled". `WorkflowRun` composes the
  runtime, the checkpointer and a fixed graph; `WorkflowDag` is the engine over all small
  graphs and shows why the runtime may treat the frontier as "all parents done".
* A finished model call is charged by `BillingService`; recharges and top-ups write the
  same row of `users`. `Wallet` composes all writers of that row.
* Providers, embeddings and speech share one `ApiKeyPool` per provider; `ProviderCalls`
  EXTENDS `ApiKeyPool` and composes them.
* The memory service and the knowledge base embed through those pools and write to Qdrant;
  in `MemoryIndex` and `KnowledgeIndex` an embedding is a step that succeeds or fails.
* The backend polls the deployment agent of each node and registers what it finds as an
  embedding provider; `ModelServices` EXTENDS `DeploymentAgent` and composes both.
* An agent may have a workflow bound to it, a workflow has agent nodes, and agents delegate
  to agents: `AgentRuns` composes these runs with the places (`inFlight`, `nodeCount`) of
  the workflow runtime. `AgentGraph` is the inside of one run.

## The modules

### WorkflowRun, DurableRun, WorkflowRunProofs

An *owner* is one call of `executeOwned`, named like the UUID it writes to `lease_owner`;
three owners are three attempts at the run, on any processes. The row of `workflow_runs`
is `status, leaseOwner, lease, cancelRequested`; `ledger` holds the node rows, `ckpt` and
`writes` the newest checkpoint with its pending writes. What an execution has in memory is
`pc, done, value, task, resume, aborted`. A result is named by the owner that computed it,
so two computations of one node differ.

`Claim`, `Decide`, `Load`, `PutInput`, `EndSuperstep`, `GuardPublish`, `Publish` and
`Catch` are the statements of `executeOwned` and LangGraph's loop; `BeginNode` and the
steps after it are `executeNode`: read the ledger, `guard()`, write the `running` row, run
the executor, write the result, `putWrites`. An execution that rejects does not wait for
its node calls: they go on in the background (`Finally`). `LeaseLapses`, crashes, stalls
and rejected queries may come at any step and are bounded by `MaxMishaps`. `Decide` is one
step for two SELECTs (`:209` and `:211`): whoever saves a checkpoint between them has taken
the lease, so this execution fails at its next fence, and a ledger row that an older execution
writes between them leads to the refusal, which a row written before leads to as well.

`DurableRun` is what the user is promised without workers and leases: documented status
transitions, one result per node that is never replaced, parents first, nothing after a
cancel. `IsDurableRun` refines it with the mapping results <- checkpoint.

### WorkflowDag, AgentWorkflowProofs

`Compile` is `validateDefinition` (Kahn's loop as the recursive function `left`) and, in
version 1, `legacyOrder`, as the pairs of nodes of which one comes first (`ordered`);
`Schedule` closes the skips (`close`) and finds the ready nodes; `Superstep` runs them with
any edges they may select. `ValidationExact` and `ChainKeepsEdges` compare the loops with
`After`, the least set closed under the edges. The names that other models have too carry
the prefix `Dag`. A definition without nodes takes another path of the code, so there is at least one.
`ValidDefinition` is about the graph: duplicate ids, the limit of 50 nodes, and the checks that
the targets of a branch are among its edges and that version 2 has an array of conditions
(`workflow-engine.ts:74-88`) reject definitions without looking at paths and are left out.

### Wallet, WalletProofs

A request is at one place of its code and remembers what it has read. The driver gives a
`DECIMAL` back as text (`mysql.adapter.ts:88` does not ask for numbers), so the step after
`markPaid` in `handleNotify` throws; `NotifyPaid` therefore ends the request. The code
really loses updates when requests overlap. The properties say under which condition the
books balance, with history variables that record an overlap (`raced`, `contended`), and
say without a condition what holds always. `PaidMeansCredited` has no condition and is
violated. The overwritten balance and the charge without a record are gaps for which
nothing in the repository states the contrary; the properties except exactly these.

### ApiKeyPool, ProviderCalls, ProviderCallsProofs

`ApiKeyPool` has the operations of the pool as operators on one function of entries, as
the code runs each without an `await`. `ProviderCalls` has the calls: between a pick and
its report other calls change the pool. The rotation strategies only narrow which
selectable key is taken, so a pick is any of them. The paths that report nothing (a 4xx,
the last 429 or 5xx, an embedding without an answer, speech) are `Unreported` and recorded in
`unreported`. When no key is selectable `getKey` throws, and so does each retry that asks for
one (`PickOrEnd`): the call ends, although a comment promises otherwise (see below).

### MemoryIndex, MemoryIndexProofs

One row of `memories`, the points of this row in each vector space, the backfill of each
space, and workers. The statements of the code name one row, so the rows of a batch do not
influence each other and one row stands for all. A worker is at one place of
`prepareSpace` or `processBatch`; `Fail` leads to the catch block, `Crash` to the start.
`QdrantService.retry` may write a point again. In `prepareSpace` the page of rows is read
(`Scan`), marked (`Backfill`) and the cursor saved (`MoveCursor`) in separate steps. The history
variable `spoilt` records the two ways in which a late write is not repaired (see the
divergences below). A write that Qdrant carries out after the client's 15 s is not modelled.

### DeploymentAgent, ModelServices, ModelServicesProofs

`DeploymentAgent` is one service of one node: `service` is the container, `inst` the entry
of `state.json`, `jobs` the tasks, `exec` the task under way. `Submit`, `Begin`, `Check`,
`Create`, `StartService`, `Succeed` and `Catch` follow `execute`; `Reconcile` looks and
decides, `Call` acts later, so a task can come between. `Restart` loses what was in memory
and runs unfinished tasks again.

`ModelServices` adds the row of the instance, the rows of the tasks, the requests (reserve,
insert, desire, record, or the catch block, which a failure of any of them enters) and the polling loop: recovery, one fetched state of the
agent, `Sync` per instance, then each open task with claim, POST and verdict under its lease; the verdict ends the task
(`Settle`) and then gives the instance back (`Release`).
`OneOperation` and `RegisteredIsDesired` have no exception. `Converges` excepts what
`Stranded` names, and every case is something the code really leaves behind:

* a request that died after reserving (the recovery waits until `updated_at` is 60 s old,
  and every poll refreshes it), or after inserting its task and before the desired state;
* a desired state written when its task is already over, or a request that failed after its
  task was there: the catch block gives the instance back and keeps the task;
* a task that the agent refuses (a 400 makes the node offline, and the task stays open);
* a removal decided by `reconcile` that outlasts a redeployment.

Reductions: inspection and decision of `reconcile` are one step and do not overlap with
themselves; saves are one step with their change except at the end of a task; one instance,
node and worker; a live request does not pause for 60 s between reservation and insertion.

### AgentGraph, AgentProofs

One run without a workflow in every mode: direct, planned and harness, for every step limit,
retry flag, budget and set of tools and sub agents in `Configs`. What models, tools and
children answer is open. The variables are the node of the graph with its round, attempt and
supersteps, the steps still `running` in the trace (`open`), the verdict, and `again`, which
records a second call after a failure. `Limit` is the `recursionLimit` of the code.
A failed query ends the run as failed (`StorageFails`), also at `Return`, where the row already
says `succeeded` (`:887`), with two exceptions: a failed insert of a planning step is caught
and planned as `final` (`PlanUnsaved`), and a failure in `applySmartMemory` is swallowed unless
its own catch block fails too.
`SucceededIsSettled` has two exceptions: a failure of the database, and a child that is
refused before its run begins because the parent was continued and its `parentRunId`, which
is handed on, belongs to another agent (`:951`); the `delegate` step then stays `running`. A
built-in agent that delegates to itself is let in. A failed run may keep a running `llm` step,
which the property does not forbid.

### AgentRuns, AgentWorkflowProofs

Run `i + 1` is the child of run `i`, through an agent node of its bound workflow or through
delegation; `flow[i]` is the workflow run of run `i`. `Begin` and `Start` take a place or
leave the flow to the scan, `Read` and `Deadline` are the polling loop with its last look,
`StartNode`, `NodeDone` and `Finish` are the flow's own steps, `NodeTimeout`, `RunTimeout`
and `Abort` end it from outside while its child goes on. A query of a run may be rejected at any
of its places (`RunRejected`): the catch block notes the failure, or that is rejected too and the
row stays `running` (`lost`), while the workflow goes on. `FlowRejected` is the same for an
executor. The claim also takes failed and interrupted workflows, so a user's resume
(`UserResumes`) or a scan that has selected the row before can make a workflow succeed whose
run has reported failure. `Deadline` and `UserCancels` find a lease without an executor either
lapsed or still live. There is one process; `autoRecover` is chosen at the start. The depth of
delegation is reset by every agent node, so only the list of skipped agents bounds the nest:
`NestingBounded` states the bound.

`VerdictAgrees` has two parts. A run that reports success has a workflow that succeeded and a
child that did; this has no exception, and a later claim, cancellation or failure does not
undo it. A run that failed has no workflow that succeeds, unless `apart` says how the two came
apart: the scan took the workflow before its own request (`raced`), a query of the run was
rejected (`rejected`), or the workflow was claimed again after the run had failed (`again`).
Each of the three is the program as it is. `AllEnd` excepts flows that nobody recovers and a
cancellation that no executor is left to act on.

### AgentVersions, AgentProofs

A transaction is two steps: its first read, which fixes its view (InnoDB, REPEATABLE READ),
and all that follows the lock on the row of the agent. `createVersion` locks before it reads,
`publishVersion` reads the agent before it locks. `CallsAreServed` therefore has the
exception `stale`: a canary was admitted by a view that another publication or roll back had
overtaken; then no version is released and `runPublished` refuses every call. A publication
that creates its own version can also be refused by the unique key for the same reason: the
number is `MAX(version_number)` plus one of its view.

### KnowledgeIndex, KnowledgeIndexProofs

One native base, one chunk per document, batches of one, two jobs and two fingerprints. A
job has the lease or has lost it without knowing (`Lapse`); `Guard` and the write it protects
are separate steps, so a write can come late. `late` records which kinds did. A late cursor
does no harm, which the property shows by excepting only the other kinds: the count at the
end refuses an index with a gap. After the backend is switched the documents are updated
(`Documents`); if that fails the catch block marks the index as failed, so it is not served.
`Invalidate` writes the indexes and the backend in one step where `migrate` with a reset has
two, and `Describe` joins the description with its insert and select; a crash between them leaves
what a crash before them leaves. New chunks may sort before the cursor.

## What the runs show

`tlc -config <cfg> <module>` in this directory.

| Run | Bounds | Shows |
|---|---|---|
| `workflow_run` | 3 owners, impure a -> pure b, 2 mishaps | one lease-holding start, one result per node, ledger behind checkpoint, holder current, nothing after a cancel, refinement of `DurableRun` |
| `workflow_run_live` | 2 owners, 1 mishap, `FairSpec` | a run that nobody cancels settles |
| `workflow_dag` | every graph on 4 nodes, both versions, self-loop or unknown target on one node | exact validation, joins, skips, an output, termination without a dead end |
| `wallet` | 4 requests, 2 orders, charges of 1 and 3 on 3 credits | conditional and unconditional bookkeeping |
| `wallet_notify` | 2 requests, 1 order | *violated*: a paid order that is not credited |
| `provider_calls` | 2 keys, 2 calls, 1 retry, thresholds 2/1/2 | breaker, probes, picks, ending, recovery of keys |
| `memory_index` | 2 workers, 2 spaces, 2 revisions, 2 faults | acknowledged means indexed, marks are not lost, convergence |
| `model_services` | 2 operations (three pairs), 1 worker, 1 fault | operations exclude each other, registered means desired, both sides agree in the end |
| `agent_graph` | step limits 1 to 3, budgets 0 and 1, 1 fault | recursion limit, steps closed, nothing called again, the run ends |
| `agent_runs` | 2 workflows and a delegation, 7 levels, one place each, 1 fault | the nest is bounded, agreeing verdicts, no deadlock, nothing runs twice |
| `agent_versions` | 2 transactions at a time, 6 requests, 3 versions, 1 call | one release, calls are served, creations do not collide |
| `knowledge_index` | 2 jobs, 3 chunks, 2 fingerprints, 1 mutation beside builds, 1 fault | ready means complete, a failed index can be built again |

Why these bounds are enough to be of interest:

* *Owners and mishaps.* Two owners show any overlap of an old and a new execution; the
  third, with two mishaps, allows an execution that takes over from one that had itself
  taken over, which is where stale checkpoints could return. Two nodes with one edge are
  the smallest graph in which a result is consumed by another node.
* *Graphs.* Four nodes contain all diamonds, a branch with a join, a skip of depth two and
  cycles that do not pass through the root; unknown targets are handled per edge, so one
  node with one suffices.
* *Requests and orders.* Two requests make a race, three a race with a repetition, four
  both on an order and elsewhere; amounts only have to differ.
* *Keys and calls.* A late answer needs one call that changed the key since; a second key
  is needed to rotate. Thresholds of two are met below and at the limit.
* *Memory.* A late writer and a newer worker, two revisions, a removal, and a second space
  for a change of the model. One fault is the stall, the second a failure of the late one.

* *Operations.* Three pairs contain each action that starts, stops, creates or destroys the
  service; the second operation is requested before, during or after the first.
* *Agent runs.* In `agent_graph` limits 1 to 3 meet the loop at once, once and repeatedly. In
  `agent_runs` the workflow of one agent calls another with a workflow, whose agent delegates to the
  first: five levels that share one place, of the six the bound allows for two workflows. The
  seventh level would hold a run beyond the bound, and with a shorter list of agents to skip the nest gets
  there. The fault is a crash, a rejected query, a cancellation or a resumption at any step;
  deadlines, timeouts and failures of agents and nodes do not count as faults. Two faults
  were checked as well, for two agents whose workflows call each other's agent. With one place the scan cannot hold a
  failed workflow that a request takes first; this case rests on the proof.
* *Versions.* Three versions are a released one, one on trial and one to come; six requests
  reach every status from every other.
* *Knowledge.* Three chunks are one before and one after the cursor and one that a mutation
  adds. With two mutations and one fault, and with one and two, the invariant also held
  (1.4 and 3.9 million states, too many for `Recovers` beside it).

The runs check the properties that could fail. `TypeOK` is proved of ten modules (see below).

Every property of a passing run has a mutant in `PROJECT.json`: an operator beside the
definition it replaces (marked as mutant) that makes a plausible mistake and violates it.

### Fairness

* `FairSpec` of `WorkflowRun`: a live process continues its promises and timers, node
  timeouts end every executor, the scan recurs, and leases of ended executions run out. No
  user action, failure or stall is forced. A lapsed lease that counts as a stall is outside
  the fairness.
* `ProviderCalls`: `AbortSignal.timeout` ends each attempt, and time passes, so an open
  circuit cools. No request is forced to begin.
* `MemoryIndex`: the timer starts a batch every five seconds and requests are answered
  (each worker moves to another place), leases without a heartbeat lapse and delays end.
  Retries without progress are not counted as moving; faults are finitely many, as without
  a bound nothing could be promised.
* `ModelServices`: polls, the agent's queue and its timer recur, requests go on unless they
  die, leases run out. No fault and no user action is forced.
* `AgentGraph`: the process goes on with its run; it may die at any time and nobody resumes
  an agent run. `AgentRuns`: the promises of each run and each executor are kept, its timers
  fire, and the scan recurs if recovery is on. No rejected query, cancellation or resumption is
  forced, and they are finitely many.
* `KnowledgeIndex`: a job's promises are kept, leases run out. `Recovers` also assumes that
  the owner of a base that failed keeps asking for a reset, as nothing in the code does.
* `WorkflowDag`: the loop of the engine goes on. `Wallet` has no liveness: a request may
  fail at any statement and nothing retries it.

### Where the code and its documentation differ

The run `wallet_notify` refutes the first. The others are the exceptions of passing
properties: each of these states what holds beside its exception, and without the exception TLC
finds the behaviour described here within seconds.

1. *Paid but not credited* (`recharge.service.ts:106`, run `wallet_notify`). The order is marked
   paid and the request ends before the balance is touched ("5. Update order & user credits").
2. *Credited twice* (`recharge.service.ts:145`). Two checks that both read `pending` credit the
   order, which line 81 calls "Already processed - idempotent". This violates `PaidMeansCredited`
   too; `CreditedOnceAlone` excepts `contended` orders.
3. *Cancelled run left behind* (`workflow-runtime.service.ts:144`). The
   scan leaves out rows with the cancel flag, and nothing else looks for them: if the worker dies
   after a cancel the run stays `running` with a lapsed lease, although
   `docs/P0-ARCHITECTURE.md:57` has such rows recovered by the scan. `RunSettles` excepts cancelled
   runs, `AllEnd` cancelled flows without an executor.
4. *Replay of an impure node* (`workflow-runtime.service.ts:306`). The
   upsert of the `running` row is not fenced; an execution that stalls after `guard()` starts a
   node that its successor has started, where the comment at `:302` promises that an unknown outcome is
   never replayed. `OwnedStartOnce` shows that this needs a lost lease.
5. *No attempt without a usable key* (`openai-compatible.provider.ts:185`).
   The comment says that when all keys are exhausted the call falls back "to the earliest-expiring
   key and retry anyway". In the code `getKey` throws (`api-key-pool.ts:93`), in the retries at
   `:220`, `:236`, `:243`, `:251` and `:295` as well, and a call that is answered with 429 while
   the circuits of the other keys are open ends with attempts left. `PicksOnlyUsable` states
   what the code does: it holds because the fall-back of the comment does not exist.
6. *Leaked probe* (`api-key-pool.ts:320`). A half-open key counts a probe for
   a call that never reports, although lines 5 to 7 say that each attempt is reported; after
   `halfOpenProbeCount` of them it is never selectable again. `ProbesAccounted` and
   `KeysComeBack` except `unreported`.
7. *Cleared requeue* (`memory-index.service.ts:157`). `docs/MEMORY-ARCHITECTURE.md:43` has the
   requeue of a stale worker repair writes out of order. It does not raise
   the revision, so the newer worker's acknowledgement, sent after it, clears the mark while
   the index holds the older point. The second path, a late write whose answer fails, is
   covered by `spoilt` too: the fenced update of the catch block changes no row.
8. *Reservation for ever* (`model-services.service.ts:151` and `:179`).
   `docs/MODEL-SERVICES.md:138` promises that left-over locks are recovered; the recovery waits
   for a row that is 60 s old, and every poll makes it young. `Converges` excepts it in `Stranded`.
9. *Canary without a release* (`agents.service.ts:3354`).
   `docs/AGENT-WORKBENCH-FIX.md:22` says that a canary is refused without a stable version, but
   the stable version is read in a view from before the lock. `CallsAreServed` excepts `stale`.
10. *Number taken* (`agents.service.ts:3298`). Line 21 of the same page says
    that numbers are given out serially. `CreationSerial` holds of creations, not of the version
    that a publication makes, whose view is older than its lock.
11. *Late writes of a lapsed job* (`knowledge-index.service.ts:75` and `:162`).
    `docs/P0-ARCHITECTURE.md:88` and `:90` say that writes and migrations of a base share its lease
    and that the counts are verified before an index is ready. `mutate` does not guard its rows, and
    a guard elsewhere is a statement before the write it is for. `ReadyIsComplete` excepts late
    rows, points and verdicts.

For three gaps no line of the repository states the contrary: the lost update of
a balance (`raced`), the charge without a record (`unbilled`), and the refused child
(`agents.service.ts:951`), whose step stays `running` in a succeeded run. Hazards whose
property has such an exception say so in `PROJECT.json`.

## What is proved

`WorkflowRunProofs` (any owners, nodes, edges and bounds):

* `TypeCorrect`: `TypeOK` is inductive by itself; one lemma for the steps of an execution,
  one for those of a node, and the rest.
* `OwnedStartOnceCorrect`: `StartInv` strengthens it. A count of one alone is not inductive,
  as it does not say why a second holder would not start the node again. `StartRecorded`
  adds that once a node was started its ledger row exists and no call of a lease holder is
  past the check of that row except the one that started it; `IdleTasks` adds that an owner
  that has not claimed has no node calls. `HoldsOnlyByClaim` (only a claim makes a holder),
  `LedgerRowsStay` and `StartsOnlyByExecutor` are its lemmas. The assumptions are the
  named ones of the module.
* `LedgerBehindCheckpointCorrect`: the invariant `SavedFirst` says that a checkpoint is saved
  or nothing has run (`NothingRan`): no execution is past its input or about to resume from
  a checkpoint, there are no node calls and no pending writes, so that no call can write a
  ledger row first.
* `NothingPublishedAfterCancelCorrect`: an action property. Every statement that publishes
  carries the fence, which the stored flag closes (`Silent`), and the flag is only ever stored
  on a run that exists (`CancelledExists`), so a claim or a start cannot change its status.

* `HolderIsCurrentCorrect`: `CurrentInv` strengthens it. The property alone says nothing of
  the calls that an execution which ended without giving up the lease has left behind; they
  still pass the fence. `Ahead` adds that such calls are for nodes the checkpoint does not
  have, and the last conjunct that pending writes are, so that loading them cannot override a
  stored result. `OnlyHolderSaves` shows that whoever moves the checkpoint is the holder.
* `IsDurableRunCorrect`: the refinement of `DurableRun`. `ResultsInv` adds that a checkpoint
  has a result for exactly its nodes, that ledger rows and tasks about to write carry
  results, and that an execution in front of the publishing UPDATE has a complete
  checkpoint. `StepImplements` then maps each action: Start to Submit, Claim to Take, a saved
  superstep to Advance with the ready nodes as frontier, Publish to Complete, Catch to Break
  or Stopped, Cancel to Stop, and everything else, the repeated save of the input included,
  to a stutter.
* `OneResultConsumedCorrect`: two results of a node can exist, in the ledger and in the memory
  of an execution that lost the lease, so the property must say where the consumed one comes
  from. `ConsumedInv` adds that whatever was consumed is the result in the checkpoint, and
  `ResultsStay` that results there are never replaced.

`ProviderCallsProofs` (any keys, calls, retries and positive thresholds):

* The lemmas `RefreshGood`, `SelectedGood`, `OpenedGood`, `FailedMarkGood` and
  `SucceededGood` say that each operation of the pool keeps `GoodPool`: an available key is
  below the threshold, a half-open one within its probes, and an open key is shut until it
  has cooled.
* `TypeCorrect`, `BreakerCorrect` and `PickCorrect` follow from the invariant `Inv`; the
  last is an action property, proved together with the step (`NextKeeps`).
* `ProbesAccountedCorrect`: `Accounted` adds that only finitely many calls run at a time, since
  the set of all calls need not be finite; each step of a call then moves it in or out of the
  users of one key while the pool counts or gives back at most one probe of that key.

`WalletProofs` (any requests, orders, amounts and balance):

* `TypeCorrect`: a charge writes what it has read less its amount, so that no balance is
  negative needs `Covered`, the check of the charge remembered until its write.
* `BooksBalanceCorrect`: `BooksInv` adds that as long as no write has raced, what a request
  has read is what the row says (`FreshRead`).
* `OnlyPaidIsCreditedCorrect`: `PaidInv` follows a request from the answer of Alipay to its
  write; `Goto` keeps what it has read.
* `CreditedOnceAloneCorrect`: `Alone` says that at most one request is at work on the order,
  that the order is pending until this request has marked it paid, and uncredited until it is
  done. Without the second part a notification after a check would credit again.
* `LedgerExplainsChargesCorrect`: `LedgerInv` adds that finitely many requests are about to write
  their row (`Due`), for any set of requests. The sum is `MapThenSumSet`, a recursion over subsets.
  What it computes would need an induction; instead the lemmas take a smallest counterexample
  among the subsets of a finite set (`MinimalSubset`), which the prover can do, and show that the
  recursion has one solution (`SumsExist`, `SumsUnique`) and that any member can be taken out of
  the sum (`BillWithout`).

`MemoryIndexProofs` (any workers, spaces and bounds):

* `TypeCorrect`, and `Basic` beside it: the revision a worker has read is the row's or an
  earlier one, a removal is never taken back, points are in registered spaces, and a row that
  somebody owns has its mark.
* `SettledIsIndexedCorrect` and `DirtyUntilIndexedCorrect`: the acknowledgement alone is not
  inductive, since stale workers write after it. `Judged` says what each place of the holder has
  achieved *or* that a worker which lost the row is still between its write and its verdict;
  that worker puts the mark back, and where it does not, the step sets `spoilt`.

`ModelServicesProofs` (any operations, workers and bounds, with `DeploymentAgent` inside):

* `TypeCorrect`: needs that the agent is at work exactly when it has a task (`AgentTyped`).
* `RegisteredIsDesiredCorrect`: `Desires`, kept by each statement on the row because a
  registration is conditional on the desired state and every other desired state withdraws it.
* `OneOperationCorrect`: two unfinished tasks say nothing of how they came about. `Reserved`
  adds that an operation under way holds the reservation, `Aged` that the recovery takes only
  the reservation of a dead request, `Leased` and `Settled` that a worker gives the instance
  back only after it has ended the task itself, and `Unborn` that a task comes after its request.

`AgentWorkflowProofs`, about `AgentRuns` (any agents, workflows, delegations, places and depth):

* `TypeCorrect`, `VerdictAgreesCorrect` and `NeverRunAgainCorrect` rest on `Sound`, which holds of
  a run and its workflow, and `Linked`, which holds of a run and the next. `VerdictAgrees` speaks
  of ended runs only; `Sound` adds what makes an early verdict final: a run that did not come
  apart from its workflow gives up only when this has ended or is marked as cancelled. The mark
  is never taken away, and an executor that finds it does not report a success; a workflow that
  ended is taken up again only by a claim, which the step notes in `apart`. A success is
  recorded after the node is done, and the node after the agent it called has succeeded, which
  no later claim changes, as a success is not claimable.
* `NestingBoundedCorrect`: `Placed` says that level `i` is at most twice the number of agents to
  skip, plus the depth and one. An agent node adds an agent that was not in the list, and a
  delegation raises the depth, which is 0 or 1.

and about `WorkflowDag` (any number of nodes and any definitions of either version):

* The recursions go down, or up, the subsets of the nodes. `RecursionExists` shows once that
  such a recursion defines a function; `LeftDef`, `CloseDef` and `OrderedDef` are its three
  uses. What the functions compute is shown by a smallest counterexample (`SmallestSet`).
* `ValidationExactCorrect`: when Kahn's loop visits all nodes, any set of nodes has one that
  the others do not lead to and one that leads to none of them (`Acyclic`); then no node comes
  after itself (`NoneAfterItself`). Nodes that all have a predecessor among them contain one
  that comes after itself (`OneAfterItself`), so without such a node the loop visits all.
* `ChainKeepsEdgesCorrect`: `legacyOrder` is transitive and contains the edges of a definition
  without a cycle (`LegacyForwards`); along its chain each node leads to all later ones.
* `NeverStuckCorrect`, the safety part of `ExecutionEnds`: the compiled edges are `Acyclic` in
  both versions, so among the nodes not settled one has only settled parents; it is ready, or
  the loop would have skipped it.
* `ActivationExactCorrect` and `JoinWaitsCorrect` need what is true of settled nodes (`Settled`):
  a skipped node has only settled parents, and none of them selected it. A superstep does not
  change that, as the nodes it runs are nobody's settled parents. A result exists because
  an executed node that leads to no executed node has selected nothing.

`AgentProofs` is about one agent: its run and its versions. It extends both models, so the
names of `AgentVersions` that both would have (`VersionInit`, `VersionSpec`, ...) carry a
prefix. For `AgentGraph` (any step limits up to 10 and budgets up to 3):

* `RunTypeCorrect`: `TypeOK` of one run, by the flags, places and counters apart.
* `LimitCorrect`: `Progress` strengthens it, as the count of supersteps alone says nothing of
  the rounds still to come. It bounds the supersteps at each place by four for each round
  begun, and adds that a planning starts only below the step limit.
* `NothingCalledAgainCorrect`: `Fallen` says that after a failure nothing is on offer and no
  place of the graph or the harness is reached again.
* `SucceededIsSettledCorrect`: `StepsOpen` names the step that each place has open (`Mine`).

For `AgentVersions` (any requests, calls and bounds): `VersionTypeCorrect`,
`OneReleaseCorrect` and `CallsAreServedCorrect`. The released version is bounded whatever the views are, since
the updates work on the rows. For the calls `TrialHasRelease` is needed: a canary has a
release beside it or `stale` is set; its step uses that the view of `publishVersion` agrees
with the rows, and `CreatesNew`, that a creation does not overwrite a version.
`CreationSerialCorrect`: that `MAX(version_number)` plus one is unused follows from the lock
alone; that it stays within `MaxVersion`, the bound of the model, does not. `SerialInv` therefore
adds that version numbers have no gap, so that the largest is their count (`NumberedCount`), that
no view shows a version which is gone, and that there is room for the versions on their way.

`KnowledgeIndexProofs` (any jobs, chunks, configurations and bounds):

* `TypeCorrect`: that a count fits needs `CountOk`: it never exceeds the number of chunks up to
  the cursor beside it, also when a late job saves its own.
* `ReadyIsCompleteCorrect`: `CompleteInv` says what the job with the lease knows (`Holder`): no
  index is ready while it changes documents, the points of its document are gone before the
  rows, and after the counts have agreed nothing is missing. `OutsiderStep` shows that a job
  without the lease that is not recorded in `late` disturbs none of it, and `CountedComplete`
  that equal counts are enough, as points are only ever of chunks there are. So a cursor that
  is saved late does no harm, for any number of jobs.

Only model-checked is everything temporal (`RunSettles`, `CallsEnd`, `KeysComeBack`,
`Converges`, `ExecutionEnds`, `RunEnds`, `AllEnd`, `Recovers`), since the prover does not handle
fairness and ENABLED.

## Plan

Of the model, two things are left that a module could show: reciprocal rank fusion as a
function against its definition, and the scopes of the frontend's workbench (answers that
arrive after the user has moved on).

## Not modelled

Text, prompts, vectors and prices; encryption and serialisation; row batches; the search
side of memory (its answers are filtered by revision and content hash from MySQL, so a
wrong point is not shown, it is only missed) and of the knowledge base (ranking, the
keyword-only backend, the race of a search with a reset after its check); access control,
rate limits and everything about credentials; scripts.

Most lines of the repository are of three kinds that a state machine says nothing about:
Vue components and their calls of the REST interface, statements of DDL, and CRUD of rows
that one user reads and writes in one request (agents, tools, skills, teams, templates,
evaluations, conversations). Of `agents.service.ts` the execution and the versions are
modelled; generation of drafts, evaluations, test suites and background tasks are not.
Background tasks and agent runs that a crash leaves `running` are found by nobody:
`AgentGraph` shows it as the state `dead`, which `RunEnds` excepts.

In `AgentRuns` there is one process, and in `ModelServices` one node, instance and worker;
in `WorkflowRun` the counters of a process are left out, as a run that meets them is only
taken later (`AgentRuns` has them).
