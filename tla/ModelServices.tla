----------------------------- MODULE ModelServices -----------------------------
(***************************************************************************)
(* Managed embedding services: the rows of one instance and its tasks in    *)
(* MySQL, the requests that enqueue and cancel operations, and the polling  *)
(* loop (tick) of every backend process, composed with the deployment agent *)
(* of the node.  Every step is one awaited statement or request.            *)
(***************************************************************************)
EXTENDS DeploymentAgent

CONSTANT Worker    \* the backend processes
ASSUME WorkerAssumption == None \notin Worker

VARIABLES
    row,       \* model_instances: desired_state, actual_state, provider_registered, operation_id
    task,      \* model_tasks: status, owner, whether its lease is valid, cancel_requested
    online,    \* model_nodes.status = 'ONLINE'
    req,       \* the enqueue request of each task id
    tick       \* tick() of each worker

dbVars == <<row, task, online, req, tick>>
vars == <<agentVars, faults, dbVars>>

Gone == "gone"      \* a worker id of an earlier process
Statuses == {"absent"} \cup Live \cup Terminal
Rows == [exists : BOOLEAN, desired : Desired, actual : Actual \cup {"PENDING", "OFFLINE", "CANCELLED"},
         reg : BOOLEAN, op : Task \cup {None}, old : BOOLEAN]
Tasks == [Task -> [status : Statuses, owner : Worker \cup {None, Gone}, leased : BOOLEAN, cancel : BOOLEAN]]
\* What a tick holds between its awaits: the agent's state, the tasks it listed
\* (with their cancel flag) and the one it works on with the agent's answer.
Ticks == [at : {"idle", "state", "sync", "probe", "register", "list", "next", "claimed", "reprobe",
                "reregister", "write", "settle", "release", "throw"},
          inst : Instances, jobs : [Task -> Statuses],
          todo : SUBSET Task, cancel : SUBSET Task, task : Task \cup {None}, cur : Statuses]
TypeOK ==
    /\ AgentTypeOK
    /\ row \in Rows /\ task \in Tasks /\ online \in BOOLEAN
    /\ req \in [Task -> {"new", "reserved", "inserted", "desired", "done", "late", "failed", "dead"}]
    /\ tick \in [Worker -> Ticks]

NoTick == [at |-> "idle", inst |-> [known |-> FALSE, desired |-> "STOPPED", actual |-> "MISSING"],
           jobs |-> [t \in Task |-> "absent"], todo |-> {}, cancel |-> {}, task |-> None, cur |-> "absent"]
Init ==
    /\ AgentInit
    /\ row = [exists |-> inst.known, desired |-> "RUNNING",
              actual |-> IF inst.known THEN "RUNNING" ELSE "PENDING",
              reg |-> inst.known, op |-> None, old |-> FALSE]
    /\ task = [t \in Task |-> [status |-> "absent", owner |-> None, leased |-> FALSE, cancel |-> FALSE]]
    /\ online = TRUE
    /\ req = [t \in Task |-> "new"]
    /\ tick = [w \in Worker |-> NoTick]

DesiredOf(t) == CASE kind[t] = "stop" -> "STOPPED" [] kind[t] = "remove" -> "REMOVED"
                  [] OTHER -> "RUNNING"
Unfinished(t) == task[t].status \in Live
-----------------------------------------------------------------------------
\* POST of an operation: the checks and the reservation, the task, the desired
\* state.  A deploy of an unknown instance inserts its row first.
Reserve(t) ==
    /\ req[t] = "new" /\ online /\ (row.exists \/ kind[t] = "deploy")
    /\ IF row.op = None
       THEN /\ row' = [row EXCEPT !.exists = TRUE, !.op = t, !.old = FALSE]
            /\ req' = [req EXCEPT ![t] = "reserved"]
       ELSE req' = [req EXCEPT ![t] = "failed"] /\ UNCHANGED row
    /\ UNCHANGED <<task, online, tick, agentVars, faults>>
Insert(t) ==
    /\ req[t] = "reserved"
    /\ task' = [task EXCEPT ![t].status = "PENDING"]
    /\ req' = [req EXCEPT ![t] = "inserted"]
    /\ UNCHANGED <<row, online, tick, agentVars, faults>>
DesireUnowned(t) ==      \* mutant: the registration survives until the next poll
    /\ req[t] = "inserted"
    /\ row' = IF row.op = t /\ kind[t] # "delete-cache" THEN [row EXCEPT !.desired = DesiredOf(t)] ELSE row
    /\ req' = [req EXCEPT ![t] = IF row.op = t /\ Unfinished(t) THEN "desired" ELSE "late"]
    /\ UNCHANGED <<task, online, tick, agentVars, faults>>
Desire(t) ==
    /\ req[t] = "inserted"
    /\ row' = IF row.op = t /\ kind[t] # "delete-cache"
              THEN [row EXCEPT !.desired = DesiredOf(t), !.reg = FALSE] ELSE row
    /\ req' = [req EXCEPT ![t] = IF row.op = t /\ Unfinished(t) THEN "desired" ELSE "late"]
    /\ UNCHANGED <<task, online, tick, agentVars, faults>>
\* The audit and the event.  A request that dies before them has done its part, and
\* so has one whose task was over before its desired state was written ("late").
Record(t) ==
    /\ req[t] = "desired"
    /\ req' = [req EXCEPT ![t] = "done"]
    /\ UNCHANGED <<row, task, online, tick, agentVars, faults>>
\* A statement fails: the catch gives the instance back, whatever was done.
RequestFails(t) ==
    /\ Fault /\ req[t] \in {"reserved", "inserted", "desired", "late"}
    /\ row' = IF row.op = t THEN [row EXCEPT !.op = None] ELSE row
    /\ req' = [req EXCEPT ![t] = "failed"]
    /\ UNCHANGED <<task, online, tick, agentVars>>
RequestDies(t) ==
    /\ Fault /\ req[t] \in {"reserved", "inserted"}
    /\ req' = [req EXCEPT ![t] = "dead"]
    /\ UNCHANGED <<row, task, online, tick, agentVars>>
\* A cancellation counts as a disturbance.
Cancel(t) ==
    /\ Fault /\ task[t].status # "absent" /\ ~task[t].cancel
    /\ task' = [task EXCEPT ![t].cancel = TRUE]
    /\ UNCHANGED <<row, online, req, tick, agentVars>>
\* 60 s pass after the reservation of a request that died (updated_at).  A live
\* request inserts its task sooner; with the task the age does not matter.
Ages ==
    /\ row.op # None /\ ~row.old /\ req[row.op] = "dead" /\ task[row.op].status = "absent"
    /\ row' = [row EXCEPT !.old = TRUE]
    /\ UNCHANGED <<task, online, req, tick, agentVars, faults>>
-----------------------------------------------------------------------------
In(w, place) == tick[w].at = place
Move(w, place) == tick' = [tick EXCEPT ![w].at = place]
Tick == <<task, online, req, agentVars, faults>>

\* The locks that are left over are given back (line 151).
RecoverYoung(w) ==      \* mutant: a reservation without a task is given back at once
    /\ In(w, "idle")
    /\ row' = IF row.op # None /\ ~Unfinished(row.op) THEN [row EXCEPT !.op = None] ELSE row
    /\ Move(w, "state")
    /\ UNCHANGED Tick
Recover(w) ==
    /\ In(w, "idle")
    /\ row' = IF /\ row.op # None
                 /\ \/ task[row.op].status \in Terminal
                    \/ task[row.op].status = "absent" /\ row.old
              THEN [row EXCEPT !.op = None] ELSE row
    /\ Move(w, "state")
    /\ UNCHANGED Tick
\* /v1/node, /v1/state and the node row.
FetchState(w) ==
    /\ In(w, "state")
    /\ tick' = [tick EXCEPT ![w].at = "sync", ![w].inst = inst,
                            ![w].jobs = [t \in Task |-> jobs[t].status]]
    /\ online' = TRUE
    /\ UNCHANGED <<row, task, req, agentVars, faults>>

\* syncInstances: what the agent said is stored, and a provider that must not
\* serve is unregistered; one that may serve is probed again.
SyncOnly(w) ==      \* mutant: only the end of a task registers a provider
    /\ In(w, "sync")
    /\ row' = IF ~row.exists \/ ~tick[w].inst.known THEN row
              ELSE [row EXCEPT !.actual = tick[w].inst.actual, !.old = FALSE,
                               !.reg = @ /\ tick[w].inst.actual = "RUNNING" /\ row.desired = "RUNNING"]
    /\ Move(w, "list")
    /\ UNCHANGED Tick
Sync(w) ==
    /\ In(w, "sync")
    /\ LET i == tick[w].inst
           serves == i.actual = "RUNNING" /\ row.desired = "RUNNING"
       IN IF ~row.exists \/ ~i.known THEN Move(w, "list") /\ UNCHANGED row
          ELSE /\ row' = [row EXCEPT !.actual = i.actual, !.old = FALSE, !.reg = @ /\ serves]
               /\ Move(w, IF serves /\ row.op = None /\ ~row.reg THEN "probe" ELSE "list")
    /\ UNCHANGED Tick
\* probeRegister: a live embedding, then the registration.  Without an embedding
\* syncInstances marks the instance, work() throws.
Probe(w) ==
    /\ In(w, "probe") \/ In(w, "reprobe")
    /\ row' = IF In(w, "probe") /\ ~Embeds THEN [row EXCEPT !.actual = "UNHEALTHY", !.reg = FALSE] ELSE row
    /\ Move(w, IF In(w, "probe") THEN (IF Embeds THEN "register" ELSE "list")
               ELSE (IF Embeds THEN "reregister" ELSE "throw"))
    /\ UNCHANGED Tick
Register(w) ==
    /\ In(w, "register") \/ In(w, "reregister")
    /\ row' = [row EXCEPT !.reg = @ \/ (row.actual = "RUNNING" /\ row.desired = "RUNNING")]
    /\ Move(w, IF In(w, "register") THEN "list" ELSE "write")
    /\ UNCHANGED Tick

List(w) ==
    /\ In(w, "list")
    /\ tick' = IF \A t \in Task : ~Unfinished(t) THEN [tick EXCEPT ![w] = NoTick]
               ELSE [tick EXCEPT ![w].at = "next", ![w].todo = {t \in Task : Unfinished(t)},
                                 ![w].cancel = {t \in Task : task[t].cancel}]
    /\ UNCHANGED <<row, Tick>>
-----------------------------------------------------------------------------
\* work(): the claim of a task, or the end of the tick.
Claim(w, t) ==
    /\ In(w, "next") /\ t \in tick[w].todo
    /\ LET claimed == Unfinished(t) /\ (task[t].owner \in {None, w} \/ ~task[t].leased)
       IN /\ task' = IF claimed
                     THEN [task EXCEPT ![t] = [@ EXCEPT !.owner = w, !.leased = TRUE, !.status = "RUNNING"]]
                     ELSE task
          /\ tick' = [tick EXCEPT ![w].todo = @ \ {t}, ![w].task = IF claimed THEN t ELSE None,
                                  ![w].cur = IF claimed THEN tick[w].jobs[t] ELSE "absent",
                                  ![w].at = IF claimed THEN "claimed" ELSE "next"]
    /\ UNCHANGED <<row, online, req, agentVars, faults>>
EndTick(w) ==
    /\ In(w, "next") /\ tick[w].todo = {}
    /\ tick' = [tick EXCEPT ![w] = NoTick]
    /\ UNCHANGED <<row, Tick>>

\* The task is submitted unless the state already had it; its cancellation is
\* forwarded; otherwise its verdict is taken from the agent's answer.
Send(w) ==
    /\ In(w, "claimed") /\ tick[w].cur = "absent"
    /\ IF Refused(tick[w].task) THEN Move(w, "throw") /\ UNCHANGED agentVars
       ELSE Submit(tick[w].task) /\ tick' = [tick EXCEPT ![w].cur = jobs'[tick[w].task].status]
    /\ UNCHANGED <<row, task, online, req, faults>>
Forward(w) ==
    /\ In(w, "claimed") /\ tick[w].cur \in Live /\ tick[w].task \in tick[w].cancel
    /\ CancelJob(tick[w].task)
    /\ tick' = [tick EXCEPT ![w].cur = jobs'[tick[w].task].status, ![w].at = "write"]
    /\ UNCHANGED <<row, task, online, req, faults>>
Judge(w) ==
    /\ In(w, "claimed") /\ tick[w].cur # "absent"
    /\ tick[w].cur \notin Live \/ tick[w].task \notin tick[w].cancel
    /\ Move(w, IF tick[w].cur = "SUCCEEDED" /\ row.desired = "RUNNING"
               THEN (IF row.actual = "RUNNING" THEN "reprobe" ELSE "next") ELSE "write")
    /\ UNCHANGED <<row, Tick>>

\* The verdict is written under the lease.
Write(w) ==
    /\ In(w, "write")
    /\ LET t == tick[w].task IN
       IF task[t].owner = w /\ task[t].leased
       THEN /\ task' = [task EXCEPT ![t] = [@ EXCEPT !.status = tick[w].cur, !.owner = None, !.leased = FALSE]]
            /\ Move(w, IF tick[w].cur \in Terminal THEN "settle" ELSE "next")
       ELSE Move(w, "throw") /\ UNCHANGED task
    /\ UNCHANGED <<row, online, req, agentVars, faults>>
\* What the state that the tick read says of a task that failed or was cancelled
\* decides what is desired now; then the instance is given back.
Verdict(i, status) ==
    IF status = "SUCCEEDED" THEN row
    ELSE IF ~i.known THEN [row EXCEPT !.desired = "STOPPED", !.actual = status, !.reg = FALSE]
    ELSE IF i.desired = "STOPPED" THEN [row EXCEPT !.desired = "STOPPED", !.reg = FALSE]
    ELSE row
Settle(w) ==
    /\ In(w, "settle")
    /\ row' = IF row.op = tick[w].task THEN Verdict(tick[w].inst, tick[w].cur) ELSE row
    /\ Move(w, "release")
    /\ UNCHANGED Tick
Release(w) ==
    /\ In(w, "release")
    /\ row' = IF row.op = tick[w].task THEN [row EXCEPT !.op = None] ELSE row
    /\ Move(w, "next")
    /\ UNCHANGED Tick

\* The catch of work() gives the task back, the catch of tick() marks the node.
Throw(w) ==
    /\ In(w, "throw")
    /\ task' = [t \in Task |-> IF t = tick[w].task /\ task[t].owner = w
                               THEN [task[t] EXCEPT !.owner = None, !.leased = FALSE] ELSE task[t]]
    /\ online' = FALSE
    /\ row' = IF row.exists /\ row.desired # "REMOVED" THEN [row EXCEPT !.actual = "OFFLINE", !.reg = FALSE] ELSE row
    /\ tick' = [tick EXCEPT ![w] = NoTick]
    /\ UNCHANGED <<req, agentVars, faults>>
-----------------------------------------------------------------------------
\* A statement or request of a tick rejects; its process dies; a lease runs out.
TickFails(w) ==
    /\ Fault /\ ~In(w, "idle")
    /\ tick' = [tick EXCEPT ![w].at = "throw",
                            ![w].task = IF tick[w].at \in {"claimed", "reprobe", "reregister", "write", "settle", "release"}
                                        THEN @ ELSE None]
    /\ UNCHANGED <<row, task, online, req, agentVars>>
TickDies(w) ==
    /\ Fault /\ ~In(w, "idle")
    /\ tick' = [tick EXCEPT ![w] = NoTick]
    /\ task' = [t \in Task |-> IF task[t].owner = w THEN [task[t] EXCEPT !.owner = Gone] ELSE task[t]]
    /\ UNCHANGED <<row, online, req, agentVars>>
\* The holder has left the task, or stalls for 90 s.
Lapse(t) ==
    /\ task[t].leased
    /\ task' = [task EXCEPT ![t].leased = FALSE]
    /\ IF \E w \in Worker : task[t].owner = w /\ tick[w].task = t /\ ~In(w, "next")
       THEN Fault ELSE UNCHANGED faults
    /\ UNCHANGED <<row, online, req, tick, agentVars>>

Request(t) == Reserve(t) \/ Insert(t) \/ Desire(t) \/ Record(t)
Poll(w) ==
    \/ Recover(w) \/ FetchState(w) \/ Sync(w) \/ Probe(w) \/ Register(w)
    \/ List(w) \/ (\E t \in Task : Claim(w, t)) \/ EndTick(w) \/ Send(w) \/ Forward(w) \/ Judge(w)
    \/ Write(w) \/ Settle(w) \/ Release(w) \/ Throw(w)
Agent == AgentNext /\ UNCHANGED dbVars
Next ==
    \/ Agent \/ Ages
    \/ \E t \in Task : Request(t) \/ RequestFails(t) \/ RequestDies(t) \/ Cancel(t) \/ Lapse(t)
    \/ \E w \in Worker : Poll(w) \/ TickFails(w) \/ TickDies(w)

\* The timers of the backend (2 s) and of the agent (30 s) go on, a request that
\* began ends, leases and dead reservations get old.
Quiet(A) == A /\ UNCHANGED dbVars
Spec ==
    /\ Init /\ [][Next]_vars
    /\ WF_vars(Quiet(Save \/ Drain \/ Execute \/ \E t \in Task : Begin(t)))
    /\ WF_vars(Quiet(Reconcile \/ Call))
    /\ WF_vars(\E t \in Task : Insert(t) \/ Desire(t) \/ Record(t))
    /\ WF_vars(Ages \/ (\E t \in Task : Lapse(t) /\ UNCHANGED faults))
    /\ \A w \in Worker : WF_vars(Poll(w))
-----------------------------------------------------------------------------
\* The reservation is exclusive: two unfinished tasks of the instance exist only
\* when a request failed after it had inserted its task.
OneOperation ==
    \A t, u \in Task : Unfinished(t) /\ Unfinished(u) /\ t # u => "failed" \in {req[t], req[u]}

\* A provider is never registered while its service is to be stopped or removed,
\* although probes and operations interleave.
RegisteredIsDesired == row.reg => row.desired = "RUNNING"

\* What keeps the two sides apart for good: a request that died before its task
\* or its desired state was stored, one that was so slow that its task was over
\* before, one whose catch kept the task, a task that the agent refuses, and a
\* removal by the timer that outlasted the redeployment after it.
Stranded ==
    \/ \E t \in Task : req[t] = "dead" /\ row.op = t
    \/ \E t \in Task : req[t] \in {"dead", "late", "failed"} /\ task[t].status # "absent"
    \/ \E t \in Task : Unfinished(t) /\ Refused(t) /\ ~Pending
    \/ inst.actual = "REMOVED" /\ inst.desired = "RUNNING"

\* Otherwise, faults over, every operation ends, the agent and the backend agree
\* on what is desired (a cancellation may part them) and the container and the
\* registration follow.
Agreed ==
    /\ row.op = None /\ \A t \in Task : ~Unfinished(t)
    /\ CASE inst.desired = "REMOVED" -> service = "MISSING"
         [] inst.desired = "STOPPED" -> service # "RUNNING"
         [] inst.desired = "RUNNING" -> service # "STOPPED"
    /\ \/ inst.known => row.desired = inst.desired /\ (row.reg <=> service = "RUNNING")
       \/ \E t \in Task : task[t].cancel \/ task[t].status # jobs[t].status
Converges == <>[](Stranded \/ Agreed)
=============================================================================
