---------------------------- MODULE DeploymentAgent ----------------------------
(***************************************************************************)
(* The deployment agent of a compute node: one managed instance, the        *)
(* container that serves it, the tasks the backend submits, the loop that   *)
(* executes them, the timer that reconciles the container with the desired  *)
(* state, and state.json, from which the agent starts again after a crash.  *)
(*                                                                         *)
(* Every step ends at an await.  A change that the code saves before it goes *)
(* on is a step with its save; what the catch or the end of a task changed   *)
(* can be seen by the backend before Save has written it.                    *)
(* Other instances only delay a task: `listed` are the tasks drain() has    *)
(* taken from the queue and not reached yet.                                *)
(***************************************************************************)
EXTENDS Naturals

CONSTANTS
    Task,          \* the task ids the backend may submit
    Plans,         \* what they may ask for: functions from Task to AllActions
    None,          \* no task
    MaxFaults      \* bound on crashes, failures, delays and cancellations

AllActions == {"deploy", "start", "stop", "restart", "remove", "delete-cache"}
ASSUME AgentAssumption == Plans \subseteq [Task -> AllActions] /\ None \notin Task /\ MaxFaults \in Nat

VARIABLES
    kind,      \* the action each task id asks for: part of its request
    inst,      \* store.state.instances: desiredState and actualState
    jobs,      \* store.state.tasks: status and cancelRequested
    disk,      \* what state.json holds of both
    service,   \* the container: MISSING, STOPPED or RUNNING
    listed,    \* tasks of the running drain() that were not reached yet
    exec,      \* the task that execute() works on and where it is
    recon,     \* reconcile(): the call under way, and the container as inspected
    faults     \* bounded by MaxFaults

agentVars == <<kind, inst, jobs, disk, service, listed, exec, recon>>

Terminal == {"SUCCEEDED", "FAILED", "CANCELLED"}
Live == {"PENDING", "RUNNING"}
Desired == {"RUNNING", "STOPPED", "REMOVED"}
Actual == Desired \cup {"PREPARING", "UNHEALTHY", "FAILED", "MISSING"}
Instances == [known : BOOLEAN, desired : Desired, actual : Actual]
Jobs == [Task -> [status : {"absent"} \cup Live \cup Terminal, cancel : BOOLEAN]]

AgentTypeOK ==
    /\ kind \in Plans
    /\ inst \in Instances /\ jobs \in Jobs
    /\ disk \in [inst : Instances, jobs : Jobs]
    /\ service \in {"MISSING", "STOPPED", "RUNNING"}
    /\ listed \subseteq Task
    /\ exec \in [task : Task \cup {None},
                 at : {"idle", "check", "create", "start", "act", "healthy"}]
    /\ recon \in [at : {"idle", "start", "stop", "remove"},
                  seen : {"MISSING", "STOPPED", "RUNNING"}]
    /\ faults \in 0 .. MaxFaults

\* A node that serves the instance already, or one that does not know it.
NoJobs == [t \in Task |-> [status |-> "absent", cancel |-> FALSE]]
AgentInit ==
    /\ kind \in Plans
    /\ \/ inst = [known |-> TRUE, desired |-> "RUNNING", actual |-> "RUNNING"] /\ service = "RUNNING"
       \/ inst = [known |-> FALSE, desired |-> "STOPPED", actual |-> "MISSING"] /\ service = "MISSING"
    /\ jobs = NoJobs
    /\ disk = [inst |-> inst, jobs |-> NoJobs]
    /\ listed = {}
    /\ exec = [task |-> None, at |-> "idle"]
    /\ recon = [at |-> "idle", seen |-> "MISSING"]
    /\ faults = 0

Pending == \E t \in Task : jobs[t].status \in Live
Fault == faults < MaxFaults /\ faults' = faults + 1
Written == disk' = [inst |-> inst', jobs |-> jobs']
-----------------------------------------------------------------------------
\* The requests of the backend; ModelServices makes them.  A task that is known
\* is answered as it stands.
Refused(t) ==
    /\ jobs[t].status = "absent"
    /\ Pending \/ (kind[t] # "deploy" /\ ~inst.known)
Submit(t) ==
    /\ ~Refused(t)
    /\ jobs' = [jobs EXCEPT ![t].status = IF @ = "absent" THEN "PENDING" ELSE @]
    /\ UNCHANGED inst /\ Written
    /\ UNCHANGED <<kind, service, listed, exec, recon>>
CancelJob(t) ==
    /\ jobs' = IF jobs[t].status \in Terminal THEN jobs
               ELSE [jobs EXCEPT ![t] = [status |-> IF @.status = "PENDING" THEN "CANCELLED" ELSE @.status,
                                         cancel |-> TRUE]]
    /\ UNCHANGED inst /\ Written
    /\ UNCHANGED <<kind, service, listed, exec, recon>>
Embeds == inst.known /\ inst.actual = "RUNNING" /\ inst.desired = "RUNNING" /\ service = "RUNNING"

Save ==
    /\ disk # [inst |-> inst, jobs |-> jobs]
    /\ UNCHANGED <<kind, inst, jobs, service, listed, exec, recon, faults>> /\ Written
-----------------------------------------------------------------------------
\* drain() and execute().
Drain ==
    /\ exec.at = "idle" /\ listed = {}
    /\ \E t \in Task : jobs[t].status = "PENDING"
    /\ listed' = {t \in Task : jobs[t].status = "PENDING"}
    /\ UNCHANGED <<kind, inst, jobs, disk, service, exec, recon, faults>>

\* Whatever became of it since it was listed.
Begin(t) ==
    /\ exec.at = "idle" /\ t \in listed
    /\ listed' = listed \ {t}
    /\ jobs' = [jobs EXCEPT ![t].status = "RUNNING"]
    /\ exec' = [task |-> t, at |-> "check"]
    /\ UNCHANGED <<kind, inst, service, recon, faults>> /\ Written

At(place) == exec.at = place
Goto(place) == exec' = [exec EXCEPT !.at = place]
Is(action) == At("check") /\ ~jobs[exec.task].cancel /\ kind[exec.task] = action

Check ==
    /\ At("check")
    /\ \/ Is("deploy") /\ Goto("create")
          /\ inst' = [known |-> TRUE, desired |-> "RUNNING", actual |-> "PREPARING"]
       \/ (Is("start") \/ Is("restart")) /\ Goto("start") /\ inst' = [inst EXCEPT !.desired = "RUNNING"]
       \/ Is("stop") /\ Goto("act") /\ inst' = [inst EXCEPT !.desired = "STOPPED"]
       \/ Is("remove") /\ Goto("act") /\ inst' = [inst EXCEPT !.desired = "REMOVED"]
    /\ UNCHANGED <<kind, jobs, service, listed, recon, faults>> /\ Written

\* Image, download, container; each is followed by throwIfAborted.
Create ==
    /\ At("create") /\ ~jobs[exec.task].cancel
    /\ service' = IF service = "MISSING" THEN "STOPPED" ELSE service
    /\ Goto("start")
    /\ UNCHANGED <<kind, inst, jobs, disk, listed, recon, faults>>
StartService ==
    /\ At("start") /\ service # "MISSING"
    /\ service' = "RUNNING" /\ Goto("healthy")
    /\ UNCHANGED <<kind, inst, jobs, disk, listed, recon, faults>>
Finish(status) ==
    /\ jobs' = [jobs EXCEPT ![exec.task].status = status]
    /\ exec' = [task |-> None, at |-> "idle"]
    /\ UNCHANGED <<kind, disk, listed, recon>>
Succeed ==
    /\ \/ At("healthy") /\ ~jobs[exec.task].cancel /\ service = "RUNNING"
          /\ inst' = [inst EXCEPT !.actual = "RUNNING"]
          /\ UNCHANGED service
       \/ At("act") /\ inst' = [inst EXCEPT !.actual = inst.desired]
          /\ service' = IF inst.desired = "REMOVED" THEN "MISSING"
                        ELSE IF service = "RUNNING" THEN "STOPPED" ELSE service
       \/ Is("delete-cache") /\ inst.actual = "REMOVED" /\ UNCHANGED <<inst, service>>
    /\ Finish("SUCCEEDED")
    /\ UNCHANGED faults

\* The catch block.  An abort is noticed before the next phase; the other
\* failures are a missing container, a service that does not get healthy, a
\* cache in use, and those of the outside world.
Aborted == jobs[exec.task].cancel /\ exec.at \in {"check", "create", "start", "healthy"}
Fails ==
    \/ At("start") /\ service = "MISSING"
    \/ At("healthy") /\ service # "RUNNING"
    \/ Is("delete-cache") /\ inst.actual # "REMOVED"
Catch(status) ==
    /\ inst' = IF ~inst.known THEN inst
               ELSE [inst EXCEPT !.actual = IF status = "CANCELLED" THEN "STOPPED" ELSE "FAILED",
                                 !.desired = IF status = "CANCELLED" \/ kind[exec.task] = "deploy"
                                             THEN "STOPPED" ELSE @]
    /\ service' = IF kind[exec.task] = "deploy" /\ service = "RUNNING" THEN "STOPPED" ELSE service
    /\ Finish(status)
Abort == exec.task # None /\ Aborted /\ Catch("CANCELLED") /\ UNCHANGED faults
Failure ==
    /\ exec.task # None /\ ~Aborted
    /\ Catch("FAILED")
    /\ \/ Fails /\ UNCHANGED faults
       \/ ~Fails /\ (~At("check") \/ Is("deploy") \/ Is("delete-cache")) /\ Fault
-----------------------------------------------------------------------------
\* reconcile(), every 30 s: the container is inspected, then what is desired is
\* brought about, by calls in whose course tasks may be submitted and executed.
\* The health of a running service is judged at once; it may be bad.
Observe(actual) ==
    inst' = [inst EXCEPT !.actual = actual] /\ recon' = [at |-> "idle", seen |-> "MISSING"]

Bring ==
    CASE inst.desired = "RUNNING" /\ service # "RUNNING" -> "start"
      [] inst.desired = "STOPPED" /\ service = "RUNNING" -> "stop"
      [] inst.desired = "REMOVED" /\ service # "MISSING" -> "remove"
      [] OTHER -> "idle"
Reconcile ==
    /\ recon.at = "idle" /\ inst.known /\ inst.actual # "REMOVED" /\ ~Pending
    /\ \/ Bring # "idle" /\ recon' = [at |-> Bring, seen |-> service] /\ UNCHANGED <<inst, faults>>
       \/ Bring = "idle" /\ Observe(IF inst.desired = "REMOVED" THEN "REMOVED" ELSE service) /\ UNCHANGED faults
       \/ Bring = "idle" /\ inst.desired = "RUNNING" /\ Observe("UNHEALTHY") /\ Fault
    /\ UNCHANGED <<kind, jobs, service, listed, exec>> /\ Written
\* The call of the runtime and what is noted after it.  One that rejects ends
\* the round, except where the service should run (line 105).
Call ==
    /\ \/ recon.at = "start" /\ service # "MISSING" /\ service' = "RUNNING" /\ Observe("RUNNING")
       \/ recon.at = "start" /\ service = "MISSING" /\ Observe(recon.seen) /\ UNCHANGED service
       \/ recon.at \in {"stop", "remove"} /\ service = "MISSING" /\ Observe(inst.actual) /\ UNCHANGED service
       \/ recon.at = "stop" /\ service # "MISSING" /\ service' = "STOPPED" /\ Observe("STOPPED")
       \/ recon.at = "remove" /\ service # "MISSING" /\ service' = "MISSING" /\ Observe("REMOVED")
    /\ UNCHANGED <<kind, jobs, listed, exec, faults>> /\ Written
-----------------------------------------------------------------------------
\* The process dies and starts again from state.json; containers live on.
Restart ==
    /\ Fault
    /\ inst' = disk.inst
    /\ jobs' = [t \in Task |-> [disk.jobs[t] EXCEPT !.status = IF @ = "RUNNING" THEN "PENDING" ELSE @]]
    /\ disk' = [inst |-> inst', jobs |-> jobs']
    /\ listed' = {} /\ exec' = [task |-> None, at |-> "idle"]
    /\ recon' = [at |-> "idle", seen |-> "MISSING"]
    /\ UNCHANGED <<kind, service>>
\* The container exits.
ServiceDies ==
    /\ service = "RUNNING" /\ Fault /\ service' = "STOPPED"
    /\ UNCHANGED <<kind, inst, jobs, disk, listed, exec, recon>>

Execute == Check \/ Create \/ StartService \/ Succeed \/ Abort \/ (Failure /\ Fails)

AgentNext ==
    \/ Save \/ Drain \/ Check \/ Create \/ StartService \/ Succeed \/ Abort \/ Failure
    \/ \E t \in Task : Begin(t)
    \/ Reconcile \/ Call \/ Restart \/ ServiceDies
=============================================================================
