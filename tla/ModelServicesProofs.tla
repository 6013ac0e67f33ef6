-------------------------- MODULE ModelServicesProofs ---------------------------
(***************************************************************************)
(* Proofs about ModelServices, for any number of backend processes and of   *)
(* operations on the instance: the types of the rows, of the ticks and of   *)
(* the agent, that a registered provider is one that is desired, and that   *)
(* the reservation keeps two operations apart.                              *)
(***************************************************************************)
EXTENDS ModelServices, TLAPS

USE AgentAssumption, WorkerAssumption
-----------------------------------------------------------------------------
(* The agent. *)

Services == {"MISSING", "STOPPED", "RUNNING"}
Executions == [task : Task \cup {None}, at : {"idle", "check", "create", "start", "act", "healthy"}]
Rounds == [at : {"idle", "start", "stop", "remove"}, seen : Services]

\* execute() works on a task, and on none between two.
AgentTyped == AgentTypeOK /\ (exec.at = "idle" <=> exec.task = None)

\* The instance with another desired or actual state.
LEMMA InstanceChange ==
    ASSUME NEW i \in Instances, NEW d \in Desired, NEW a \in Actual
    PROVE  /\ [i EXCEPT !.desired = d] \in Instances
           /\ [i EXCEPT !.actual = a] \in Instances
           /\ [i EXCEPT !.actual = a, !.desired = d] \in Instances
<1> DEFINE f == [i EXCEPT !.actual = a]
<1>1. [i EXCEPT !.desired = d] \in Instances /\ f \in Instances
  BY DEF Instances
<1>2. [i EXCEPT !.actual = a, !.desired = d] = [f EXCEPT !.desired = d]
  BY DEF Instances
<1> HIDE DEF f
<1>3. [f EXCEPT !.desired = d] \in Instances
  BY <1>1 DEF Instances
<1> QED BY <1>1, <1>2, <1>3 DEF f

\* A task with another status.
LEMMA JobChange ==
    ASSUME NEW j \in Jobs, NEW t \in Task, NEW s \in {"absent"} \cup Live \cup Terminal
    PROVE  [j EXCEPT ![t].status = s] \in Jobs
<1> DEFINE e == [j[t] EXCEPT !.status = s]
<1>1. e \in [status : {"absent"} \cup Live \cup Terminal, cancel : BOOLEAN]
  BY DEF Jobs
<1>2. [j EXCEPT ![t].status = s] = [j EXCEPT ![t] = e]
  OBVIOUS
<1> HIDE DEF e
<1> QED BY <1>1, <1>2 DEF Jobs

LEMMA WrittenTyped ==
    ASSUME Written, inst' \in Instances, jobs' \in Jobs
    PROVE  disk' \in [inst : Instances, jobs : Jobs]
BY DEF Written

LEMMA AgentTypeInit == AgentInit => AgentTyped
<1> SUFFICES ASSUME AgentInit PROVE AgentTyped
  OBVIOUS
<1>1. inst \in Instances /\ service \in Services
  <2>1. /\ [known |-> TRUE, desired |-> "RUNNING", actual |-> "RUNNING"] \in Instances
        /\ [known |-> FALSE, desired |-> "STOPPED", actual |-> "MISSING"] \in Instances
    BY DEF Instances, Desired, Actual
  <2> QED BY <2>1 DEF AgentInit, Services
<1>2. NoJobs \in Jobs
  BY DEF NoJobs, Jobs
<1>3. disk \in [inst : Instances, jobs : Jobs]
  BY <1>1, <1>2 DEF AgentInit
<1>4. exec \in Executions /\ exec.at = "idle" /\ exec.task = None /\ recon \in Rounds
  BY DEF AgentInit, Executions, Rounds, Services
<1>5. faults \in 0 .. MaxFaults /\ kind \in Plans /\ listed \subseteq Task /\ jobs \in Jobs
  BY <1>2 DEF AgentInit
<1> QED BY <1>1, <1>3, <1>4, <1>5 DEF AgentTyped, AgentTypeOK, Executions, Rounds, Services

\* The requests of the backend.
LEMMA AgentTypeRequest ==
    ASSUME AgentTyped, NEW t \in Task, Submit(t) \/ CancelJob(t), UNCHANGED faults
    PROVE  AgentTyped'
<1>1. jobs' \in Jobs
  <2>1. CASE Submit(t)
    <3> DEFINE s == IF jobs[t].status = "absent" THEN "PENDING" ELSE jobs[t].status
    <3>1. jobs \in Jobs /\ s \in {"absent"} \cup Live \cup Terminal
      BY DEF AgentTyped, AgentTypeOK, Jobs, Live
    <3>2. jobs' = [jobs EXCEPT ![t].status = s]
      BY <2>1, <3>1 DEF Submit, Jobs
    <3> HIDE DEF s
    <3> QED BY <3>1, <3>2, JobChange
  <2>2. CASE CancelJob(t)
    <3>1. jobs \in Jobs
      BY DEF AgentTyped, AgentTypeOK
    <3> DEFINE e == [status |-> IF jobs[t].status = "PENDING" THEN "CANCELLED" ELSE jobs[t].status,
                     cancel |-> TRUE]
    <3>2. e \in [status : {"absent"} \cup Live \cup Terminal, cancel : BOOLEAN]
      BY <3>1 DEF Jobs, Terminal
    <3>3. jobs' = jobs \/ jobs' = [jobs EXCEPT ![t] = e]
      BY <2>2, <3>1 DEF CancelJob, Jobs
    <3> HIDE DEF e
    <3> QED BY <3>1, <3>2, <3>3 DEF Jobs
  <2> QED BY <2>1, <2>2
<1>2. UNCHANGED <<kind, inst, service, listed, exec, recon, faults>> /\ Written
  BY DEF Submit, CancelJob
<1>3. disk' \in [inst : Instances, jobs : Jobs]
  BY <1>1, <1>2, WrittenTyped DEF AgentTyped, AgentTypeOK
<1> QED BY <1>1, <1>2, <1>3 DEF AgentTyped, AgentTypeOK

LEMMA ExecChange ==
    ASSUME AgentTyped, NEW place \in {"check", "create", "start", "act", "healthy"}, Goto(place),
           exec.at # "idle"
    PROVE  exec' \in Executions /\ exec'.task \in Task /\ exec'.at # "idle"
BY DEF AgentTyped, AgentTypeOK, Goto, Executions

\* The end of a task.
LEMMA FinishTyped ==
    ASSUME AgentTyped, NEW status \in Terminal, Finish(status), exec.at # "idle",
           inst' \in Instances, service' \in Services, faults' \in 0 .. MaxFaults
    PROVE  AgentTyped'
<1>1. jobs \in Jobs /\ exec.task \in Task /\ jobs' = [jobs EXCEPT ![exec.task].status = status]
  BY DEF AgentTyped, AgentTypeOK, Finish
<1>2. jobs' \in Jobs
  <2> DEFINE t == exec.task
  <2>1. t \in Task /\ jobs' = [jobs EXCEPT ![t].status = status]
    BY <1>1
  <2>2. status \in {"absent"} \cup Live \cup Terminal
    OBVIOUS
  <2> HIDE DEF t
  <2>3. [jobs EXCEPT ![t].status = status] \in Jobs
    BY <1>1, <2>1, <2>2, JobChange
  <2> QED BY <2>1, <2>3
<1>3. exec' = [task |-> None, at |-> "idle"] /\ UNCHANGED <<kind, disk, listed, recon>>
  BY DEF Finish
<1>4. exec' \in Executions /\ exec'.at = "idle" /\ exec'.task = None
  BY <1>3 DEF Executions
<1> QED BY <1>2, <1>3, <1>4 DEF AgentTyped, AgentTypeOK, Executions, Services

LEMMA CatchTyped ==
    ASSUME AgentTyped, NEW status \in {"FAILED", "CANCELLED"}, Catch(status), exec.at # "idle",
           faults' \in 0 .. MaxFaults
    PROVE  AgentTyped'
<1>1. inst \in Instances /\ service \in Services
  BY DEF AgentTyped, AgentTypeOK, Services
<1>2. service' \in Services
  BY <1>1 DEF Catch, Services
<1>3. inst' \in Instances
  <2> DEFINE a == IF status = "CANCELLED" THEN "STOPPED" ELSE "FAILED"
             d == IF status = "CANCELLED" \/ kind[exec.task] = "deploy" THEN "STOPPED" ELSE inst.desired
  <2>1. a \in Actual /\ d \in Desired
    BY <1>1 DEF Actual, Desired, Instances
  <2>2. inst' = inst \/ inst' = [inst EXCEPT !.actual = a, !.desired = d]
    BY DEF Catch
  <2> HIDE DEF a, d
  <2>3. [inst EXCEPT !.actual = a, !.desired = d] \in Instances
    BY <1>1, <2>1, InstanceChange
  <2> QED BY <1>1, <2>2, <2>3
<1> QED BY <1>2, <1>3, FinishTyped DEF Catch, Terminal

LEMMA AgentTypeNext == ASSUME AgentTyped, AgentNext PROVE AgentTyped'
<1>0. /\ kind \in Plans /\ inst \in Instances /\ jobs \in Jobs /\ service \in Services
      /\ disk \in [inst : Instances, jobs : Jobs] /\ listed \subseteq Task
      /\ exec \in Executions /\ recon \in Rounds /\ faults \in 0 .. MaxFaults
      /\ exec.at = "idle" <=> exec.task = None
  BY DEF AgentTyped, AgentTypeOK, Services, Executions, Rounds
<1> SUFFICES /\ kind' \in Plans /\ inst' \in Instances /\ jobs' \in Jobs /\ service' \in Services
             /\ disk' \in [inst : Instances, jobs : Jobs] /\ listed' \subseteq Task
             /\ exec' \in Executions /\ recon' \in Rounds /\ faults' \in 0 .. MaxFaults
             /\ exec'.at = "idle" <=> exec'.task = None
  BY DEF AgentTyped, AgentTypeOK, Services, Executions, Rounds
<1>1. CASE Save
  BY <1>0, <1>1, WrittenTyped DEF Save
<1>2. CASE Drain
  BY <1>0, <1>2 DEF Drain
<1>3. CASE Check
  <2>1. exec.at # "idle" /\ UNCHANGED <<kind, jobs, service, listed, recon, faults>> /\ Written
    BY <1>3 DEF Check, At
  <2>2. \E place \in {"create", "start", "act"} : Goto(place)
    BY <1>3 DEF Check
  <2>3. inst' \in Instances
    <3>1. \/ inst' = [known |-> TRUE, desired |-> "RUNNING", actual |-> "PREPARING"]
          \/ \E d \in Desired : inst' = [inst EXCEPT !.desired = d]
      BY <1>3 DEF Check, Desired
    <3>2. [known |-> TRUE, desired |-> "RUNNING", actual |-> "PREPARING"] \in Instances
      BY DEF Instances, Desired, Actual
    <3>3. \A d \in Desired : [inst EXCEPT !.desired = d] \in Instances
      BY <1>0 DEF Instances
    <3> QED BY <3>1, <3>2, <3>3
  <2> QED BY <1>0, <2>1, <2>2, <2>3, ExecChange, WrittenTyped
<1>4. CASE Create
  <2>1. exec.at # "idle" /\ Goto("start")
    BY <1>4 DEF Create, At
  <2> QED BY <1>0, <1>4, <2>1, ExecChange DEF Create, Services
<1>5. CASE StartService
  <2>1. exec.at # "idle" /\ Goto("healthy")
    BY <1>5 DEF StartService, At
  <2> QED BY <1>0, <1>5, <2>1, ExecChange DEF StartService, Services
<1>6. CASE Succeed
  <2>1. exec.at # "idle" /\ Finish("SUCCEEDED") /\ UNCHANGED faults /\ "SUCCEEDED" \in Terminal
    BY <1>6 DEF Succeed, At, Is, Terminal
  <2>2. service' \in Services
    BY <1>0, <1>6 DEF Succeed, Services
  <2>3. inst' \in Instances
    <3>1. "RUNNING" \in Actual /\ inst.desired \in Actual
      BY <1>0 DEF Actual, Instances, Desired
    <3>2. inst' = inst \/ \E a \in Actual : inst' = [inst EXCEPT !.actual = a]
      BY <1>6, <3>1 DEF Succeed
    <3>3. \A a \in Actual : [inst EXCEPT !.actual = a] \in Instances
      BY <1>0 DEF Instances
    <3> QED BY <1>0, <3>2, <3>3
  <2>4. AgentTyped'
    BY <1>0, <2>1, <2>2, <2>3, FinishTyped
  <2> QED BY <2>4 DEF AgentTyped, AgentTypeOK, Services, Executions, Rounds
<1>7. CASE Abort \/ Failure
  <2>1. exec.at # "idle"
    BY <1>0, <1>7 DEF Abort, Failure
  <2>2. faults' \in 0 .. MaxFaults
    BY <1>0, <1>7 DEF Abort, Failure, Fault
  <2>3. Catch("CANCELLED") \/ Catch("FAILED")
    BY <1>7 DEF Abort, Failure
  <2>4. AgentTyped'
    BY <2>1, <2>2, <2>3, CatchTyped
  <2> QED BY <2>4 DEF AgentTyped, AgentTypeOK, Services, Executions, Rounds
<1>8. ASSUME NEW t \in Task, Begin(t)
      PROVE  /\ kind' \in Plans /\ inst' \in Instances /\ jobs' \in Jobs /\ service' \in Services
             /\ disk' \in [inst : Instances, jobs : Jobs] /\ listed' \subseteq Task
             /\ exec' \in Executions /\ recon' \in Rounds /\ faults' \in 0 .. MaxFaults
             /\ exec'.at = "idle" <=> exec'.task = None
  <2>1. jobs' \in Jobs
    BY <1>0, <1>8, JobChange DEF Begin, Live
  <2>2. exec' \in Executions /\ exec'.task = t /\ exec'.at = "check"
    BY <1>8 DEF Begin, Executions
  <2> QED BY <1>0, <1>8, <2>1, <2>2, WrittenTyped DEF Begin
<1>9. CASE Reconcile \/ Call
  <2>1. UNCHANGED <<kind, jobs, listed, exec>> /\ Written
    BY <1>9 DEF Reconcile, Call
  <2>2. service' \in Services /\ faults' \in 0 .. MaxFaults
    BY <1>0, <1>9 DEF Reconcile, Call, Services, Fault
  <2>3. recon' \in Rounds
    BY <1>0, <1>9 DEF Reconcile, Call, Rounds, Services, Observe, Bring
  <2>4. inst' \in Instances
    <3>1. /\ Services \subseteq Actual /\ "REMOVED" \in Actual /\ "UNHEALTHY" \in Actual
          /\ recon.seen \in Actual /\ inst.actual \in Actual /\ service \in Actual
      BY <1>0 DEF Actual, Desired, Services, Rounds, Instances
    <3>2. inst' = inst \/ \E a \in Actual : inst' = [inst EXCEPT !.actual = a]
      BY <1>9, <3>1 DEF Reconcile, Call, Observe, Services
    <3>3. \A a \in Actual : [inst EXCEPT !.actual = a] \in Instances
      BY <1>0 DEF Instances
    <3> QED BY <1>0, <3>2, <3>3
  <2> QED BY <1>0, <2>1, <2>2, <2>3, <2>4, WrittenTyped
<1>10. CASE Restart
  <2>1. inst' \in Instances
    BY <1>0, <1>10 DEF Restart
  <2>2. jobs' \in Jobs
    <3> DEFINE S(t) == IF disk.jobs[t].status = "RUNNING" THEN "PENDING" ELSE disk.jobs[t].status
    <3>1. disk.jobs \in Jobs
      BY <1>0
    <3>2. \A t \in Task : S(t) \in {"absent"} \cup Live \cup Terminal
      BY <3>1 DEF Jobs, Live
    <3>3. jobs' = [t \in Task |-> [disk.jobs[t] EXCEPT !.status = S(t)]]
      BY <1>10, <3>1 DEF Restart, Jobs
    <3> HIDE DEF S
    <3>4. \A t \in Task : [disk.jobs[t] EXCEPT !.status = S(t)]
                             \in [status : {"absent"} \cup Live \cup Terminal, cancel : BOOLEAN]
      BY <3>1, <3>2 DEF Jobs
    <3> QED BY <3>3, <3>4 DEF Jobs
  <2>3. /\ exec' \in Executions /\ exec'.at = "idle" /\ exec'.task = None
        /\ recon' \in Rounds
    BY <1>10 DEF Restart, Executions, Rounds, Services
  <2>4. faults' \in 0 .. MaxFaults
    BY <1>0, <1>10 DEF Restart, Fault
  <2> QED BY <1>0, <1>10, <2>1, <2>2, <2>3, <2>4 DEF Restart
<1>11. CASE ServiceDies
  BY <1>0, <1>11 DEF ServiceDies, Fault, Services
<1> QED
  BY <1>1, <1>2, <1>3, <1>4, <1>5, <1>6, <1>7, <1>8, <1>9, <1>10, <1>11 DEF AgentNext
-----------------------------------------------------------------------------
(* What the statements do to the row of the instance.                      *)

Desires == row.reg => row.desired = "RUNNING"

LEMMA ReserveRow ==
    ASSUME row \in Rows, NEW t \in Task,
           row' = [row EXCEPT !.exists = TRUE, !.op = t, !.old = FALSE]
    PROVE  /\ row' \in Rows /\ row'.op = t /\ ~row'.old
           /\ row'.desired = row.desired /\ row'.reg = row.reg
<1> DEFINE f == [row EXCEPT !.exists = TRUE]
           g == [f EXCEPT !.op = t]
<1>1. f \in Rows /\ f.desired = row.desired /\ f.reg = row.reg
  BY DEF Rows
<1>2. row' = [g EXCEPT !.old = FALSE]
  BY DEF Rows
<1> HIDE DEF f
<1>3. g \in Rows /\ g.op = t /\ g.desired = row.desired /\ g.reg = row.reg
  BY <1>1 DEF Rows
<1> HIDE DEF g
<1> QED BY <1>2, <1>3 DEF Rows

LEMMA DesireRow ==
    ASSUME row \in Rows, NEW d \in Desired, row' = [row EXCEPT !.desired = d, !.reg = FALSE]
    PROVE  row' \in Rows /\ row'.op = row.op /\ row'.old = row.old /\ ~row'.reg
<1> DEFINE f == [row EXCEPT !.desired = d]
<1>1. f \in Rows /\ f.op = row.op /\ f.old = row.old
  BY DEF Rows
<1>2. row' = [f EXCEPT !.reg = FALSE]
  BY DEF Rows
<1> HIDE DEF f
<1> QED BY <1>1, <1>2 DEF Rows

LEMMA FreeRow ==
    ASSUME row \in Rows, row' = [row EXCEPT !.op = None]
    PROVE  /\ row' \in Rows /\ row'.op = None /\ row'.old = row.old
           /\ row'.desired = row.desired /\ row'.reg = row.reg
BY DEF Rows

LEMMA AgeRow ==
    ASSUME row \in Rows, row' = [row EXCEPT !.old = TRUE]
    PROVE  /\ row' \in Rows /\ row'.op = row.op
           /\ row'.desired = row.desired /\ row'.reg = row.reg
BY DEF Rows

\* A provider that is unregistered, or stays as it is, with what the node said.
LEMMA SyncRow ==
    ASSUME row \in Rows, NEW a \in Actual, NEW r \in BOOLEAN, r => row.reg,
           row' = [row EXCEPT !.actual = a, !.old = FALSE, !.reg = r]
    PROVE  /\ row' \in Rows /\ row'.op = row.op /\ ~row'.old
           /\ row'.desired = row.desired /\ (row'.reg => row.reg)
<1> DEFINE f == [row EXCEPT !.actual = a]
           g == [f EXCEPT !.old = FALSE]
<1>1. f \in Rows /\ f.op = row.op /\ f.desired = row.desired
  BY DEF Rows
<1>2. row' = [g EXCEPT !.reg = r]
  BY DEF Rows
<1> HIDE DEF f
<1>3. g \in Rows /\ g.op = row.op /\ g.desired = row.desired /\ ~g.old
  BY <1>1 DEF Rows
<1> HIDE DEF g
<1> QED BY <1>2, <1>3 DEF Rows

LEMMA MarkRow ==
    ASSUME row \in Rows, NEW a \in {"UNHEALTHY", "OFFLINE"}, row' = [row EXCEPT !.actual = a, !.reg = FALSE]
    PROVE  row' \in Rows /\ row'.op = row.op /\ row'.old = row.old /\ ~row'.reg
<1> DEFINE f == [row EXCEPT !.actual = a]
<1>1. f \in Rows /\ f.op = row.op /\ f.old = row.old
  BY DEF Rows, Actual
<1>2. row' = [f EXCEPT !.reg = FALSE]
  BY DEF Rows
<1> HIDE DEF f
<1> QED BY <1>1, <1>2 DEF Rows

LEMMA RegisterRow ==
    ASSUME row \in Rows, NEW r \in BOOLEAN, row' = [row EXCEPT !.reg = r]
    PROVE  /\ row' \in Rows /\ row'.op = row.op /\ row'.old = row.old
           /\ row'.desired = row.desired /\ (row'.reg => r)
BY DEF Rows

\* What a verdict makes of the row, before the instance is given back.
LEMMA VerdictRow ==
    ASSUME row \in Rows, NEW i \in Instances, NEW c \in Terminal
    PROVE  /\ Verdict(i, c) \in Rows /\ Verdict(i, c).op = row.op /\ Verdict(i, c).old = row.old
           /\ Desires => (Verdict(i, c).reg => Verdict(i, c).desired = "RUNNING")
<1>1. CASE Verdict(i, c) = row
  BY <1>1 DEF Desires
<1>2. CASE c # "SUCCEEDED" /\ Verdict(i, c) = [row EXCEPT !.desired = "STOPPED", !.actual = c, !.reg = FALSE]
  <2> DEFINE f == [row EXCEPT !.desired = "STOPPED"]
             g == [f EXCEPT !.actual = c]
             h == [g EXCEPT !.reg = FALSE]
  <2>1. f \in Rows /\ f.op = row.op /\ f.old = row.old /\ c \in Actual \cup {"CANCELLED"}
    BY <1>2 DEF Rows, Desired, Terminal, Actual
  <2>2. Verdict(i, c) = h
    BY <1>2 DEF Rows
  <2> HIDE DEF f
  <2>3. g \in Rows /\ g.op = row.op /\ g.old = row.old
    BY <2>1 DEF Rows
  <2> HIDE DEF g
  <2>4. h \in Rows /\ h.op = row.op /\ h.old = row.old /\ ~h.reg
    BY <2>3 DEF Rows
  <2> QED BY <2>2, <2>4
<1>3. CASE Verdict(i, c) = [row EXCEPT !.desired = "STOPPED", !.reg = FALSE]
  <2> DEFINE f == [row EXCEPT !.desired = "STOPPED"]
             h == [f EXCEPT !.reg = FALSE]
  <2>1. f \in Rows /\ f.op = row.op /\ f.old = row.old
    BY DEF Rows, Desired
  <2>2. Verdict(i, c) = h
    BY <1>3 DEF Rows
  <2> HIDE DEF f
  <2>3. h \in Rows /\ h.op = row.op /\ h.old = row.old /\ ~h.reg
    BY <2>1 DEF Rows
  <2> QED BY <2>2, <2>3
<1> QED BY <1>1, <1>2, <1>3 DEF Verdict
-----------------------------------------------------------------------------
(* What the steps do to the ticks.                                         *)

Ending == {"settle", "release"}
Busy == {"claimed", "reprobe", "reregister", "write"} \cup Ending
Stations == {"idle", "state", "sync", "probe", "register", "list", "next", "throw"} \cup Busy
\* What a tick holds: the place, and the task it works on with its answer.
TickRecord == [at : Stations, inst : Instances, jobs : [Task -> Statuses],
               todo : SUBSET Task, cancel : SUBSET Task, task : Task \cup {None}, cur : Statuses]

\* The record of one tick is replaced.
LEMMA TickChange ==
    ASSUME tick \in [Worker -> TickRecord], NEW w \in Worker, NEW e \in TickRecord,
           tick' = [tick EXCEPT ![w] = e]
    PROVE  /\ tick' \in [Worker -> TickRecord] /\ tick'[w] = e
           /\ \A v \in Worker \ {w} : tick'[v] = tick[v]
OBVIOUS

LEMMA MoveEffect ==
    ASSUME tick \in [Worker -> TickRecord], NEW w \in Worker, NEW place \in Stations, Move(w, place)
    PROVE  /\ tick' \in [Worker -> TickRecord] /\ \A v \in Worker \ {w} : tick'[v] = tick[v]
           /\ tick'[w].at = place /\ tick'[w].task = tick[w].task /\ tick'[w].cur = tick[w].cur
           /\ tick'[w].inst = tick[w].inst
<1> DEFINE e == [tick[w] EXCEPT !.at = place]
<1>1. /\ e \in TickRecord /\ e.at = place /\ e.task = tick[w].task /\ e.cur = tick[w].cur
      /\ e.inst = tick[w].inst
  BY DEF TickRecord
<1>2. tick' = [tick EXCEPT ![w] = e]
  BY DEF Move
<1> HIDE DEF e
<1> QED BY <1>1, <1>2, TickChange

LEMMA FetchEffect ==
    ASSUME tick \in [Worker -> TickRecord], NEW w \in Worker, AgentTyped, FetchState(w)
    PROVE  /\ tick' \in [Worker -> TickRecord] /\ \A v \in Worker \ {w} : tick'[v] = tick[v]
           /\ tick'[w].at = "sync"
<1> DEFINE known == [t \in Task |-> jobs[t].status]
           f == [tick[w] EXCEPT !.at = "sync"]
           g == [f EXCEPT !.inst = inst]
           e == [g EXCEPT !.jobs = known]
<1>1. known \in [Task -> Statuses] /\ inst \in Instances
  BY DEF AgentTyped, AgentTypeOK, Jobs, Statuses
<1>2. tick' = [tick EXCEPT ![w] = e]
  BY DEF FetchState, TickRecord
<1>3. f \in TickRecord /\ f.at = "sync"
  BY DEF TickRecord, Stations
<1> HIDE DEF known, f
<1>4. g \in TickRecord /\ g.at = "sync"
  BY <1>1, <1>3 DEF TickRecord
<1> HIDE DEF g
<1>5. e \in TickRecord /\ e.at = "sync"
  BY <1>1, <1>4 DEF TickRecord
<1> HIDE DEF e
<1> QED BY <1>2, <1>5, TickChange

LEMMA NoTickTyped == NoTick \in TickRecord /\ NoTick.at = "idle" /\ NoTick.task = None
<1>1. [t \in Task |-> "absent"] \in [Task -> Statuses]
  BY DEF Statuses
<1>2. [known |-> FALSE, desired |-> "STOPPED", actual |-> "MISSING"] \in Instances
  BY DEF Instances, Desired, Actual
<1>3. "absent" \in Statuses
  BY DEF Statuses
<1> QED BY <1>1, <1>2, <1>3 DEF NoTick, TickRecord, Stations

LEMMA ListEffect ==
    ASSUME tick \in [Worker -> TickRecord], NEW w \in Worker, List(w)
    PROVE  /\ tick' \in [Worker -> TickRecord] /\ \A v \in Worker \ {w} : tick'[v] = tick[v]
           /\ tick'[w].at \in {"next", "idle"}
<1> DEFINE todo == {t \in Task : Unfinished(t)}
           gone == {t \in Task : task[t].cancel}
           f == [tick[w] EXCEPT !.at = "next"]
           g == [f EXCEPT !.todo = todo]
           e == [g EXCEPT !.cancel = gone]
<1>1. todo \in SUBSET Task /\ gone \in SUBSET Task
  OBVIOUS
<1>2. tick' = [tick EXCEPT ![w] = NoTick] \/ tick' = [tick EXCEPT ![w] = e]
  BY DEF List, TickRecord
<1>3. f \in TickRecord /\ f.at = "next"
  BY DEF TickRecord, Stations
<1> HIDE DEF todo, gone, f
<1>4. g \in TickRecord /\ g.at = "next"
  BY <1>1, <1>3 DEF TickRecord
<1> HIDE DEF g
<1>5. e \in TickRecord /\ e.at = "next"
  BY <1>1, <1>4 DEF TickRecord
<1> HIDE DEF e
<1> QED BY <1>2, <1>5, NoTickTyped, TickChange

LEMMA ClaimTick ==
    ASSUME tick \in [Worker -> TickRecord], NEW w \in Worker, NEW t \in Task, Claim(w, t)
    PROVE  /\ tick' \in [Worker -> TickRecord] /\ \A v \in Worker \ {w} : tick'[v] = tick[v]
           /\ \/ tick'[w].at = "claimed" /\ tick'[w].task = t
              \/ tick'[w].at = "next" /\ tick'[w].task = None
<1> DEFINE claimed == Unfinished(t) /\ (task[t].owner \in {None, w} \/ ~task[t].leased)
           todo == tick[w].todo \ {t}
           u == IF claimed THEN t ELSE None
           c == IF claimed THEN tick[w].jobs[t] ELSE "absent"
           place == IF claimed THEN "claimed" ELSE "next"
           f == [tick[w] EXCEPT !.todo = todo]
           g == [f EXCEPT !.task = u]
           h == [g EXCEPT !.cur = c]
           e == [h EXCEPT !.at = place]
<1>1. /\ todo \in SUBSET Task /\ u \in Task \cup {None} /\ c \in Statuses /\ place \in Stations
      /\ (place = "claimed" /\ u = t) \/ (place = "next" /\ u = None)
  BY DEF TickRecord, Stations, Busy, Ending, Statuses
<1>2. tick' = [tick EXCEPT ![w] = e]
  BY DEF Claim, TickRecord
<1>3. f \in TickRecord
  BY DEF TickRecord
<1> HIDE DEF claimed, todo, u, c, place, f
<1>4. g \in TickRecord /\ g.task = u
  BY <1>1, <1>3 DEF TickRecord
<1> HIDE DEF g
<1>5. h \in TickRecord /\ h.task = u
  BY <1>1, <1>4 DEF TickRecord
<1> HIDE DEF h
<1>6. e \in TickRecord /\ e.task = u /\ e.at = place
  BY <1>1, <1>5 DEF TickRecord
<1> HIDE DEF e
<1> QED BY <1>1, <1>2, <1>6, TickChange

\* The answer of the agent.
LEMMA AnswerEffect ==
    ASSUME tick \in [Worker -> TickRecord], NEW w \in Worker, NEW c \in Statuses, NEW place \in Stations,
           tick' = [tick EXCEPT ![w].cur = c, ![w].at = place] \/
           (tick' = [tick EXCEPT ![w].cur = c] /\ place = tick[w].at)
    PROVE  /\ tick' \in [Worker -> TickRecord] /\ \A v \in Worker \ {w} : tick'[v] = tick[v]
           /\ tick'[w].at = place /\ tick'[w].task = tick[w].task
<1> DEFINE f == [tick[w] EXCEPT !.cur = c]
           e == [f EXCEPT !.at = place]
<1>1. f \in TickRecord /\ f.task = tick[w].task /\ f.at = tick[w].at
  BY DEF TickRecord
<1>2. tick' = [tick EXCEPT ![w] = e] \/ (tick' = [tick EXCEPT ![w] = f] /\ place = tick[w].at)
  BY DEF TickRecord
<1> HIDE DEF f
<1>3. e \in TickRecord /\ e.task = tick[w].task /\ e.at = place
  BY <1>1 DEF TickRecord
<1> HIDE DEF e
<1> QED BY <1>1, <1>2, <1>3, TickChange

LEMMA FailTick ==
    ASSUME tick \in [Worker -> TickRecord], NEW w \in Worker, TickFails(w)
    PROVE  /\ tick' \in [Worker -> TickRecord] /\ \A v \in Worker \ {w} : tick'[v] = tick[v]
           /\ tick'[w].at = "throw"
<1> DEFINE u == IF tick[w].at \in {"claimed", "reprobe", "reregister", "write", "settle", "release"}
                THEN tick[w].task ELSE None
           f == [tick[w] EXCEPT !.at = "throw"]
           e == [f EXCEPT !.task = u]
<1>1. u \in Task \cup {None}
  BY DEF TickRecord
<1>2. tick' = [tick EXCEPT ![w] = e]
  BY DEF TickFails, TickRecord
<1>3. f \in TickRecord /\ f.at = "throw"
  BY DEF TickRecord, Stations
<1> HIDE DEF u, f
<1>4. e \in TickRecord /\ e.at = "throw"
  BY <1>1, <1>3 DEF TickRecord
<1> HIDE DEF e
<1> QED BY <1>2, <1>4, TickChange
-----------------------------------------------------------------------------
(* What the statements do to the tasks.                                    *)

TaskRecord == [status : Statuses, owner : Worker \cup {None, Gone}, leased : BOOLEAN, cancel : BOOLEAN]

LEMMA InsertTask ==
    ASSUME task \in [Task -> TaskRecord], NEW t \in Task, task' = [task EXCEPT ![t].status = "PENDING"]
    PROVE  /\ task' \in [Task -> TaskRecord] /\ \A u \in Task \ {t} : task'[u] = task[u]
           /\ task'[t].status = "PENDING"
<1> DEFINE e == [task[t] EXCEPT !.status = "PENDING"]
<1>1. e \in TaskRecord /\ e.status = "PENDING"
  BY DEF TaskRecord, Statuses, Live
<1>2. task' = [task EXCEPT ![t] = e]
  OBVIOUS
<1> HIDE DEF e
<1> QED BY <1>1, <1>2

\* A cancellation, or a lease that runs out.
LEMMA FlagTask ==
    ASSUME task \in [Task -> TaskRecord], NEW t \in Task,
           task' = [task EXCEPT ![t].cancel = TRUE] \/ task' = [task EXCEPT ![t].leased = FALSE]
    PROVE  /\ task' \in [Task -> TaskRecord] /\ \A u \in Task \ {t} : task'[u] = task[u]
           /\ task'[t].status = task[t].status /\ task'[t].owner = task[t].owner
<1> DEFINE f == [task[t] EXCEPT !.cancel = TRUE]
           g == [task[t] EXCEPT !.leased = FALSE]
<1>1. /\ f \in TaskRecord /\ f.status = task[t].status /\ f.owner = task[t].owner
      /\ g \in TaskRecord /\ g.status = task[t].status /\ g.owner = task[t].owner
  BY DEF TaskRecord
<1>2. task' = [task EXCEPT ![t] = f] \/ task' = [task EXCEPT ![t] = g]
  OBVIOUS
<1> HIDE DEF f, g
<1> QED BY <1>1, <1>2

\* The claim, and the verdict.
LEMMA OwnTask ==
    ASSUME task \in [Task -> TaskRecord], NEW t \in Task, NEW o \in Worker \cup {None},
           NEW l \in BOOLEAN, NEW s \in Statuses,
           \/ task' = [task EXCEPT ![t] = [@ EXCEPT !.owner = o, !.leased = l, !.status = s]]
           \/ task' = [task EXCEPT ![t] = [@ EXCEPT !.status = s, !.owner = o, !.leased = l]]
    PROVE  /\ task' \in [Task -> TaskRecord] /\ \A u \in Task \ {t} : task'[u] = task[u]
           /\ task'[t].status = s /\ task'[t].owner = o
<1> DEFINE f == [task[t] EXCEPT !.owner = o]
           g == [f EXCEPT !.leased = l]
           e == [g EXCEPT !.status = s]
<1>1. f \in TaskRecord /\ f.owner = o
  BY DEF TaskRecord
<1>2. task' = [task EXCEPT ![t] = e]
  BY DEF TaskRecord
<1> HIDE DEF f
<1>3. g \in TaskRecord /\ g.owner = o
  BY <1>1 DEF TaskRecord
<1> HIDE DEF g
<1>4. e \in TaskRecord /\ e.owner = o /\ e.status = s
  BY <1>3 DEF TaskRecord
<1> HIDE DEF e
<1> QED BY <1>2, <1>4

\* A worker that gives its tasks up, or dies.
LEMMA LeaveTasks ==
    ASSUME task \in [Task -> TaskRecord], NEW w \in Worker, Throw(w) \/ TickDies(w)
    PROVE  /\ task' \in [Task -> TaskRecord]
           /\ \A t \in Task : task'[t].status = task[t].status
                              /\ (task'[t].owner \in Worker => task[t].owner \in Worker)
<1> DEFINE f(t) == [task[t] EXCEPT !.owner = None]
           g(t) == [f(t) EXCEPT !.leased = FALSE]
           h(t) == [task[t] EXCEPT !.owner = Gone]
<1>1. \A t \in Task : \/ task'[t] \in {task[t], g(t)}
                      \/ task'[t] = h(t) /\ task[t].owner = w
  BY DEF Throw, TickDies, TaskRecord
<1>2. task' = [t \in Task |-> task'[t]]
  BY DEF Throw, TickDies
<1>3. \A t \in Task : f(t) \in TaskRecord /\ f(t).status = task[t].status /\ f(t).owner = None
  BY DEF TaskRecord
<1>4. \A t \in Task : h(t) \in TaskRecord /\ h(t).status = task[t].status /\ h(t).owner = Gone
  BY DEF TaskRecord
<1> HIDE DEF f, h
<1>5. \A t \in Task : g(t) \in TaskRecord /\ g(t).status = task[t].status /\ g(t).owner = None
  BY <1>3 DEF TaskRecord
<1> HIDE DEF g
<1> QED BY <1>1, <1>2, <1>4, <1>5
-----------------------------------------------------------------------------
(* The invariant. *)

Requests == {"new", "reserved", "inserted", "desired", "done", "late", "failed", "dead"}
Typed ==
    /\ AgentTyped /\ row \in Rows /\ task \in [Task -> TaskRecord] /\ online \in BOOLEAN
    /\ req \in [Task -> Requests] /\ tick \in [Worker -> TickRecord]
\* A tick that works has a task, and one that settles it has its verdict.
Working ==
    \A w \in Worker : /\ tick[w].at \in Busy => tick[w].task \in Task
                      /\ tick[w].at \in Ending => tick[w].cur \in Terminal

\* The instance is reserved for an operation whose request or task is under way;
\* only a request that failed after it had inserted its task is not told of.
Held(t) == req[t] = "reserved" \/ (Unfinished(t) /\ req[t] # "failed")
Reserved == \A t \in Task : Held(t) => row.op = t
\* A reservation that may be taken for left over is that of a dead request.
Aged == row.op # None /\ row.old => req[row.op] = "dead"
\* A task that a worker owns is not over: only its owner ends it.
Leased == \A t \in Task : task[t].owner \in Worker => Unfinished(t)
\* A task exists only after its request has inserted it.
Unborn == \A t \in Task : req[t] \in {"new", "reserved"} => task[t].status = "absent"
\* A task whose instance is given back is over, and stays so.
Settled == \A w \in Worker : tick[w].at \in Ending => task[tick[w].task].status \in Terminal

Inv == Typed /\ Working /\ Desires /\ Reserved /\ Aged /\ Leased /\ Unborn /\ Settled

LEMMA StatusKinds == "absent" \notin Live \cup Terminal /\ \A c \in Terminal : c \notin Live
BY DEF Live, Terminal

LEMMA TypedIsTyped == Typed => TypeOK
<1>1. TickRecord = Ticks /\ [Task -> TaskRecord] = Tasks
  BY DEF TickRecord, Ticks, Stations, Busy, Ending, TaskRecord, Tasks
<1> QED BY <1>1 DEF Typed, TypeOK, AgentTyped, Requests

LEMMA InvInit == Init => Inv
<1> SUFFICES ASSUME Init PROVE Inv
  OBVIOUS
<1>1. AgentTyped /\ inst \in Instances /\ inst.known \in BOOLEAN
  BY AgentTypeInit DEF Init, AgentTyped, AgentTypeOK, Instances
<1>2. row \in Rows /\ row.desired = "RUNNING" /\ row.op = None
  <2> DEFINE k == inst.known
             a == IF k THEN "RUNNING" ELSE "PENDING"
  <2>1. row = [exists |-> k, desired |-> "RUNNING", actual |-> a, reg |-> k, op |-> None, old |-> FALSE]
    BY DEF Init
  <2>2. k \in BOOLEAN /\ a \in Actual \cup {"PENDING", "OFFLINE", "CANCELLED"} /\ "RUNNING" \in Desired
    BY <1>1 DEF Actual, Desired
  <2> HIDE DEF k, a
  <2> QED BY <2>1, <2>2 DEF Rows
<1>3. task \in [Task -> TaskRecord] /\ \A t \in Task : task[t].status = "absent" /\ task[t].owner = None
  BY DEF Init, TaskRecord, Statuses
<1>4. req \in [Task -> Requests] /\ \A t \in Task : req[t] = "new"
  BY DEF Init, Requests
<1>5. tick \in [Worker -> TickRecord] /\ \A w \in Worker : tick[w].at = "idle"
  BY NoTickTyped DEF Init
<1>6. online \in BOOLEAN
  BY DEF Init
<1>7. Typed
  BY <1>1, <1>2, <1>3, <1>4, <1>5, <1>6 DEF Typed
<1>8. Working /\ Settled
  BY <1>5 DEF Working, Settled, Busy, Ending
<1>9. Desires /\ Aged
  BY <1>2 DEF Desires, Aged
<1>10. Reserved /\ Leased /\ Unborn
  BY <1>3, <1>4, StatusKinds DEF Reserved, Held, Unfinished, Leased, Unborn
<1> QED BY <1>7, <1>8, <1>9, <1>10 DEF Inv

\* A step of a tick, or of the agent, that changes no task and no request.
TickKeeps(w) ==
    /\ tick' \in [Worker -> TickRecord] /\ \A v \in Worker \ {w} : tick'[v] = tick[v]
    /\ tick'[w].at \in Busy => tick'[w].task \in Task
    /\ tick'[w].at \in Ending => tick'[w].cur \in Terminal /\ task[tick'[w].task].status \in Terminal
RowKeeps ==
    /\ row' \in Rows /\ Desires' /\ \A t \in Task : Held(t) => row'.op = t
    /\ row'.op # None /\ row'.old => row'.op = row.op /\ row.old

LEMMA TickStep ==
    ASSUME Inv, AgentTyped', online' \in BOOLEAN, UNCHANGED <<task, req>>, RowKeeps,
           NEW w \in Worker, TickKeeps(w)
    PROVE  Inv'
<1>1. Typed'
  BY DEF Inv, Typed, RowKeeps, TickKeeps
<1>2. Working' /\ Settled'
  BY DEF Inv, Working, Settled, TickKeeps
<1>3. Desires' /\ Reserved' /\ Aged'
  BY DEF Inv, Reserved, Held, Unfinished, Aged, RowKeeps
<1>4. Leased' /\ Unborn'
  BY DEF Inv, Leased, Unborn, Unfinished
<1> QED BY <1>1, <1>2, <1>3, <1>4 DEF Inv

LEMMA RowStays == ASSUME Inv, UNCHANGED row PROVE RowKeeps
BY DEF Inv, Typed, Desires, Reserved, RowKeeps

LEMMA AgentStays == ASSUME AgentTyped, UNCHANGED <<agentVars, faults>> PROVE AgentTyped'
BY DEF AgentTyped, AgentTypeOK, agentVars
-----------------------------------------------------------------------------
(* The requests. *)

LEMMA RequestNext ==
    ASSUME Inv, NEW t \in Task, Request(t) \/ RequestFails(t) \/ RequestDies(t)
    PROVE  Inv'
<1>0. /\ Typed /\ Working /\ Desires /\ Reserved /\ Aged /\ Leased /\ Unborn /\ Settled
      /\ row \in Rows /\ task \in [Task -> TaskRecord] /\ req \in [Task -> Requests] /\ AgentTyped
  BY DEF Inv, Typed
<1>1. AgentTyped'
  <2>1. UNCHANGED agentVars
    BY DEF Request, Reserve, Insert, Desire, Record, RequestFails, RequestDies
  <2>2. faults' \in 0 .. MaxFaults
    BY <1>0 DEF Request, Reserve, Insert, Desire, Record, RequestFails, RequestDies, Fault, AgentTyped, AgentTypeOK
  <2> QED BY <1>0, <2>1, <2>2 DEF AgentTyped, AgentTypeOK, agentVars
<1>2. UNCHANGED <<online, tick>>
  BY DEF Request, Reserve, Insert, Desire, Record, RequestFails, RequestDies
<1>3. Working'
  BY <1>0, <1>2 DEF Working
<1>4. CASE Reserve(t)
  <2>1. req[t] = "new" /\ UNCHANGED task
    BY <1>4 DEF Reserve
  <2>2. CASE row.op = None
    <3>1. row' = [row EXCEPT !.exists = TRUE, !.op = t, !.old = FALSE] /\ req' = [req EXCEPT ![t] = "reserved"]
      BY <1>4, <2>2 DEF Reserve
    <3>2. /\ row' \in Rows /\ row'.op = t /\ ~row'.old
          /\ row'.desired = row.desired /\ row'.reg = row.reg
      BY <1>0, <3>1, ReserveRow
    <3>3. req' \in [Task -> Requests] /\ \A u \in Task : req'[u] = IF u = t THEN "reserved" ELSE req[u]
      BY <1>0, <3>1 DEF Requests
    <3>4. Typed'
      BY <1>0, <1>1, <1>2, <2>1, <3>2, <3>3 DEF Typed
    <3>5. Desires' /\ Aged'
      BY <1>0, <3>2 DEF Desires, Aged
    <3>6. Reserved'
      BY <1>0, <2>1, <2>2, <3>2, <3>3 DEF Reserved, Held, Unfinished
    <3>7. Unborn' /\ Leased' /\ Settled'
      BY <1>0, <1>2, <2>1, <3>3 DEF Unborn, Leased, Settled, Unfinished
    <3> QED BY <1>3, <3>4, <3>5, <3>6, <3>7 DEF Inv
  <2>3. CASE row.op # None
    <3>1. UNCHANGED row /\ req' = [req EXCEPT ![t] = "failed"]
      BY <1>4, <2>3 DEF Reserve
    <3>2. req' \in [Task -> Requests] /\ \A u \in Task : req'[u] = IF u = t THEN "failed" ELSE req[u]
      BY <1>0, <3>1 DEF Requests
    <3>3. Typed'
      BY <1>0, <1>1, <1>2, <2>1, <3>1, <3>2 DEF Typed
    <3>4. Desires' /\ Aged'
      BY <1>0, <2>1, <3>1, <3>2 DEF Desires, Aged, Rows
    <3>5. Reserved'
      BY <1>0, <2>1, <3>1, <3>2 DEF Reserved, Held, Unfinished
    <3>6. Unborn' /\ Leased' /\ Settled'
      BY <1>0, <1>2, <2>1, <3>2 DEF Unborn, Leased, Settled, Unfinished
    <3> QED BY <1>3, <3>3, <3>4, <3>5, <3>6 DEF Inv
  <2> QED BY <2>2, <2>3
<1>5. CASE Insert(t)
  <2>1. /\ req[t] = "reserved" /\ UNCHANGED row /\ req' = [req EXCEPT ![t] = "inserted"]
        /\ task' = [task EXCEPT ![t].status = "PENDING"]
    BY <1>5 DEF Insert
  <2>2. req' \in [Task -> Requests] /\ \A u \in Task : req'[u] = IF u = t THEN "inserted" ELSE req[u]
    BY <1>0, <2>1 DEF Requests
  <2>3. /\ task' \in [Task -> TaskRecord] /\ \A u \in Task \ {t} : task'[u] = task[u]
        /\ task'[t].status = "PENDING"
    BY <1>0, <2>1, InsertTask
  <2>4. Typed'
    BY <1>0, <1>1, <1>2, <2>1, <2>2, <2>3 DEF Typed
  <2>5. Desires' /\ Aged'
    BY <1>0, <2>1, <2>2 DEF Desires, Aged, Rows
  <2>6. Reserved'
    BY <1>0, <2>1, <2>2, <2>3 DEF Reserved, Held, Unfinished
  <2>7. Unborn'
    BY <1>0, <2>2, <2>3 DEF Unborn
  <2>8. Leased'
    BY <1>0, <2>3 DEF Leased, Unfinished, Live
  <2>9. Settled'
    <3>1. task[t].status \notin Terminal
      BY <1>0, <2>1, StatusKinds DEF Unborn
    <3>2. \A w \in Worker : tick[w].at \in Ending => tick[w].task \in Task
      BY <1>0 DEF Working, Busy, Ending
    <3> QED BY <1>0, <1>2, <2>3, <3>1, <3>2 DEF Settled
  <2> QED BY <1>3, <2>4, <2>5, <2>6, <2>7, <2>8, <2>9 DEF Inv
<1>6. CASE Desire(t)
  <2>1. /\ req[t] = "inserted" /\ UNCHANGED task
        /\ req' = [req EXCEPT ![t] = IF row.op = t /\ Unfinished(t) THEN "desired" ELSE "late"]
        /\ row' = row \/ row' = [row EXCEPT !.desired = DesiredOf(t), !.reg = FALSE]
    BY <1>6 DEF Desire
  <2>2. /\ req' \in [Task -> Requests] /\ req'[t] \in {"desired", "late"}
        /\ \A u \in Task \ {t} : req'[u] = req[u]
    BY <1>0, <2>1 DEF Requests
  <2>3. DesiredOf(t) \in Desired
    BY DEF DesiredOf, Desired
  <2>4. /\ row' \in Rows /\ row'.op = row.op /\ row'.old = row.old
        /\ Desires'
    BY <1>0, <2>1, <2>3, DesireRow DEF Desires
  <2>5. Typed'
    BY <1>0, <1>1, <1>2, <2>1, <2>2, <2>4 DEF Typed
  <2>6. Aged'
    BY <1>0, <2>1, <2>2, <2>4 DEF Aged, Rows
  <2>7. Reserved'
    BY <1>0, <2>1, <2>2, <2>4 DEF Reserved, Held, Unfinished
  <2>8. Unborn' /\ Leased' /\ Settled'
    BY <1>0, <1>2, <2>1, <2>2 DEF Unborn, Leased, Settled, Unfinished
  <2> QED BY <1>3, <2>4, <2>5, <2>6, <2>7, <2>8 DEF Inv
<1>9. CASE Record(t)
  <2>1. req[t] = "desired" /\ UNCHANGED <<row, task>> /\ req' = [req EXCEPT ![t] = "done"]
    BY <1>9 DEF Record
  <2>2. req' \in [Task -> Requests] /\ \A u \in Task : req'[u] = IF u = t THEN "done" ELSE req[u]
    BY <1>0, <2>1 DEF Requests
  <2>3. Typed'
    BY <1>0, <1>1, <1>2, <2>1, <2>2 DEF Typed
  <2>4. Desires' /\ Aged'
    BY <1>0, <2>1, <2>2 DEF Desires, Aged, Rows
  <2>5. Reserved'
    BY <1>0, <2>1, <2>2 DEF Reserved, Held, Unfinished
  <2>6. Unborn' /\ Leased' /\ Settled'
    BY <1>0, <1>2, <2>1, <2>2 DEF Unborn, Leased, Settled, Unfinished
  <2> QED BY <1>3, <2>3, <2>4, <2>5, <2>6 DEF Inv
<1>7. CASE RequestFails(t)
  <2>1. /\ req[t] \in {"reserved", "inserted", "desired", "late"} /\ UNCHANGED task
        /\ req' = [req EXCEPT ![t] = "failed"]
        /\ \/ row' = row /\ row.op # t
           \/ row' = [row EXCEPT !.op = None] /\ row.op = t
    BY <1>7 DEF RequestFails
  <2>2. req' \in [Task -> Requests] /\ \A u \in Task : req'[u] = IF u = t THEN "failed" ELSE req[u]
    BY <1>0, <2>1 DEF Requests
  <2>3. /\ row' \in Rows /\ row'.old = row.old /\ Desires'
        /\ (row'.op = row.op /\ row.op # t) \/ (row'.op = None /\ row.op = t)
    BY <1>0, <2>1, FreeRow DEF Desires
  <2>4. Typed'
    BY <1>0, <1>1, <1>2, <2>1, <2>2, <2>3 DEF Typed
  <2>5. Aged'
    BY <1>0, <2>2, <2>3 DEF Aged, Rows
  <2>6. Reserved'
    BY <1>0, <2>1, <2>2, <2>3 DEF Reserved, Held, Unfinished
  <2>7. Unborn' /\ Leased' /\ Settled'
    BY <1>0, <1>2, <2>1, <2>2 DEF Unborn, Leased, Settled, Unfinished
  <2> QED BY <1>3, <2>3, <2>4, <2>5, <2>6, <2>7 DEF Inv
<1>8. CASE RequestDies(t)
  <2>1. /\ req[t] \in {"reserved", "inserted"} /\ UNCHANGED <<row, task>>
        /\ req' = [req EXCEPT ![t] = "dead"]
    BY <1>8 DEF RequestDies
  <2>2. req' \in [Task -> Requests] /\ \A u \in Task : req'[u] = IF u = t THEN "dead" ELSE req[u]
    BY <1>0, <2>1 DEF Requests
  <2>3. Typed'
    BY <1>0, <1>1, <1>2, <2>1, <2>2 DEF Typed
  <2>4. Desires' /\ Aged'
    BY <1>0, <2>1, <2>2 DEF Desires, Aged, Rows
  <2>5. Reserved'
    BY <1>0, <2>1, <2>2 DEF Reserved, Held, Unfinished
  <2>6. Unborn' /\ Leased' /\ Settled'
    BY <1>0, <1>2, <2>1, <2>2 DEF Unborn, Leased, Settled, Unfinished
  <2> QED BY <1>3, <2>3, <2>4, <2>5, <2>6 DEF Inv
<1> QED BY <1>4, <1>5, <1>6, <1>7, <1>8, <1>9 DEF Request

\* A cancellation, a lease that runs out, a reservation that gets old.
LEMMA TimeNext ==
    ASSUME Inv, Ages \/ \E t \in Task : Cancel(t) \/ Lapse(t)
    PROVE  Inv'
<1>0. /\ Typed /\ Working /\ Desires /\ Reserved /\ Aged /\ Leased /\ Unborn /\ Settled
      /\ row \in Rows /\ task \in [Task -> TaskRecord] /\ AgentTyped
  BY DEF Inv, Typed
<1>1. AgentTyped'
  <2>1. UNCHANGED agentVars
    BY DEF Ages, Cancel, Lapse
  <2>2. faults' \in 0 .. MaxFaults
    BY <1>0 DEF Ages, Cancel, Lapse, Fault, AgentTyped, AgentTypeOK
  <2> QED BY <1>0, <2>1, <2>2 DEF AgentTyped, AgentTypeOK, agentVars
<1>2. UNCHANGED <<online, tick, req>>
  BY DEF Ages, Cancel, Lapse
<1>3. CASE Ages
  <2>1. /\ row.op # None /\ req[row.op] = "dead" /\ UNCHANGED task
        /\ row' = [row EXCEPT !.old = TRUE]
    BY <1>3 DEF Ages
  <2>2. /\ row' \in Rows /\ row'.op = row.op
        /\ row'.desired = row.desired /\ row'.reg = row.reg
    BY <1>0, <2>1, AgeRow
  <2>3. Typed' /\ Working' /\ Desires'
    BY <1>0, <1>1, <1>2, <2>1, <2>2 DEF Typed, Working, Desires
  <2>4. Reserved' /\ Aged'
    BY <1>0, <1>2, <2>1, <2>2 DEF Reserved, Held, Unfinished, Aged
  <2>5. Leased' /\ Unborn' /\ Settled'
    BY <1>0, <1>2, <2>1 DEF Leased, Unfinished, Unborn, Settled
  <2> QED BY <2>3, <2>4, <2>5 DEF Inv
<1>4. ASSUME NEW t \in Task, Cancel(t) \/ Lapse(t) PROVE Inv'
  <2>1. UNCHANGED row
    BY <1>4 DEF Cancel, Lapse
  <2>2. task' = [task EXCEPT ![t].cancel = TRUE] \/ task' = [task EXCEPT ![t].leased = FALSE]
    BY <1>4 DEF Cancel, Lapse
  <2>3. /\ task' \in [Task -> TaskRecord]
        /\ \A u \in Task : task'[u].status = task[u].status /\ task'[u].owner = task[u].owner
    BY <1>0, <2>2, FlagTask
  <2>4. Typed' /\ Working' /\ Desires'
    BY <1>0, <1>1, <1>2, <2>1, <2>3 DEF Typed, Working, Desires
  <2>5. Reserved' /\ Aged'
    BY <1>0, <1>2, <2>1, <2>3 DEF Reserved, Held, Unfinished, Aged
  <2>6. Leased' /\ Unborn'
    BY <1>0, <1>2, <2>3 DEF Leased, Unfinished, Unborn
  <2>7. Settled'
    BY <1>0, <1>2, <2>3 DEF Settled, Working, Busy, Ending
  <2> QED BY <2>4, <2>5, <2>6, <2>7 DEF Inv
<1> QED BY <1>3, <1>4
-----------------------------------------------------------------------------
(* The ticks. *)

\* A step that moves the tick to a place where it works on nothing new.
LEMMA MoveKeeps ==
    ASSUME Inv, NEW w \in Worker, NEW place \in Stations, Move(w, place), place \notin Ending,
           place \in Busy => tick[w].at \in Busy
    PROVE  TickKeeps(w)
<1>1. tick \in [Worker -> TickRecord] /\ (tick[w].at \in Busy => tick[w].task \in Task)
  BY DEF Inv, Typed, Working
<1>2. /\ tick' \in [Worker -> TickRecord] /\ \A v \in Worker \ {w} : tick'[v] = tick[v]
      /\ tick'[w].at = place /\ tick'[w].task = tick[w].task
  BY <1>1, MoveEffect
<1> QED BY <1>1, <1>2 DEF TickKeeps

LEMMA Places ==
    /\ {"idle", "state", "sync", "probe", "register", "list", "next", "throw"} \subseteq Stations
    /\ Busy \subseteq Stations
    /\ {"idle", "state", "sync", "probe", "register", "list", "next", "throw"} \cap (Busy \cup Ending) = {}
    /\ {"claimed", "reprobe", "reregister", "write"} \cap Ending = {}
BY DEF Stations, Busy, Ending

LEMMA RecoverNext == ASSUME Inv, NEW w \in Worker, Recover(w) PROVE Inv'
<1>0. /\ row \in Rows /\ AgentTyped /\ Reserved /\ Aged /\ Unborn /\ Desires
      /\ online \in BOOLEAN
  BY DEF Inv, Typed
<1>1. UNCHANGED <<task, req, online, agentVars, faults>> /\ Move(w, "state")
  BY DEF Recover, Tick
<1>2. TickKeeps(w)
  BY <1>1, MoveKeeps, Places
<1>3. CASE UNCHANGED row
  BY <1>0, <1>1, <1>2, <1>3, RowStays, AgentStays, TickStep
<1>4. CASE row.op # None /\ row' = [row EXCEPT !.op = None]
           /\ (task[row.op].status \in Terminal \/ (task[row.op].status = "absent" /\ row.old))
  <2>1. /\ row' \in Rows /\ row'.op = None
        /\ row'.desired = row.desired /\ row'.reg = row.reg
    BY <1>0, <1>4, FreeRow
  <2>2. \A t \in Task : ~Held(t)
    <3> SUFFICES ASSUME NEW t \in Task, Held(t) PROVE FALSE
      OBVIOUS
    <3>1. row.op = t
      BY <1>0 DEF Reserved
    <3>2. ~Unfinished(t)
      BY <1>4, <3>1, StatusKinds DEF Unfinished
    <3>3. req[t] = "reserved" /\ task[t].status = "absent"
      BY <1>0, <3>2 DEF Held, Unborn
    <3> QED BY <1>0, <1>4, <3>1, <3>3, StatusKinds DEF Aged
  <2>3. RowKeeps
    BY <1>0, <2>1, <2>2 DEF RowKeeps, Desires
  <2> QED BY <1>0, <1>1, <1>2, <2>3, AgentStays, TickStep
<1> QED BY <1>3, <1>4 DEF Recover

LEMMA SyncNext == ASSUME Inv, NEW w \in Worker, Sync(w) PROVE Inv'
<1>0. /\ row \in Rows /\ AgentTyped /\ Reserved /\ Desires /\ online \in BOOLEAN
      /\ tick[w].inst \in Instances
  BY DEF Inv, Typed, TickRecord
<1>1. UNCHANGED <<task, req, online, agentVars, faults>>
  BY DEF Sync, Tick
<1>2. \E place \in {"probe", "list"} : Move(w, place)
  BY DEF Sync
<1>3. TickKeeps(w)
  BY <1>2, MoveKeeps, Places
<1>4. CASE UNCHANGED row
  BY <1>0, <1>1, <1>3, <1>4, RowStays, AgentStays, TickStep
<1>5. CASE ~UNCHANGED row
  <2> DEFINE a == tick[w].inst.actual
             r == row.reg /\ a = "RUNNING" /\ row.desired = "RUNNING"
  <2>1. a \in Actual /\ r \in BOOLEAN /\ (r => row.reg)
    BY <1>0 DEF Instances
  <2>2. row' = [row EXCEPT !.actual = a, !.old = FALSE, !.reg = r]
    BY <1>0, <1>5 DEF Sync, Rows
  <2> HIDE DEF a, r
  <2>3. /\ row' \in Rows /\ row'.op = row.op /\ ~row'.old
        /\ row'.desired = row.desired /\ (row'.reg => row.reg)
    BY <1>0, <2>1, <2>2, SyncRow
  <2>4. RowKeeps
    BY <1>0, <2>3 DEF RowKeeps, Desires, Reserved
  <2> QED BY <1>0, <1>1, <1>3, <2>4, AgentStays, TickStep
<1> QED BY <1>4, <1>5

LEMMA ProbeNext == ASSUME Inv, NEW w \in Worker, Probe(w) \/ Register(w) PROVE Inv'
<1>0. row \in Rows /\ AgentTyped /\ Reserved /\ Desires /\ online \in BOOLEAN
  BY DEF Inv, Typed
<1>1. UNCHANGED <<task, req, online, agentVars, faults>>
  BY DEF Probe, Register, Tick
<1>2. \/ \E place \in {"register", "list", "throw"} : Move(w, place)
      \/ \E place \in {"reregister", "write"} : Move(w, place) /\ tick[w].at \in {"reprobe", "reregister"}
  BY DEF Probe, Register, In
<1>3. TickKeeps(w)
  <2>1. {"reprobe", "reregister", "write"} \subseteq Busy
    BY DEF Busy, Ending
  <2> QED BY <1>2, <2>1, MoveKeeps, Places
<1>4. RowKeeps
  <2>1. CASE UNCHANGED row
    BY <2>1, RowStays
  <2>2. CASE row' = [row EXCEPT !.actual = "UNHEALTHY", !.reg = FALSE]
    <3>1. row' \in Rows /\ row'.op = row.op /\ row'.old = row.old /\ ~row'.reg
      BY <1>0, <2>2, MarkRow
    <3> QED BY <1>0, <3>1 DEF RowKeeps, Desires, Reserved, Rows
  <2>3. CASE Register(w)
    <3> DEFINE r == row.reg \/ (row.actual = "RUNNING" /\ row.desired = "RUNNING")
    <3>1. r \in BOOLEAN /\ (r => row.desired = "RUNNING")
      BY <1>0 DEF Desires
    <3>2. row' = [row EXCEPT !.reg = r]
      BY <1>0, <2>3 DEF Register, Rows
    <3> HIDE DEF r
    <3>3. /\ row' \in Rows /\ row'.op = row.op /\ row'.old = row.old
          /\ row'.desired = row.desired /\ (row'.reg => r)
      BY <1>0, <3>1, <3>2, RegisterRow
    <3> QED BY <1>0, <3>1, <3>3 DEF RowKeeps, Desires, Reserved, Rows
  <2> QED BY <2>1, <2>2, <2>3 DEF Probe
<1> QED BY <1>0, <1>1, <1>3, <1>4, AgentStays, TickStep

\* The steps that change nothing but the tick, or the agent as well.
LEMMA PollNext ==
    ASSUME Inv, NEW w \in Worker,
           FetchState(w) \/ List(w) \/ EndTick(w) \/ Send(w) \/ Forward(w) \/ Judge(w) \/ TickFails(w)
    PROVE  Inv'
<1>0. /\ AgentTyped /\ tick \in [Worker -> TickRecord] /\ Working
      /\ online \in BOOLEAN
  BY DEF Inv, Typed
<1>1. UNCHANGED <<row, task, req>> /\ online' \in BOOLEAN
  BY <1>0 DEF FetchState, List, EndTick, Send, Forward, Judge, TickFails, Tick
<1>2. AgentTyped'
  <2>1. CASE UNCHANGED <<agentVars, faults>>
    BY <1>0, <2>1, AgentStays
  <2>2. CASE TickFails(w)
    <3>1. UNCHANGED agentVars /\ faults' \in 0 .. MaxFaults
      BY <1>0, <2>2 DEF TickFails, Fault, AgentTyped, AgentTypeOK
    <3> QED BY <1>0, <3>1 DEF AgentTyped, AgentTypeOK, agentVars
  <2>3. CASE Send(w) \/ Forward(w)
    <3>1. tick[w].task \in Task
      BY <1>0, <2>3 DEF Send, Forward, In, Working, Busy, Ending
    <3>2. UNCHANGED faults /\ (UNCHANGED agentVars \/ Submit(tick[w].task) \/ CancelJob(tick[w].task))
      BY <2>3 DEF Send, Forward
    <3> QED BY <1>0, <3>1, <3>2, AgentTypeRequest, AgentStays
  <2> QED BY <2>1, <2>2, <2>3 DEF FetchState, List, EndTick, Judge, Tick
<1>3. TickKeeps(w)
  <2>1. CASE FetchState(w)
    BY <1>0, <2>1, FetchEffect, Places DEF TickKeeps, Busy, Ending
  <2>2. CASE List(w)
    BY <1>0, <2>2, ListEffect DEF TickKeeps, Busy, Ending
  <2>3. CASE EndTick(w)
    <3>1. tick' = [tick EXCEPT ![w] = NoTick]
      BY <2>3 DEF EndTick
    <3> QED BY <1>0, <3>1, NoTickTyped DEF TickKeeps, Busy, Ending
  <2>4. CASE Send(w) \/ Forward(w)
    <3> DEFINE t == tick[w].task
               c == jobs'[t].status
    <3>1. /\ tick[w].at = "claimed" /\ t \in Task /\ "claimed" \in Busy
      BY <1>0, <2>4 DEF Send, Forward, In, Working, Busy, Ending
    <3>2. c \in Statuses
      BY <1>2, <3>1 DEF AgentTyped, AgentTypeOK, Jobs, Statuses
    <3>3. \/ Move(w, "throw")
          \/ tick' = [tick EXCEPT ![w].cur = c]
          \/ tick' = [tick EXCEPT ![w].cur = c, ![w].at = "write"]
      BY <2>4 DEF Send, Forward
    <3> HIDE DEF t, c
    <3>4. CASE Move(w, "throw")
      BY <3>4, MoveKeeps, Places
    <3>5. CASE tick' = [tick EXCEPT ![w].cur = c]
      <4>1. /\ tick' \in [Worker -> TickRecord] /\ \A v \in Worker \ {w} : tick'[v] = tick[v]
            /\ tick'[w].at = "claimed" /\ tick'[w].task = tick[w].task
        BY <1>0, <3>1, <3>2, <3>5, AnswerEffect, Places
      <4> QED BY <3>1, <4>1, Places DEF TickKeeps, t
    <3>6. CASE tick' = [tick EXCEPT ![w].cur = c, ![w].at = "write"]
      <4>0. "write" \in Stations
        BY DEF Stations, Busy, Ending
      <4>1. /\ tick' \in [Worker -> TickRecord] /\ \A v \in Worker \ {w} : tick'[v] = tick[v]
            /\ tick'[w].at = "write" /\ tick'[w].task = tick[w].task
        BY <1>0, <3>2, <3>6, <4>0, AnswerEffect
      <4> QED BY <3>1, <4>1, Places DEF TickKeeps, t
    <3> QED BY <3>3, <3>4, <3>5, <3>6
  <2>5. CASE Judge(w)
    <3>1. \E place \in {"reprobe", "next", "write"} : Move(w, place)
      BY <2>5 DEF Judge
    <3>2. tick[w].at \in Busy /\ {"reprobe", "next", "write"} \subseteq Stations
      BY <2>5 DEF Judge, In, Busy, Ending, Stations
    <3> QED BY <3>1, <3>2, MoveKeeps, Places
  <2>6. CASE TickFails(w)
    BY <1>0, <2>6, FailTick DEF TickKeeps, Busy, Ending
  <2> QED BY <2>1, <2>2, <2>3, <2>4, <2>5, <2>6
<1> QED BY <1>1, <1>2, <1>3, RowStays, TickStep

LEMMA ClaimNext == ASSUME Inv, NEW w \in Worker, NEW t \in Task, Claim(w, t) PROVE Inv'
<1>0. /\ Typed /\ Working /\ Desires /\ Reserved /\ Aged /\ Leased /\ Unborn /\ Settled
      /\ AgentTyped /\ tick \in [Worker -> TickRecord] /\ task \in [Task -> TaskRecord]
  BY DEF Inv, Typed
<1>1. UNCHANGED <<row, online, req, agentVars, faults>>
  BY DEF Claim
<1>2. /\ tick' \in [Worker -> TickRecord] /\ \A v \in Worker \ {w} : tick'[v] = tick[v]
      /\ \/ tick'[w].at = "claimed" /\ tick'[w].task = t
         \/ tick'[w].at = "next" /\ tick'[w].task = None
  BY <1>0, ClaimTick
<1>3. AgentTyped'
  BY <1>0, <1>1, AgentStays
<1>4. CASE UNCHANGED task
  <2>1. TickKeeps(w)
    BY <1>2 DEF TickKeeps, Busy, Ending
  <2> QED BY <1>0, <1>1, <1>3, <1>4, <2>1, RowStays, TickStep DEF Typed
<1>5. CASE ~UNCHANGED task
  <2>1. Unfinished(t) /\ task' = [task EXCEPT ![t] = [@ EXCEPT !.owner = w, !.leased = TRUE, !.status = "RUNNING"]]
    BY <1>5 DEF Claim
  <2>2. "RUNNING" \in Live /\ "RUNNING" \in Statuses
    BY DEF Live, Statuses
  <2>3. /\ task' \in [Task -> TaskRecord] /\ \A u \in Task \ {t} : task'[u] = task[u]
        /\ task'[t].status = "RUNNING" /\ task'[t].owner = w
    BY <1>0, <2>1, <2>2, OwnTask
  <2>4. Typed' /\ Working' /\ Desires'
    BY <1>0, <1>1, <1>2, <1>3, <2>3 DEF Typed, Working, Busy, Ending, Desires
  <2>5. Reserved' /\ Aged'
    BY <1>0, <1>1, <2>1, <2>3 DEF Reserved, Held, Unfinished, Aged
  <2>6. Leased'
    BY <1>0, <2>2, <2>3 DEF Leased, Unfinished
  <2>7. Unborn'
    BY <1>0, <1>1, <2>1, <2>3, StatusKinds DEF Unborn, Unfinished
  <2>8. Settled'
    BY <1>0, <1>2, <2>1, <2>3, StatusKinds DEF Settled, Unfinished, Working, Busy, Ending
  <2> QED BY <2>4, <2>5, <2>6, <2>7, <2>8 DEF Inv
<1> QED BY <1>4, <1>5

LEMMA WriteNext == ASSUME Inv, NEW w \in Worker, Write(w) PROVE Inv'
<1>0. /\ Typed /\ Working /\ Desires /\ Reserved /\ Aged /\ Leased /\ Unborn /\ Settled
      /\ AgentTyped /\ tick \in [Worker -> TickRecord] /\ task \in [Task -> TaskRecord]
      /\ online \in BOOLEAN
  BY DEF Inv, Typed
<1>1. UNCHANGED <<row, online, req, agentVars, faults>> /\ tick[w].at = "write"
  BY DEF Write, In
<1>2. AgentTyped'
  BY <1>0, <1>1, AgentStays
<1>3. CASE UNCHANGED task /\ Move(w, "throw")
  BY <1>0, <1>1, <1>2, <1>3, MoveKeeps, Places, RowStays, TickStep
<1>4. CASE ~(UNCHANGED task /\ Move(w, "throw"))
  <2> DEFINE t == tick[w].task
             c == tick[w].cur
             place == IF c \in Terminal THEN "settle" ELSE "next"
  <2>1. /\ task[t].owner = w /\ Move(w, place)
        /\ task' = [task EXCEPT ![t] = [@ EXCEPT !.status = c, !.owner = None, !.leased = FALSE]]
    BY <1>4 DEF Write
  <2>2. t \in Task /\ c \in Statuses /\ place \in {"settle", "next"} /\ (place = "settle" => c \in Terminal)
    BY <1>0, <1>1 DEF Working, Busy, Ending, TickRecord
  <2>3. place \in Stations
    BY <2>2, Places DEF Busy, Ending
  <2> HIDE DEF c, t, place
  <2>4. /\ task' \in [Task -> TaskRecord] /\ \A u \in Task \ {t} : task'[u] = task[u]
        /\ task'[t].status = c /\ task'[t].owner = None
    BY <1>0, <2>1, <2>2, OwnTask
  <2>5. /\ tick' \in [Worker -> TickRecord] /\ \A v \in Worker \ {w} : tick'[v] = tick[v]
        /\ tick'[w].at = place /\ tick'[w].task = t /\ tick'[w].cur = c
    BY <1>0, <2>1, <2>3, MoveEffect DEF t, c
  <2>6. Unfinished(t)
    BY <1>0, <2>1, <2>2 DEF Leased
  <2>7. Typed' /\ Working' /\ Desires'
    BY <1>0, <1>1, <1>2, <2>2, <2>4, <2>5 DEF Typed, Working, Busy, Ending, Desires
  <2>8. Reserved' /\ Aged'
    BY <1>0, <1>1, <2>4, <2>6 DEF Reserved, Held, Unfinished, Aged
  <2>9. Leased'
    BY <1>0, <2>4 DEF Leased, Unfinished
  <2>10. Unborn'
    BY <1>0, <1>1, <2>4, <2>6, StatusKinds DEF Unborn, Unfinished
  <2>11. Settled'
    BY <1>0, <2>2, <2>4, <2>5, <2>6, StatusKinds DEF Settled, Unfinished, Working, Busy, Ending
  <2> QED BY <2>7, <2>8, <2>9, <2>10, <2>11 DEF Inv
<1> QED BY <1>3, <1>4

LEMMA SettleNext == ASSUME Inv, NEW w \in Worker, Settle(w) PROVE Inv'
<1>0. /\ row \in Rows /\ AgentTyped /\ Reserved /\ Desires /\ Working /\ Settled
      /\ online \in BOOLEAN /\ tick \in [Worker -> TickRecord] /\ tick[w].inst \in Instances
  BY DEF Inv, Typed, TickRecord
<1>1. /\ UNCHANGED <<task, req, online, agentVars, faults>> /\ Move(w, "release")
      /\ tick[w].at = "settle"
  BY DEF Settle, Tick, In
<1>2. /\ "release" \in Stations /\ tick[w].task \in Task /\ tick[w].cur \in Terminal
      /\ task[tick[w].task].status \in Terminal
  BY <1>0, <1>1 DEF Working, Settled, Stations, Busy, Ending
<1>3. TickKeeps(w)
  BY <1>0, <1>1, <1>2, MoveEffect DEF TickKeeps
<1>4. CASE row.op # tick[w].task
  BY <1>0, <1>1, <1>3, <1>4, RowStays, AgentStays, TickStep DEF Settle
<1>5. CASE row.op = tick[w].task
  <2> DEFINE v == Verdict(tick[w].inst, tick[w].cur)
  <2>1. /\ v \in Rows /\ v.op = row.op /\ v.old = row.old
        /\ v.reg => v.desired = "RUNNING"
    BY <1>0, <1>2, VerdictRow
  <2>2. row' = v
    BY <1>5 DEF Settle
  <2> HIDE DEF v
  <2>3. RowKeeps
    BY <1>0, <2>1, <2>2 DEF RowKeeps, Desires, Reserved, Rows
  <2> QED BY <1>0, <1>1, <1>3, <2>3, AgentStays, TickStep
<1> QED BY <1>4, <1>5

LEMMA ReleaseNext == ASSUME Inv, NEW w \in Worker, Release(w) PROVE Inv'
<1>0. /\ row \in Rows /\ AgentTyped /\ Reserved /\ Unborn /\ Desires /\ Settled
      /\ online \in BOOLEAN
  BY DEF Inv, Typed
<1>1. /\ UNCHANGED <<task, req, online, agentVars, faults>> /\ Move(w, "next")
      /\ tick[w].at = "release"
  BY DEF Release, Tick, In
<1>2. TickKeeps(w)
  BY <1>1, MoveKeeps, Places DEF Busy, Ending
<1>3. CASE row.op # tick[w].task
  BY <1>0, <1>1, <1>2, <1>3, RowStays, AgentStays, TickStep DEF Release
<1>4. CASE row.op = tick[w].task
  <2>1. row' = [row EXCEPT !.op = None]
    BY <1>4 DEF Release
  <2>2. /\ row' \in Rows /\ row'.op = None
        /\ row'.desired = row.desired /\ row'.reg = row.reg
    BY <1>0, <2>1, FreeRow
  <2>3. \A t \in Task : ~Held(t)
    <3> SUFFICES ASSUME NEW t \in Task, Held(t) PROVE FALSE
      OBVIOUS
    <3>1. tick[w].task = t
      BY <1>0, <1>4 DEF Reserved
    <3>2. task[t].status \in Terminal
      BY <1>0, <1>1, <3>1 DEF Settled, Ending
    <3> QED BY <1>0, <3>2, StatusKinds DEF Held, Unfinished, Unborn
  <2>4. RowKeeps
    BY <1>0, <2>2, <2>3 DEF RowKeeps, Desires
  <2> QED BY <1>0, <1>1, <1>2, <2>4, AgentStays, TickStep
<1> QED BY <1>3, <1>4

LEMMA LeaveNext == ASSUME Inv, NEW w \in Worker, Throw(w) \/ TickDies(w) PROVE Inv'
<1>0. /\ Typed /\ Working /\ Desires /\ Reserved /\ Aged /\ Leased /\ Unborn /\ Settled
      /\ AgentTyped /\ tick \in [Worker -> TickRecord] /\ task \in [Task -> TaskRecord]
      /\ row \in Rows /\ online \in BOOLEAN
  BY DEF Inv, Typed
<1>1. /\ task' \in [Task -> TaskRecord]
      /\ \A t \in Task : task'[t].status = task[t].status
                         /\ (task'[t].owner \in Worker => task[t].owner \in Worker)
  BY <1>0, LeaveTasks
<1>2. UNCHANGED req /\ online' \in BOOLEAN /\ tick' = [tick EXCEPT ![w] = NoTick]
  BY <1>0 DEF Throw, TickDies
<1>3. /\ tick' \in [Worker -> TickRecord] /\ \A v \in Worker \ {w} : tick'[v] = tick[v]
      /\ tick'[w].at = "idle"
  BY <1>0, <1>2, NoTickTyped
<1>4. AgentTyped'
  <2>1. UNCHANGED agentVars /\ faults' \in 0 .. MaxFaults
    <3>1. CASE Throw(w)
      BY <1>0, <3>1 DEF Throw, AgentTyped, AgentTypeOK
    <3>2. CASE TickDies(w)
      BY <1>0, <3>2 DEF TickDies, Fault, AgentTyped, AgentTypeOK
    <3> QED BY <3>1, <3>2
  <2> QED BY <1>0, <2>1 DEF AgentTyped, AgentTypeOK, agentVars
<1>5. row' \in Rows /\ row'.op = row.op /\ row'.old = row.old /\ Desires'
  <2>1. row' = row \/ row' = [row EXCEPT !.actual = "OFFLINE", !.reg = FALSE]
    BY DEF Throw, TickDies
  <2> QED BY <1>0, <2>1, MarkRow DEF Desires
<1>6. Typed' /\ Working'
  BY <1>0, <1>1, <1>2, <1>3, <1>4, <1>5 DEF Typed, Working, Busy, Ending
<1>7. Reserved' /\ Aged'
  BY <1>0, <1>1, <1>2, <1>5 DEF Reserved, Held, Unfinished, Aged, Rows
<1>8. Leased' /\ Unborn'
  BY <1>0, <1>1, <1>2 DEF Leased, Unfinished, Unborn
<1>9. Settled'
  BY <1>0, <1>1, <1>3 DEF Settled, Working, Busy, Ending
<1> QED BY <1>5, <1>6, <1>7, <1>8, <1>9 DEF Inv

LEMMA InvNext == Inv /\ [Next]_vars => Inv'
<1> SUFFICES ASSUME Inv, [Next]_vars PROVE Inv'
  OBVIOUS
<1>1. CASE UNCHANGED vars
  <2>1. UNCHANGED <<agentVars, faults, row, task, online, req, tick>>
    BY <1>1 DEF vars, dbVars
  <2> QED BY <2>1 DEF Inv, Typed, AgentTyped, AgentTypeOK, agentVars, Working, Desires, Reserved,
              Held, Aged, Leased, Unborn, Settled, Unfinished
<1>2. CASE Agent
  <2>1. UNCHANGED <<row, task, online, req, tick>> /\ AgentNext
    BY <1>2 DEF Agent, dbVars
  <2>2. AgentTyped'
    BY <2>1, AgentTypeNext DEF Inv, Typed
  <2> QED BY <2>1, <2>2 DEF Inv, Typed, Working, Desires, Reserved, Held, Aged, Leased, Unborn,
              Settled, Unfinished
<1>3. CASE Ages \/ \E t \in Task : Cancel(t) \/ Lapse(t)
  BY <1>3, TimeNext
<1>4. ASSUME NEW t \in Task, Request(t) \/ RequestFails(t) \/ RequestDies(t) PROVE Inv'
  BY <1>4, RequestNext
<1>5. ASSUME NEW w \in Worker, Poll(w) PROVE Inv'
  BY <1>5, RecoverNext, SyncNext, ProbeNext, PollNext, ClaimNext, WriteNext, SettleNext, ReleaseNext, LeaveNext DEF Poll
<1>6. ASSUME NEW w \in Worker, TickFails(w) \/ TickDies(w) PROVE Inv'
  BY <1>6, PollNext, LeaveNext
<1> QED BY <1>1, <1>2, <1>3, <1>4, <1>5, <1>6 DEF Next
-----------------------------------------------------------------------------
\* The rows, the ticks and the state of the agent keep their types.
THEOREM TypeCorrect == Spec => []TypeOK
<1>1. Inv => TypeOK
  BY TypedIsTyped DEF Inv
<1> QED
  BY <1>1, InvInit, InvNext, PTL DEF Spec

\* A provider is registered only while its instance is to run: whatever probe,
\* verdict or failure comes in between, no stop and no removal leaves it behind.
THEOREM RegisteredIsDesiredCorrect == Spec => []RegisteredIsDesired
<1>1. Inv => RegisteredIsDesired
  BY DEF Inv, Desires, RegisteredIsDesired
<1> QED
  BY <1>1, InvInit, InvNext, PTL DEF Spec

\* Of two unfinished tasks of the instance, the request of one failed after it had
\* inserted its task: the reservation lets no two operations run otherwise.
THEOREM OneOperationCorrect == Spec => []OneOperation
<1>1. Inv => OneOperation
  BY DEF Inv, Reserved, Held, OneOperation
<1> QED
  BY <1>1, InvInit, InvNext, PTL DEF Spec
=============================================================================
