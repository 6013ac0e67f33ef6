--------------------------- MODULE WorkflowRunProofs ---------------------------
(***************************************************************************)
(* Proofs about WorkflowRun for every set of owners and nodes, every       *)
(* definition graph and every bound on the mishaps: types, starts of       *)
(* impure nodes, ledger and checkpoint, cancellation, the holder of the    *)
(* lease, the refinement of DurableRun, and the consumption of results.    *)
(***************************************************************************)
EXTENDS WorkflowRun, TLAPS

-----------------------------------------------------------------------------
(* Type correctness.                                                       *)

\* The initial state is well typed.
LEMMA TypeInit == Init => TypeOK
<1> SUFFICES ASSUME Init PROVE TypeOK
  OBVIOUS
<1> USE DEF Init
<1>1. /\ status \in Statuses /\ leaseOwner \in Values
      /\ lease \in {"none", "live", "expired"} /\ cancelRequested \in BOOLEAN
  BY DEF Statuses, Values
<1>2. /\ ledger \in [Node -> [status : {"none", "running", "succeeded"}, value : Values]]
      /\ ckpt \in [saved : BOOLEAN, done : SUBSET Node, value : [Node -> Values]]
      /\ writes \in [Node -> Values]
  BY DEF Values, NoValues
<1>3. /\ pc \in [Owner -> Pcs] /\ resume \in [Owner -> BOOLEAN]
      /\ aborted \in [Owner -> BOOLEAN] /\ done \in [Owner -> SUBSET Node]
  BY DEF Pcs
<1>4. /\ value \in [Owner -> [Node -> Values]] /\ task \in [Owner -> [Node -> Tasks]]
  BY DEF Values, NoValues, NoTasks, Tasks
<1>5. /\ mishaps \in 0 .. MaxMishaps /\ starts \in [Impure -> Nat]
      /\ consumed \in [Node -> SUBSET Values]
  BY MishapAssumption
<1> QED BY <1>1, <1>2, <1>3, <1>4, <1>5 DEF TypeOK

\* The row of an owner's executeNode call moves to a known state.
LEMMA TypeSetTask ==
    ASSUME TypeOK, NEW o \in Owner, NEW n \in Node, NEW to \in Tasks, SetTask(o, n, to)
    PROVE  task' \in [Owner -> [Node -> Tasks]]
  BY DEF TypeOK, SetTask

\* A checkpoint that is written, or refused, is well typed.
LEMMA TypePutCheckpoint ==
    ASSUME TypeOK, NEW o \in Owner, NEW nodes \in SUBSET Node, PutCheckpoint(o, nodes)
    PROVE  /\ ckpt' \in [saved : BOOLEAN, done : SUBSET Node, value : [Node -> Values]]
           /\ writes' \in [Node -> Values]
           /\ pc' \in [Owner -> Pcs]
<1>1. CASE Fence(o)
  <2>1. [n \in Node |-> IF n \in nodes THEN value[o][n] ELSE None] \in [Node -> Values]
    BY DEF TypeOK, Values
  <2>2. NoValues \in [Node -> Values]
    BY DEF NoValues, Values
  <2>3. ckpt' = [saved |-> TRUE, done |-> nodes, value |->
                   [n \in Node |-> IF n \in nodes THEN value[o][n] ELSE None]]
    BY <1>1 DEF PutCheckpoint
  <2>4. writes' = NoValues /\ pc' = [pc EXCEPT ![o] = "step"]
    BY <1>1 DEF PutCheckpoint, Goto
  <2>5. pc' \in [Owner -> Pcs]
    BY <2>4 DEF TypeOK, Pcs
  <2> QED BY <2>1, <2>2, <2>3, <2>4, <2>5
<1>2. CASE ~Fence(o)
  BY <1>2 DEF PutCheckpoint, Goto, TypeOK, Pcs, checkpoints
<1> QED BY <1>1, <1>2

\* Leaving executeOwned keeps what it resets well typed.
LEMMA TypeFinally ==
    ASSUME TypeOK, NEW o \in Owner, Finally(o)
    PROVE  /\ pc' \in [Owner -> Pcs]
           /\ resume' \in [Owner -> BOOLEAN]
           /\ aborted' \in [Owner -> BOOLEAN]
           /\ done' \in [Owner -> SUBSET Node]
           /\ value' \in [Owner -> [Node -> Values]]
           /\ task' \in [Owner -> [Node -> Tasks]]
  BY DEF TypeOK, Finally, Pcs, Values, Tasks

\* The steps of one executeOwned call.
LEMMA TypeRunStep ==
    ASSUME TypeOK, NEW o \in Owner, RunStep(o)
    PROVE  TypeOK'
<1> USE DEF TypeOK, Statuses, Pcs, Values
<1>1. CASE Claim(o)
  BY <1>1 DEF Claim, Goto, local, hist, checkpoints
<1>2. CASE Decide(o)
  BY <1>2 DEF Decide, Goto, row, local, hist, checkpoints
<1>3. CASE Load(o)
  BY <1>3 DEF Load, Goto, row, local, hist, checkpoints, Tasks
<1>4. CASE PutInput(o)
  BY <1>4, TypePutCheckpoint DEF PutInput, row, local, hist
<1>5. CASE EndSuperstep(o)
  <2>1. done[o] \cup Ready(o) \in SUBSET Node
    BY DEF Ready
  <2>2. PutCheckpoint(o, done[o] \cup Ready(o))
    BY <1>5 DEF EndSuperstep
  <2>3. /\ ckpt' \in [saved : BOOLEAN, done : SUBSET Node, value : [Node -> Values]]
        /\ writes' \in [Node -> Values] /\ pc' \in [Owner -> Pcs]
    <3> HIDE DEF TypeOK, Values, Pcs
    <3> QED BY <2>1, <2>2, TypePutCheckpoint
  <2>4. done' \in [Owner -> SUBSET Node]
    BY <1>5, <2>1 DEF EndSuperstep
  <2>5. task' \in [Owner -> [Node -> Tasks]]
    BY <1>5 DEF EndSuperstep, NoTasks, Tasks
  <2> QED BY <1>5, <2>3, <2>4, <2>5 DEF EndSuperstep, row, hist
<1>6. CASE GuardPublish(o)
  BY <1>6 DEF GuardPublish, Goto, row, local, hist, checkpoints
<1>7. CASE Publish(o)
  <2> HIDE DEF TypeOK, Statuses, Pcs, Values
  <2>1. Finally(o) BY <1>7 DEF Publish
  <2>2. consumed' \in [Node -> SUBSET Values]
    <3>1. \A n \in Node : value[o][n] \in Values /\ consumed[n] \in SUBSET Values
      BY DEF TypeOK
    <3>2. CASE PublishGuard(o)
      BY <1>7, <3>1, <3>2 DEF Publish
    <3>3. CASE ~PublishGuard(o)
      BY <1>7, <3>3 DEF Publish, TypeOK
    <3> QED BY <3>2, <3>3
  <2>3. status' \in Statuses /\ leaseOwner' \in Values
    BY <1>7 DEF Publish, TypeOK, Statuses, Values
  <2> QED BY <1>7, <2>1, <2>2, <2>3, TypeFinally DEF Publish, TypeOK, checkpoints
<1>8. CASE EngineRejects(o)
  BY <1>8 DEF EngineRejects, Goto, row, local, hist, checkpoints
<1>9. CASE Catch(o)
  <2> HIDE DEF TypeOK, Statuses, Pcs, Values
  <2>1. Finally(o) BY <1>9 DEF Catch
  <2>2. status' \in Statuses /\ leaseOwner' \in Values
    BY <1>9 DEF Catch, FailedStatus, TypeOK, Statuses, Values
  <2> QED BY <1>9, <2>1, <2>2, TypeFinally DEF Catch, TypeOK, checkpoints, hist
<1> QED BY <1>1, <1>2, <1>3, <1>4, <1>5, <1>6, <1>7, <1>8, <1>9 DEF RunStep

\* The steps of one executeNode call.
LEMMA TypeNodeStep ==
    ASSUME TypeOK, NEW o \in Owner, NEW n \in Node, NodeStep(o, n) \/ NodeError(o, n)
    PROVE  TypeOK'
<1> USE DEF row, local, hist, checkpoints
<1>0. /\ {"readLedger", "guard", "insert", "exec", "save", "putWrites", "written",
           "failed", "ambiguous"} \subseteq Tasks
      /\ None \in Values /\ o \in Values
  BY DEF Tasks, Waiting, Values
<1>g. ASSUME NEW next \in Tasks, PassGuard(o, n, next)
      PROVE  task' \in [Owner -> [Node -> Tasks]] /\ aborted' \in [Owner -> BOOLEAN]
  <2>1. aborted' \in [Owner -> BOOLEAN]
    BY <1>g DEF PassGuard, TypeOK
  <2>2. SetTask(o, n, next) \/ SetTask(o, n, "failed")
    BY <1>g DEF PassGuard
  <2> QED BY <1>0, <2>1, <2>2, TypeSetTask
<1>1. CASE BeginNode(o, n)
  <2>1. PassGuard(o, n, "readLedger")
    BY <1>1 DEF BeginNode
  <2>2. consumed' \in [Node -> SUBSET Values]
    BY <1>1 DEF BeginNode, TypeOK
  <2> QED BY <1>0, <1>1, <1>g, <2>1, <2>2 DEF BeginNode, TypeOK
<1>2. CASE GuardNode(o, n)
  <2>1. PassGuard(o, n, "insert") \/ PassGuard(o, n, "save")
    BY <1>2 DEF GuardNode
  <2> QED BY <1>0, <1>2, <1>g, <2>1 DEF GuardNode, TypeOK
<1>3. CASE ReadLedger(o, n)
  <2>0. ledger[n].value \in Values /\ value \in [Owner -> [Node -> Values]]
    BY DEF TypeOK
  <2>1. value' \in [Owner -> [Node -> Values]]
    BY <1>3, <2>0 DEF ReadLedger
  <2>2. SetTask(o, n, "putWrites") \/ SetTask(o, n, "ambiguous") \/ SetTask(o, n, "guard")
    BY <1>3 DEF ReadLedger
  <2>3. task' \in [Owner -> [Node -> Tasks]]
    BY <1>0, <2>2, TypeSetTask
  <2> QED BY <1>3, <2>1, <2>3 DEF ReadLedger, TypeOK
<1>4. CASE StartExecutor(o, n)
  <2>1. task' \in [Owner -> [Node -> Tasks]]
    BY <1>0, <1>4, TypeSetTask DEF StartExecutor
  <2>2. ledger' \in [Node -> [status : {"none", "running", "succeeded"}, value : Values]]
    <3>1. ledger \in [Node -> [status : {"none", "running", "succeeded"}, value : Values]]
      BY DEF TypeOK
    <3>2. [ledger[n] EXCEPT !.status = "running"]
            \in [status : {"none", "running", "succeeded"}, value : Values]
      BY <3>1
    <3>3. ledger' = [ledger EXCEPT ![n] = [ledger[n] EXCEPT !.status = "running"]]
      BY <1>4 DEF StartExecutor
    <3> QED BY <3>1, <3>2, <3>3
  <2>3. starts' \in [Impure -> Nat]
    BY <1>4 DEF StartExecutor, TypeOK
  <2> QED BY <1>4, <2>1, <2>2, <2>3 DEF StartExecutor, TypeOK
<1>5. CASE SaveResult(o, n)
  <2>1. SetTask(o, n, "putWrites") \/ SetTask(o, n, "failed")
    BY <1>5 DEF SaveResult
  <2>2. task' \in [Owner -> [Node -> Tasks]]
    BY <1>0, <2>1, TypeSetTask
  <2>0. /\ ledger \in [Node -> [status : {"none", "running", "succeeded"}, value : Values]]
        /\ value \in [Owner -> [Node -> Values]]
    BY DEF TypeOK
  <2>3. ledger' \in [Node -> [status : {"none", "running", "succeeded"}, value : Values]]
    <3>1. [status |-> "succeeded", value |-> o]
            \in [status : {"none", "running", "succeeded"}, value : Values]
      BY <1>0
    <3>2. \/ ledger' = [ledger EXCEPT ![n] = [status |-> "succeeded", value |-> o]]
          \/ ledger' = ledger
      BY <1>5 DEF SaveResult
    <3> QED BY <2>0, <3>1, <3>2
  <2>4. value' \in [Owner -> [Node -> Values]]
    <3>1. value' = [value EXCEPT ![o] = [value[o] EXCEPT ![n] = o]] \/ value' = value
      BY <1>5 DEF SaveResult
    <3>2. [value[o] EXCEPT ![n] = o] \in [Node -> Values]
      BY <1>0, <2>0
    <3> QED BY <2>0, <3>1, <3>2
  <2> QED BY <1>5, <2>2, <2>3, <2>4 DEF SaveResult, TypeOK
<1>6. CASE PutWrites(o, n)
  <2>1. task' \in [Owner -> [Node -> Tasks]]
    BY <1>0, <1>6, TypeSetTask DEF PutWrites
  <2>2. writes' \in [Node -> Values]
    BY <1>6 DEF PutWrites, TypeOK
  <2> QED BY <1>6, <2>1, <2>2 DEF PutWrites, TypeOK
<1>7. CASE NodeError(o, n)
  <2>1. task' \in [Owner -> [Node -> Tasks]]
    BY <1>0, <1>7, TypeSetTask DEF NodeError
  <2>2. mishaps' \in 0 .. MaxMishaps
    BY <1>7, MishapAssumption DEF NodeError, Mishap, TypeOK
  <2> QED BY <1>7, <2>1, <2>2 DEF NodeError, TypeOK
<1> QED BY <1>1, <1>2, <1>3, <1>4, <1>5, <1>6, <1>7 DEF NodeStep

\* Every step of the runtime.
LEMMA TypeNext == TypeOK /\ [Next]_vars => TypeOK'
<1> SUFFICES ASSUME TypeOK, [Next]_vars PROVE TypeOK'
  OBVIOUS
<1>1. CASE Start
  BY <1>1 DEF Start, Goto, local, hist, checkpoints, TypeOK, Statuses, Pcs
<1>2. CASE Cancel
  BY <1>2 DEF Cancel, local, hist, checkpoints, TypeOK, Statuses
<1>3. CASE LeaseLapses
  BY <1>3, MishapAssumption DEF LeaseLapses, Mishap, local, hist, checkpoints, TypeOK
<1>4. ASSUME NEW o \in Owner, OwnerNext(o) PROVE TypeOK'
  <2>1. CASE Resume(o)
    BY <2>1, MishapAssumption DEF Resume, Mishap, Goto, row, hist, checkpoints, TypeOK, Pcs
  <2>2. CASE Recover(o)
    BY <2>2 DEF Recover, Goto, row, hist, checkpoints, TypeOK, Pcs
  <2>3. CASE RunStep(o)
    BY <2>3, TypeRunStep
  <2>4. CASE Heartbeat(o)
    BY <2>4 DEF Heartbeat, row, local, hist, checkpoints, TypeOK
  <2>5. CASE Abort(o)
    BY <2>5, MishapAssumption DEF Abort, Mishap, row, local, hist, checkpoints, TypeOK
  <2>6. CASE RunError(o)
    <3>1. CASE Finally(o)
      BY <2>6, <3>1, TypeFinally, MishapAssumption DEF RunError, Mishap, row, hist, checkpoints, TypeOK
    <3>2. CASE Goto(o, "catch") /\ UNCHANGED <<aborted, task, local>>
      BY <2>6, <3>2, MishapAssumption DEF RunError, Mishap, Goto, row, local, hist, checkpoints, TypeOK, Pcs
    <3> QED BY <2>6, <3>1, <3>2 DEF RunError
  <2>7. CASE Crash(o)
    BY <2>7, MishapAssumption
    DEF Crash, Mishap, Goto, row, hist, checkpoints, TypeOK, Pcs, NoTasks, NoValues, Tasks, Values
  <2>8. ASSUME NEW n \in Node, NodeStep(o, n) \/ NodeError(o, n) PROVE TypeOK'
    BY <2>8, TypeNodeStep
  <2> QED BY <1>4, <2>1, <2>2, <2>3, <2>4, <2>5, <2>6, <2>7, <2>8 DEF OwnerNext
<1>5. CASE UNCHANGED vars
  BY <1>5 DEF vars, row, local, hist, checkpoints, TypeOK
<1> QED BY <1>1, <1>2, <1>3, <1>4, <1>5 DEF Next

\* Every reachable state of a run is well typed: the statuses the table knows,
\* results that come from some owner, one program counter per executeOwned.
THEOREM TypeCorrect == Spec => []TypeOK
<1>1. Init => TypeOK BY TypeInit
<1>2. TypeOK /\ [Next]_vars => TypeOK' BY TypeNext
<1> QED BY <1>1, <1>2, PTL DEF Spec
-----------------------------------------------------------------------------
(* An impure node is started under the lease at most once.                 *)

\* Before it claims the run an owner has no executeNode call.
IdleTasks == \A o \in Owner : pc[o] \in {"idle", "claim"} => \A n \in Node : task[o][n] = "idle"

\* A start under the lease left a row behind, and the holder of the lease that
\* is about to start a node found no such row.
StartRecorded(n) ==
    /\ starts[n] \in {0, 1}
    /\ starts[n] = 1 => ledger[n].status # "none"
    /\ \A o \in Owner : Holds(o) /\ task[o][n] \in {"guard", "insert"} => starts[n] = 0

StartInv == TypeOK /\ IdleTasks /\ \A n \in Impure : StartRecorded(n)

\* Only the claim gives a lease to an owner, and it leaves the tasks alone.
LEMMA HoldsOnlyByClaim ==
    ASSUME TypeOK, Next, NEW p \in Owner, Holds(p)'
    PROVE  Holds(p) \/ (pc[p] = "claim" /\ task' = task)
<1> USE DEF Holds
<1>1. ASSUME NEW o \in Owner, OwnerNext(o) PROVE Holds(p) \/ (pc[p] = "claim" /\ task' = task)
  <2>1. CASE Claim(o)
    BY <2>1 DEF Claim
  <2>2. CASE UNCHANGED row
    BY <2>2 DEF row
  <2>3. CASE Publish(o) \/ Catch(o)
    BY <2>3, NoneAssumption DEF Publish, Catch
  <2> QED BY <1>1, <2>1, <2>2, <2>3
          DEF OwnerNext, RunStep, NodeStep, Resume, Recover, Decide, Load, PutInput,
              EndSuperstep, GuardPublish, EngineRejects, BeginNode, GuardNode, ReadLedger,
              StartExecutor, SaveResult, PutWrites, Heartbeat, Abort, RunError, Crash, NodeError
<1>2. CASE Start
  BY <1>2 DEF Start
<1>3. CASE Cancel
  BY <1>3 DEF Cancel
<1>4. CASE LeaseLapses
  BY <1>4 DEF LeaseLapses
<1> QED BY <1>1, <1>2, <1>3, <1>4 DEF Next

\* A task reaches the start of its executor only through the ledger.
LEMMA StartOnlyAfterLedger ==
    ASSUME TypeOK, Next, NEW p \in Owner, NEW n \in Node, task'[p][n] \in {"guard", "insert"}
    PROVE  \/ task[p][n] \in {"guard", "insert"}
           \/ task[p][n] = "readLedger" /\ ReadLedger(p, n)
<1> USE DEF TypeOK
<1>1. ASSUME NEW o \in Owner, NEW m \in Node, NodeStep(o, m) \/ NodeError(o, m)
      PROVE  \/ task[p][n] \in {"guard", "insert"}
             \/ task[p][n] = "readLedger" /\ ReadLedger(p, n)
  <2>1. CASE o = p /\ m = n
    BY <1>1, <2>1 DEF NodeStep, BeginNode, GuardNode, PassGuard, StartExecutor, SaveResult,
                      PutWrites, NodeError, SetTask, ReadLedger
  <2>2. CASE ~(o = p /\ m = n)
    <3>1. task'[p][n] = task[p][n]
      BY <1>1, <2>2 DEF NodeStep, BeginNode, GuardNode, PassGuard, StartExecutor, SaveResult,
                        PutWrites, NodeError, SetTask, ReadLedger
    <3> QED BY <3>1
  <2> QED BY <2>1, <2>2
<1>2. ASSUME NEW o \in Owner, Finally(o) PROVE task[p][n] \in {"guard", "insert"}
  BY <1>2 DEF Finally
<1>3. ASSUME NEW o \in Owner, Load(o) \/ EndSuperstep(o) \/ Crash(o)
      PROVE  task[p][n] \in {"guard", "insert"}
  BY <1>3 DEF Load, EndSuperstep, Crash, NoTasks
<1>4. CASE UNCHANGED task
  BY <1>4
<1> QED BY <1>1, <1>2, <1>3, <1>4
        DEF Next, Start, Cancel, LeaseLapses, OwnerNext, RunStep, Resume, Recover, Claim,
            Decide, PutInput, GuardPublish, Publish, EngineRejects, Catch, Heartbeat, Abort,
            RunError
\* Owners that have not claimed the run stay without tasks.
LEMMA IdleTasksNext == TypeOK /\ IdleTasks /\ [Next]_vars => IdleTasks'
<1> SUFFICES ASSUME TypeOK, IdleTasks, [Next]_vars, NEW p \in Owner, NEW n \in Node,
                    pc'[p] \in {"idle", "claim"}
             PROVE  task'[p][n] = "idle"
  BY DEF IdleTasks
<1> USE DEF TypeOK
<1>1. ASSUME NEW o \in Owner, NEW m \in Node, NodeStep(o, m) \/ NodeError(o, m)
      PROVE  task'[p][n] = "idle"
  <2>1. pc' = pc /\ pc[p] \in {"idle", "claim"}
    BY <1>1 DEF NodeStep, BeginNode, GuardNode, ReadLedger, StartExecutor, SaveResult,
                PutWrites, NodeError
  <2>2. \A k \in Node : task[p][k] = "idle"
    BY <2>1 DEF IdleTasks
  <2>3. o # p
    BY <1>1, <2>1, <2>2 DEF NodeStep, BeginNode, GuardNode, ReadLedger, StartExecutor,
                SaveResult, PutWrites, NodeError, Waiting
  <2>4. task'[p] = task[p]
    BY <1>1, <2>3 DEF NodeStep, BeginNode, GuardNode, PassGuard, ReadLedger, StartExecutor,
                SaveResult, PutWrites, NodeError, SetTask
  <2> QED BY <2>2, <2>4
<1>2. ASSUME NEW o \in Owner, Finally(o), pc[o] \notin {"idle", "claim"}
      PROVE  task'[p][n] = "idle"
  BY <1>2 DEF Finally, IdleTasks
<1>3. ASSUME NEW o \in Owner, Load(o) \/ EndSuperstep(o) \/ Crash(o)
      PROVE  task'[p][n] = "idle"
  <2>1. o # p
    BY <1>3 DEF Load, EndSuperstep, Crash, PutCheckpoint, Goto
  <2>2. pc'[p] = pc[p] /\ task'[p] = task[p]
    BY <1>3, <2>1 DEF Load, EndSuperstep, Crash, PutCheckpoint, Goto
  <2> QED BY <2>2 DEF IdleTasks
<1>4. ASSUME NEW o \in Owner, pc[o] \in {"idle", "claim"} \/ pc'[o] \notin {"idle", "claim"},
             UNCHANGED task, \A q \in Owner : q # o => pc'[q] = pc[q]
      PROVE  task'[p][n] = "idle"
  BY <1>4 DEF IdleTasks
<1>5. CASE UNCHANGED <<pc, task>>
  BY <1>5 DEF IdleTasks
<1>6. ASSUME NEW o \in Owner, OwnerNext(o) PROVE task'[p][n] = "idle"
  <2>1. CASE Resume(o) \/ Recover(o) \/ Claim(o)
    BY <1>4, <2>1 DEF Resume, Recover, Claim, Goto
  <2>2. CASE Decide(o) \/ PutInput(o) \/ GuardPublish(o) \/ EngineRejects(o)
    BY <1>4, <2>2 DEF Decide, PutInput, PutCheckpoint, GuardPublish, EngineRejects, Goto
  <2>3. CASE Publish(o) \/ Catch(o)
    BY <1>2, <2>3 DEF Publish, Catch
  <2>4. CASE Heartbeat(o) \/ Abort(o)
    BY <1>5, <2>4 DEF Heartbeat, Abort
  <2>5. CASE RunError(o)
    BY <1>2, <1>4, <2>5 DEF RunError, Active, Goto
  <2> QED BY <1>1, <1>3, <1>6, <2>1, <2>2, <2>3, <2>4, <2>5 DEF OwnerNext, RunStep
<1>7. CASE Start
  BY <1>4, <1>5, <1>7 DEF Start, Goto
<1>8. CASE Cancel \/ LeaseLapses \/ UNCHANGED vars
  BY <1>5, <1>8 DEF Cancel, LeaseLapses, vars
<1> QED BY <1>6, <1>7, <1>8 DEF Next

\* What the steps of executeOwned and the steps around it leave alone.
LEMMA OnlyNodesTouchLedger ==
    ASSUME Next, \A o \in Owner, m \in Node : ~(NodeStep(o, m) \/ NodeError(o, m))
    PROVE  ledger' = ledger /\ starts' = starts
<1>1. ASSUME NEW o \in Owner, RunStep(o) PROVE ledger' = ledger /\ starts' = starts
  BY <1>1 DEF RunStep, Claim, Decide, Load, PutInput, EndSuperstep, GuardPublish, Publish,
              EngineRejects, Catch, hist
<1>2. ASSUME NEW o \in Owner,
             Resume(o) \/ Recover(o) \/ Heartbeat(o) \/ Abort(o) \/ RunError(o) \/ Crash(o)
      PROVE  ledger' = ledger /\ starts' = starts
  BY <1>2 DEF Resume, Recover, Heartbeat, Abort, RunError, Crash, hist
<1>3. CASE Start \/ Cancel \/ LeaseLapses
  BY <1>3 DEF Start, Cancel, LeaseLapses, hist
<1> QED BY <1>1, <1>2, <1>3 DEF Next, OwnerNext

\* A ledger row never disappears.
LEMMA LedgerRowsStay ==
    ASSUME TypeOK, Next, NEW n \in Node, ledger[n].status # "none"
    PROVE  ledger'[n].status # "none"
<1>0. ledger \in [Node -> [status : {"none", "running", "succeeded"}, value : Values]]
  BY DEF TypeOK
<1>1. ASSUME NEW o \in Owner, NEW m \in Node, NodeStep(o, m) \/ NodeError(o, m)
      PROVE  ledger'[n].status # "none"
  <2>1. CASE StartExecutor(o, m)
    <3>1. ledger' = [ledger EXCEPT ![m] = [ledger[m] EXCEPT !.status = "running"]]
      BY <2>1 DEF StartExecutor
    <3>2. [ledger[m] EXCEPT !.status = "running"].status = "running"
      BY <1>0
    <3> QED BY <1>0, <3>1, <3>2
  <2>2. CASE SaveResult(o, m)
    BY <1>0, <2>2 DEF SaveResult
  <2>3. CASE ledger' = ledger
    BY <2>3
  <2> QED BY <1>1, <2>1, <2>2, <2>3
          DEF NodeStep, BeginNode, GuardNode, ReadLedger, PutWrites, NodeError
<1> QED BY <1>1, OnlyNodesTouchLedger

\* Only StartExecutor counts a start.
LEMMA StartsOnlyByExecutor ==
    ASSUME Next
    PROVE  starts' = starts \/ \E o \in Owner, m \in Node : StartExecutor(o, m)
<1>1. ASSUME NEW o \in Owner, NEW m \in Node, NodeStep(o, m) \/ NodeError(o, m)
      PROVE  starts' = starts \/ StartExecutor(o, m)
  BY <1>1 DEF NodeStep, BeginNode, GuardNode, ReadLedger, SaveResult, PutWrites, NodeError, hist
<1> QED BY <1>1, OnlyNodesTouchLedger

\* The record of an impure node's start is kept by every step.
LEMMA StartRecordedNext ==
    ASSUME StartInv, [Next]_vars, NEW n \in Impure
    PROVE  StartRecorded(n)'
<1> n \in Node
  BY NodeAssumption
<1>0. StartRecorded(n) /\ TypeOK /\ IdleTasks
  BY DEF StartInv
<1>1. CASE UNCHANGED vars
  BY <1>0, <1>1 DEF vars, row, hist, StartRecorded, Holds
<1>2. ASSUME Next, starts'[n] = starts[n] PROVE StartRecorded(n)'
  <2>1. starts'[n] = 1 => ledger'[n].status # "none"
    BY <1>0, <1>2, LedgerRowsStay DEF StartRecorded
  <2>2. ASSUME NEW p \in Owner, Holds(p)', task'[p][n] \in {"guard", "insert"}
        PROVE  starts'[n] = 0
    <3>1. CASE task[p][n] \in {"guard", "insert"} /\ Holds(p)
      BY <1>0, <1>2, <3>1 DEF StartRecorded
    <3>2. CASE task[p][n] = "readLedger" /\ ReadLedger(p, n)
      <4>1. ledger[n].status = "none"
        BY <1>0, <2>2, <3>2 DEF ReadLedger, SetTask, TypeOK
      <4> QED BY <1>0, <1>2, <4>1 DEF StartRecorded
    <3>3. CASE pc[p] = "claim" /\ task' = task
      BY <1>0, <2>2, <3>3 DEF IdleTasks
    <3> QED BY <1>0, <1>2, <2>2, <3>1, <3>2, <3>3, HoldsOnlyByClaim, StartOnlyAfterLedger
  <2> QED BY <1>0, <1>2, <2>1, <2>2 DEF StartRecorded
<1>3. ASSUME NEW o \in Owner, NEW m \in Node, StartExecutor(o, m) PROVE StartRecorded(n)'
  <2>1. CASE m = n /\ Holds(o)
    <3>1. starts[n] = 0 /\ starts'[n] = 1 /\ ledger'[n].status # "none"
      BY <1>0, <1>3, <2>1 DEF StartRecorded, StartExecutor, TypeOK
    <3>2. ASSUME NEW p \in Owner, Holds(p)' PROVE task'[p][n] \notin {"guard", "insert"}
      <4>1. p = o
        BY <1>3, <2>1, <3>2 DEF StartExecutor, Holds, row
      <4> QED BY <1>0, <1>3, <2>1, <4>1 DEF StartExecutor, SetTask, TypeOK
    <3> QED BY <3>1, <3>2 DEF StartRecorded
  <2>2. CASE ~(m = n /\ Holds(o))
    <3>1. starts'[n] = starts[n]
      BY <1>0, <1>3, <2>2 DEF StartExecutor, TypeOK
    <3>2. Next
      BY <1>3 DEF Next, OwnerNext, NodeStep
    <3> QED BY <1>2, <3>1, <3>2
  <2> QED BY <2>1, <2>2
<1> QED BY <1>0, <1>1, <1>2, <1>3, StartsOnlyByExecutor

\* However often a run is recovered or resumed, executions that hold its lease
\* start each impure node at most once between them.
THEOREM OwnedStartOnceCorrect == Spec => []OwnedStartOnce
<1>1. Init => StartInv
  BY TypeInit, NodeAssumption DEF Init, StartInv, IdleTasks, StartRecorded, NoTasks
<1>2. StartInv /\ [Next]_vars => StartInv'
  BY TypeNext, IdleTasksNext, StartRecordedNext DEF StartInv
<1>3. StartInv => OwnedStartOnce
  BY DEF StartInv, StartRecorded, OwnedStartOnce
<1> QED BY <1>1, <1>2, <1>3, PTL DEF Spec
-----------------------------------------------------------------------------
(* No ledger row without a checkpoint.                                     *)

\* While no checkpoint is saved no execution is past its input, none is about
\* to resume from one, and nothing was ever run.
NothingRan ==
    /\ \A o \in Owner : pc[o] \notin {"step", "publish"} /\ ~(pc[o] = "load" /\ resume[o])
    /\ \A o \in Owner, n \in Node : task[o][n] = "idle"
    /\ \A n \in Node : writes[n] = None /\ ledger[n].status = "none"
SavedFirst == ckpt.saved \/ NothingRan

\* A checkpoint, once saved, stays saved.
LEMMA SavedStays == ckpt.saved /\ [Next]_vars => ckpt'.saved
<1> SUFFICES ASSUME ckpt.saved, [Next]_vars PROVE ckpt'.saved
  OBVIOUS
<1>1. ASSUME NEW o \in Owner, OwnerNext(o) PROVE ckpt'.saved
  <2>1. CASE PutInput(o) \/ EndSuperstep(o)
    BY <2>1 DEF PutInput, EndSuperstep, PutCheckpoint, checkpoints
  <2>2. CASE ckpt' = ckpt
    BY <2>2
  <2> QED BY <1>1, <2>1, <2>2
          DEF OwnerNext, RunStep, NodeStep, Resume, Recover, Claim, Decide, Load, GuardPublish,
              Publish, EngineRejects, Catch, BeginNode, GuardNode, ReadLedger, StartExecutor,
              SaveResult, PutWrites, NodeError, Heartbeat, Abort, RunError, Crash, checkpoints
<1>2. CASE Start \/ Cancel \/ LeaseLapses \/ UNCHANGED vars
  BY <1>2 DEF Start, Cancel, LeaseLapses, vars, checkpoints
<1> QED BY <1>1, <1>2 DEF Next

\* While nothing ran the only steps are those up to the input checkpoint.
LEMMA NothingRanNext ==
    ASSUME TypeOK, NothingRan, ~ckpt.saved, [Next]_vars
    PROVE  SavedFirst'
<1> USE DEF TypeOK
<1>0. ASSUME NEW o \in Owner, Finally(o), UNCHANGED <<writes, ledger>>
      PROVE  SavedFirst'
  <2>1. task'[o] = task[o] /\ \A p \in Owner : p # o => task'[p] = task[p]
    BY <1>0 DEF Finally, NothingRan
  <2> QED BY <1>0, <2>1 DEF Finally, NothingRan, SavedFirst
<1>1. ASSUME UNCHANGED <<task, writes, ledger>>,
             \A o \in Owner : /\ pc'[o] \notin {"step", "publish"}
                              /\ ~(pc'[o] = "load" /\ resume'[o])
      PROVE  SavedFirst'
  BY <1>1 DEF NothingRan, SavedFirst
<1>2. ASSUME NEW o \in Owner, NEW m \in Node PROVE ~NodeStep(o, m) /\ ~NodeError(o, m)
  BY <1>2 DEF NothingRan, NodeStep, BeginNode, GuardNode, ReadLedger, StartExecutor,
              SaveResult, PutWrites, NodeError, Waiting
<1>3. ASSUME NEW o \in Owner, Resume(o) \/ Recover(o) PROVE SavedFirst'
  BY <1>1, <1>3 DEF NothingRan, Resume, Recover, Goto, checkpoints
<1>4. ASSUME NEW o \in Owner, RunStep(o) PROVE SavedFirst'
  <2>1. CASE Claim(o)
    BY <1>1, <2>1 DEF NothingRan, Claim, Goto, checkpoints
  <2>2. CASE Decide(o)
    BY <1>1, <2>2 DEF NothingRan, Decide, Goto, checkpoints
  <2>3. CASE Load(o)
    <3>1. ~resume[o]
      BY <2>3 DEF NothingRan, Load
    <3>2. pc' = [pc EXCEPT ![o] = "input"] /\ resume' = [resume EXCEPT ![o] = FALSE]
      BY <2>3, <3>1 DEF Load, Goto
    <3>3. task' = [task EXCEPT ![o] = [n \in Node |-> "idle"]] /\ UNCHANGED <<writes, ledger>>
      BY <2>3, <3>1 DEF Load, checkpoints
    <3> QED BY <3>2, <3>3 DEF NothingRan, SavedFirst
  <2>4. CASE PutInput(o)
    <3>1. CASE Fence(o)
      BY <2>4, <3>1 DEF PutInput, PutCheckpoint, SavedFirst
    <3>2. CASE ~Fence(o)
      BY <1>1, <2>4, <3>2 DEF NothingRan, PutInput, PutCheckpoint, Goto, local, checkpoints
    <3> QED BY <3>1, <3>2
  <2>5. CASE EngineRejects(o)
    BY <1>1, <2>5 DEF NothingRan, EngineRejects, Goto, local, checkpoints
  <2>6. CASE Catch(o)
    BY <1>0, <2>6 DEF Catch, checkpoints
  <2>7. ~EndSuperstep(o) /\ ~GuardPublish(o) /\ ~Publish(o)
    BY DEF NothingRan, EndSuperstep, GuardPublish, Publish
  <2> QED BY <1>4, <2>1, <2>2, <2>3, <2>4, <2>5, <2>6, <2>7 DEF RunStep
<1>5. ASSUME NEW o \in Owner, Heartbeat(o) \/ Abort(o) PROVE SavedFirst'
  BY <1>1, <1>5 DEF NothingRan, Heartbeat, Abort, local, checkpoints
<1>6. ASSUME NEW o \in Owner, RunError(o) \/ Crash(o) PROVE SavedFirst'
  <2>1. CASE Crash(o)
    <3>1. UNCHANGED <<writes, ledger>> /\ resume' = [resume EXCEPT ![o] = FALSE]
      BY <2>1 DEF Crash, checkpoints
    <3>2. pc' = [pc EXCEPT ![o] = "ended"] /\ task' = [task EXCEPT ![o] = [n \in Node |-> "idle"]]
      BY <2>1 DEF Crash, Goto, NoTasks
    <3> QED BY <3>1, <3>2 DEF NothingRan, SavedFirst
  <2>2. CASE RunError(o) /\ Finally(o)
    BY <1>0, <2>2 DEF RunError, checkpoints
  <2>3. CASE RunError(o) /\ ~Finally(o)
    <3>1. Goto(o, "catch") /\ UNCHANGED <<task, writes, ledger, resume>>
      BY <2>3 DEF RunError, local, checkpoints
    <3> QED BY <1>1, <3>1 DEF NothingRan, Goto
  <2> QED BY <1>6, <2>1, <2>2, <2>3
<1>7. CASE Start
  BY <1>1, <1>7 DEF NothingRan, Start, Goto, local, checkpoints
<1>8. CASE Cancel \/ LeaseLapses \/ UNCHANGED vars
  BY <1>1, <1>8 DEF NothingRan, Cancel, LeaseLapses, local, checkpoints, vars
<1> QED BY <1>2, <1>3, <1>4, <1>5, <1>6, <1>7, <1>8 DEF Next, OwnerNext

\* The checkpoint of the input is saved before any ledger row is written, so a
\* run can be resumed whenever one of its nodes has begun.
THEOREM LedgerBehindCheckpointCorrect == Spec => []LedgerBehindCheckpoint
<1>1. Init => SavedFirst
  BY DEF Init, SavedFirst, NothingRan, NoTasks, NoValues
<1>2. TypeOK /\ SavedFirst /\ [Next]_vars => SavedFirst'
  BY SavedStays, NothingRanNext DEF SavedFirst
<1>3. SavedFirst => LedgerBehindCheckpoint
  BY DEF SavedFirst, NothingRan, LedgerBehindCheckpoint
<1> QED BY <1>1, <1>2, <1>3, TypeCorrect, PTL DEF Spec
-----------------------------------------------------------------------------
(* Nothing is published after a cancel.                                    *)

\* What a step may do to the published state once the cancel flag is stored.
Silent ==
    /\ UNCHANGED checkpoints
    /\ status' \in {status, "cancelled"}
    /\ \A n \in Node : ledger'[n].status = "succeeded" => ledger'[n] = ledger[n]

\* Only a run that exists is cancelled.
CancelledExists == cancelRequested => status # "none"

LEMMA CancelledExistsNext == CancelledExists /\ [Next]_vars => CancelledExists'
<1> SUFFICES ASSUME CancelledExists, [Next]_vars PROVE CancelledExists'
  OBVIOUS
<1>1. ASSUME NEW o \in Owner, OwnerNext(o) PROVE CancelledExists'
  <2>1. CASE UNCHANGED row
    BY <2>1 DEF row, CancelledExists
  <2>2. CASE Claim(o) \/ Publish(o) \/ Catch(o)
    BY <2>2 DEF Claim, Publish, Catch, FailedStatus, CancelledExists
  <2> QED BY <1>1, <2>1, <2>2
          DEF OwnerNext, RunStep, NodeStep, Resume, Recover, Decide, Load, PutInput,
              EndSuperstep, GuardPublish, EngineRejects, BeginNode, GuardNode, ReadLedger,
              StartExecutor, SaveResult, PutWrites, NodeError, Heartbeat, Abort, RunError, Crash
<1>2. CASE Start \/ Cancel \/ LeaseLapses \/ UNCHANGED vars
  BY <1>2 DEF Start, Cancel, LeaseLapses, vars, row, CancelledExists
<1> QED BY <1>1, <1>2 DEF Next

\* Every statement that publishes something is fenced by the flag.
LEMMA CancelSilences ==
    ASSUME TypeOK, CancelledExists, cancelRequested, [Next]_vars
    PROVE  Silent
<1>1. CASE UNCHANGED <<status, ledger, checkpoints>>
  BY <1>1 DEF Silent
<1>2. ASSUME NEW o \in Owner PROVE ~Fence(o) /\ ~PublishGuard(o)
  BY <1>2 DEF Fence, PublishGuard
<1>3. ASSUME NEW o \in Owner, RunStep(o) PROVE Silent
  <2>1. CASE Claim(o) \/ Publish(o)
    BY <1>1, <1>2, <2>1 DEF Claim, ClaimGuard, Publish
  <2>2. CASE PutInput(o) \/ EndSuperstep(o)
    BY <1>1, <1>2, <2>2 DEF PutInput, EndSuperstep, PutCheckpoint, row
  <2>3. CASE Catch(o)
    BY <2>3 DEF Catch, FailedStatus, Silent
  <2>4. CASE Decide(o) \/ Load(o) \/ GuardPublish(o) \/ EngineRejects(o)
    BY <1>1, <2>4 DEF Decide, Load, GuardPublish, EngineRejects, row
  <2> QED BY <1>3, <2>1, <2>2, <2>3, <2>4 DEF RunStep
<1>4. ASSUME NEW o \in Owner, NEW n \in Node, NodeStep(o, n) \/ NodeError(o, n) PROVE Silent
  <2>1. CASE StartExecutor(o, n)
    <3>1. UNCHANGED <<status, checkpoints>> /\ ledger' = [ledger EXCEPT ![n].status = "running"]
      BY <2>1 DEF StartExecutor, row
    <3>2. ledger'[n].status = "running" /\ \A m \in Node : m # n => ledger'[m] = ledger[m]
      BY <3>1 DEF TypeOK
    <3> QED BY <3>1, <3>2 DEF Silent
  <2>2. CASE SaveResult(o, n) \/ PutWrites(o, n)
    BY <1>1, <1>2, <2>2 DEF SaveResult, PutWrites, row, checkpoints
  <2>3. CASE BeginNode(o, n) \/ GuardNode(o, n) \/ ReadLedger(o, n) \/ NodeError(o, n)
    BY <1>1, <2>3 DEF BeginNode, GuardNode, ReadLedger, NodeError, row
  <2> QED BY <1>4, <2>1, <2>2, <2>3 DEF NodeStep
<1>5. ASSUME NEW o \in Owner,
             Resume(o) \/ Recover(o) \/ Heartbeat(o) \/ Abort(o) \/ RunError(o) \/ Crash(o)
      PROVE  Silent
  BY <1>1, <1>5 DEF Resume, Recover, Heartbeat, Abort, RunError, Crash, row
<1>6. CASE Start \/ Cancel \/ LeaseLapses \/ UNCHANGED vars
  BY <1>1, <1>6 DEF Start, Cancel, LeaseLapses, vars, row, CancelledExists, Silent
<1> QED BY <1>3, <1>4, <1>5, <1>6 DEF Next, OwnerNext

\* From the moment the cancel flag is stored no checkpoint, pending write or node
\* result is published, and the run can only become cancelled.
THEOREM NothingPublishedAfterCancelCorrect == Spec => NothingPublishedAfterCancel
<1>1. Init => CancelledExists
  BY DEF Init, CancelledExists
<1>2. TypeOK /\ CancelledExists /\ [Next]_vars
      => [cancelRequested =>
            /\ UNCHANGED checkpoints
            /\ status' \in {status, "cancelled"}
            /\ \A n \in Node : ledger'[n].status = "succeeded" => ledger'[n] = ledger[n]]_vars
  BY CancelSilences DEF Silent
<1> QED BY <1>1, <1>2, CancelledExistsNext, TypeCorrect, PTL
        DEF Spec, NothingPublishedAfterCancel

-----------------------------------------------------------------------------
(* The holder of the lease, and the refinement of DurableRun.              *)

\* An execution with the lease continues from the newest checkpoint.
Current(o) ==
    Holds(o) /\ pc[o] \in {"input", "step", "publish"} =>
        /\ done[o] = ckpt.done
        /\ \A n \in done[o] : value[o][n] = ckpt.value[n]

\* Its node calls, also those left behind by an execution that ended without
\* giving up the lease, are for nodes the checkpoint does not have.
Ahead(o) == Holds(o) => \A n \in Node : task[o][n] # "idle" => n \notin ckpt.done

CurrentInv ==
    /\ \A o \in Owner : Current(o) /\ Ahead(o)
    /\ \A n \in Node : writes[n] # None => n \notin ckpt.done

\* An owner that a step leaves alone keeps its part when the checkpoint stays.
LEMMA OthersKeep ==
    ASSUME TypeOK, IdleTasks, CurrentInv, Next, NEW p \in Owner,
           ckpt' = ckpt, pc'[p] = pc[p], task'[p] = task[p], done'[p] = done[p],
           value'[p] = value[p]
    PROVE  Current(p)' /\ Ahead(p)'
<1>1. CASE Holds(p)
  BY <1>1 DEF CurrentInv, Current, Ahead
<1>2. CASE pc[p] = "claim"
  BY <1>2 DEF IdleTasks, Current, Ahead
<1>3. CASE ~Holds(p)'
  BY <1>3 DEF Current, Ahead
<1> QED BY <1>1, <1>2, <1>3, HoldsOnlyByClaim

\* A step of o after which o is not between its input and its end, and has no
\* new node calls.
LEMMA OutsideKeeps ==
    ASSUME TypeOK, IdleTasks, CurrentInv, Next, NEW o \in Owner,
           ckpt' = ckpt, pc'[o] \notin {"input", "step", "publish"},
           \A n \in Node : task'[o][n] \in {task[o][n], "idle"}
    PROVE  Current(o)' /\ Ahead(o)'
<1>1. Current(o)'
  BY DEF Current
<1>2. CASE Holds(o)
  BY <1>1, <1>2 DEF CurrentInv, Ahead
<1>3. CASE pc[o] = "claim"
  BY <1>1, <1>3 DEF IdleTasks, Ahead
<1>4. CASE ~Holds(o)'
  BY <1>1, <1>4 DEF Ahead
<1> QED BY <1>2, <1>3, <1>4, HoldsOnlyByClaim

\* Every step of o but the saving of a checkpoint leaves the others alone.
LEMMA OthersAlone ==
    ASSUME TypeOK, NEW o \in Owner, NEW p \in Owner \ {o}, OwnerNext(o)
    PROVE  pc'[p] = pc[p] /\ task'[p] = task[p] /\ done'[p] = done[p] /\ value'[p] = value[p]
<1> USE DEF TypeOK
<1>1. CASE Resume(o) \/ Recover(o) \/ Heartbeat(o) \/ Abort(o) \/ Crash(o)
  BY <1>1 DEF Resume, Recover, Heartbeat, Abort, Crash, Goto, local
<1>2. ASSUME Finally(o)
      PROVE  pc'[p] = pc[p] /\ task'[p] = task[p] /\ done'[p] = done[p] /\ value'[p] = value[p]
  BY <1>2 DEF Finally
<1>3. CASE RunError(o)
  BY <1>2, <1>3 DEF RunError, Goto, local
<1>4. CASE Claim(o) \/ Decide(o) \/ GuardPublish(o) \/ EngineRejects(o)
  BY <1>4 DEF Claim, Decide, GuardPublish, EngineRejects, Goto, local
<1>5. CASE Load(o)
  BY <1>5 DEF Load, Goto
<1>6. CASE PutInput(o) \/ EndSuperstep(o)
  BY <1>6 DEF PutInput, EndSuperstep, PutCheckpoint, Goto, local
<1>7. CASE Publish(o) \/ Catch(o)
  BY <1>2, <1>7 DEF Publish, Catch
<1>8. ASSUME NEW n \in Node, NodeStep(o, n) \/ NodeError(o, n)
      PROVE  pc'[p] = pc[p] /\ task'[p] = task[p] /\ done'[p] = done[p] /\ value'[p] = value[p]
  BY <1>8 DEF NodeStep, BeginNode, GuardNode, PassGuard, ReadLedger, StartExecutor, SaveResult,
              PutWrites, NodeError, SetTask, local
<1> QED BY <1>1, <1>3, <1>4, <1>5, <1>6, <1>7, <1>8 DEF OwnerNext, RunStep

\* What saving a checkpoint does to it.
LEMMA PutEffect ==
    ASSUME TypeOK, NEW o \in Owner, NEW nodes \in SUBSET Node, PutCheckpoint(o, nodes), Fence(o)
    PROVE  /\ ckpt'.done = nodes
           /\ \A n \in nodes : ckpt'.value[n] = value[o][n]
           /\ \A n \in Node \ nodes : ckpt'.value[n] = None
           /\ \A n \in Node : writes'[n] = None
BY DEF PutCheckpoint, NoValues

\* The steps of an execution keep its own part.
LEMMA RunStepKeeps ==
    ASSUME TypeOK, IdleTasks, CurrentInv, Next, NEW o \in Owner, RunStep(o)
    PROVE  Current(o)' /\ Ahead(o)' /\ \A n \in Node : writes'[n] # None => n \notin ckpt'.done
<1> USE DEF TypeOK
<1>1. ASSUME ckpt' = ckpt, writes' = writes, pc'[o] \notin {"input", "step", "publish"},
             \A n \in Node : task'[o][n] \in {task[o][n], "idle"}
      PROVE  Current(o)' /\ Ahead(o)' /\ \A n \in Node : writes'[n] # None => n \notin ckpt'.done
  BY <1>1, OutsideKeeps DEF CurrentInv
<1>2. CASE Claim(o) \/ Decide(o) \/ EngineRejects(o)
  BY <1>1, <1>2 DEF Claim, Decide, EngineRejects, Goto, local, checkpoints
<1>3. CASE Publish(o) \/ Catch(o)
  <2>1. Finally(o) /\ ckpt' = ckpt /\ writes' = writes
    BY <1>3 DEF Publish, Catch, checkpoints
  <2>2. pc'[o] = "ended" /\ \A n \in Node : task'[o][n] \in {task[o][n], "idle"}
    BY <2>1 DEF Finally
  <2> QED BY <1>1, <2>1, <2>2
<1>4. CASE Load(o)
  <2>1. UNCHANGED <<ckpt, writes>> /\ done'[o] = ckpt.done
    BY <1>4 DEF Load, checkpoints
  <2>2. \A n \in ckpt.done : value'[o][n] = ckpt.value[n]
    BY <1>4 DEF Load
  <2>3. \A n \in Node : task'[o][n] # "idle" => writes[n] # None
    BY <1>4 DEF Load
  <2> QED BY <2>1, <2>2, <2>3 DEF Current, Ahead, CurrentInv
<1>5. CASE PutInput(o)
  <2>1. CASE Fence(o)
    <3>1. done[o] = ckpt.done /\ UNCHANGED <<done, value, task, row>>
      BY <1>5, <2>1 DEF PutInput, CurrentInv, Current, Fence, local
    <3>2. /\ ckpt'.done = done[o]
          /\ \A n \in done[o] : ckpt'.value[n] = value[o][n]
          /\ \A n \in Node : writes'[n] = None
      BY <1>5, <2>1, PutEffect DEF PutInput
    <3>3. Holds(o)
      BY <2>1 DEF Fence
    <3> QED BY <3>1, <3>2, <3>3 DEF Current, Ahead, CurrentInv
  <2>2. CASE ~Fence(o)
    BY <1>1, <1>5, <2>2 DEF PutInput, PutCheckpoint, Goto, checkpoints
  <2> QED BY <2>1, <2>2
<1>6. CASE EndSuperstep(o)
  <2>1. done'[o] = done[o] \cup Ready(o) /\ value' = value /\ \A n \in Node : task'[o][n] = "idle"
    BY <1>6 DEF EndSuperstep, NoTasks
  <2>2. CASE Fence(o)
    <3>1. done[o] \cup Ready(o) \in SUBSET Node
      BY DEF Ready
    <3>2. /\ ckpt'.done = done[o] \cup Ready(o)
          /\ \A n \in done[o] \cup Ready(o) : ckpt'.value[n] = value[o][n]
          /\ \A n \in Node : writes'[n] = None
      BY <1>6, <2>2, <3>1, PutEffect DEF EndSuperstep
    <3> QED BY <2>1, <3>2 DEF Current, Ahead
  <2>3. CASE ~Fence(o)
    BY <1>1, <1>6, <2>1, <2>3 DEF EndSuperstep, PutCheckpoint, Goto, checkpoints
  <2> QED BY <2>2, <2>3
<1>7. CASE GuardPublish(o)
  <2>1. UNCHANGED <<ckpt, writes, task, done, value, row>> /\ pc[o] = "step"
    BY <1>7 DEF GuardPublish, local, checkpoints
  <2> QED BY <2>1 DEF CurrentInv, Current, Ahead, Holds, row
<1> QED BY <1>2, <1>3, <1>4, <1>5, <1>6, <1>7 DEF RunStep

\* So do the steps of its node calls.
LEMMA NodeStepKeeps ==
    ASSUME TypeOK, IdleTasks, CurrentInv, Next, NEW o \in Owner, NEW n \in Node,
           NodeStep(o, n) \/ NodeError(o, n)
    PROVE  Current(o)' /\ Ahead(o)' /\ \A m \in Node : writes'[m] # None => m \notin ckpt'.done
<1> USE DEF TypeOK
<1>1. UNCHANGED <<row, ckpt, pc, done>>
  BY DEF NodeStep, BeginNode, GuardNode, ReadLedger, StartExecutor, SaveResult, PutWrites,
         NodeError, local, checkpoints
<1>2. \A m \in Node \ {n} : task'[o][m] = task[o][m] /\ value'[o][m] = value[o][m]
  BY DEF NodeStep, BeginNode, GuardNode, PassGuard, ReadLedger, StartExecutor, SaveResult,
         PutWrites, NodeError, SetTask, local
<1>3. CASE Holds(o)
  <2>1. n \notin ckpt.done
    <3>1. CASE BeginNode(o, n)
      BY <1>3, <3>1 DEF BeginNode, Ready, CurrentInv, Current
    <3>2. CASE task[o][n] # "idle"
      BY <1>3, <3>2 DEF CurrentInv, Ahead
    <3> QED BY <3>1, <3>2
            DEF NodeStep, GuardNode, ReadLedger, StartExecutor, SaveResult, PutWrites, NodeError,
                Waiting
  <2>2. Current(o)' /\ Ahead(o)'
    BY <1>1, <1>2, <1>3, <2>1 DEF CurrentInv, Current, Ahead, Holds, row
  <2>3. \A m \in Node : writes'[m] # None => m = n \/ writes[m] # None
    BY DEF NodeStep, BeginNode, GuardNode, ReadLedger, StartExecutor, SaveResult, PutWrites,
           NodeError, checkpoints
  <2> QED BY <1>1, <2>1, <2>2, <2>3 DEF CurrentInv
<1>4. CASE ~Holds(o)
  <2>1. ~Holds(o)'
    BY <1>1, <1>4 DEF Holds, row
  <2>2. writes' = writes
    BY <1>4 DEF NodeStep, BeginNode, GuardNode, ReadLedger, StartExecutor, SaveResult, PutWrites,
           NodeError, checkpoints, Fence
  <2> QED BY <1>1, <2>1, <2>2 DEF CurrentInv, Current, Ahead
<1> QED BY <1>3, <1>4

\* A step that saves a checkpoint is one of the holder, so nobody else holds.
LEMMA OnlyHolderSaves ==
    ASSUME TypeOK, Next
    PROVE  \/ ckpt' = ckpt
           \/ \E o \in Owner : /\ PutInput(o) \/ EndSuperstep(o)
                               /\ Fence(o) /\ UNCHANGED row
<1>1. ASSUME NEW o \in Owner, OwnerNext(o)
      PROVE  ckpt' = ckpt \/ ((PutInput(o) \/ EndSuperstep(o)) /\ Fence(o) /\ UNCHANGED row)
  <2>1. CASE PutInput(o) \/ EndSuperstep(o)
    BY <2>1 DEF PutInput, EndSuperstep, PutCheckpoint, checkpoints
  <2>2. CASE ckpt' = ckpt
    BY <2>2
  <2> QED BY <1>1, <2>1, <2>2
          DEF OwnerNext, RunStep, NodeStep, Resume, Recover, Claim, Decide, Load, GuardPublish,
              Publish, EngineRejects, Catch, BeginNode, GuardNode, ReadLedger, StartExecutor,
              SaveResult, PutWrites, NodeError, Heartbeat, Abort, RunError, Crash, checkpoints
<1>2. CASE Start \/ Cancel \/ LeaseLapses
  BY <1>2 DEF Start, Cancel, LeaseLapses, checkpoints
<1> QED BY <1>1, <1>2 DEF Next

LEMMA CurrentInvNext == TypeOK /\ IdleTasks /\ CurrentInv /\ [Next]_vars => CurrentInv'
<1> SUFFICES ASSUME TypeOK, IdleTasks, CurrentInv, [Next]_vars PROVE CurrentInv'
  OBVIOUS
<1>1. ASSUME NEW o \in Owner, OwnerNext(o) PROVE CurrentInv'
  <2>0. Next
    BY <1>1 DEF Next
  <2>1. ASSUME NEW p \in Owner \ {o} PROVE Current(p)' /\ Ahead(p)'
    <3>1. pc'[p] = pc[p] /\ task'[p] = task[p] /\ done'[p] = done[p] /\ value'[p] = value[p]
      BY <1>1, <2>1, OthersAlone
    <3>2. CASE ckpt' = ckpt
      BY <2>0, <3>1, <3>2, OthersKeep
    <3>3. CASE UNCHANGED row /\ \E q \in Owner : Fence(q) /\ q # p
      BY <3>3 DEF Fence, Holds, row, Current, Ahead
    <3>4. CASE UNCHANGED row /\ (PutInput(p) \/ EndSuperstep(p)) /\ Fence(p)
      BY <2>0, <3>4, RunStepKeeps DEF RunStep
    <3> QED BY <2>0, <3>2, <3>3, <3>4, OnlyHolderSaves
  <2>2. ASSUME Current(o)' /\ Ahead(o)' /\ \A n \in Node : writes'[n] # None => n \notin ckpt'.done
        PROVE  CurrentInv'
    BY <2>1, <2>2 DEF CurrentInv
  <2>3. CASE RunStep(o) \/ \E n \in Node : NodeStep(o, n) \/ NodeError(o, n)
    BY <2>0, <2>2, <2>3, RunStepKeeps, NodeStepKeeps
  <2>4. ASSUME UNCHANGED <<ckpt, writes>>, pc'[o] \notin {"input", "step", "publish"},
               \A n \in Node : task'[o][n] \in {task[o][n], "idle"}
        PROVE  CurrentInv'
    BY <2>0, <2>2, <2>4, OutsideKeeps DEF CurrentInv
  <2>5. CASE Resume(o) \/ Recover(o)
    BY <2>4, <2>5 DEF Resume, Recover, Goto, checkpoints, TypeOK
  <2>6. CASE Crash(o)
    BY <2>4, <2>6 DEF Crash, Goto, checkpoints, TypeOK, NoTasks
  <2>7. CASE RunError(o)
    BY <2>4, <2>7 DEF RunError, Finally, Goto, local, checkpoints, TypeOK
  <2>8. CASE Heartbeat(o) \/ Abort(o)
    <3>1. UNCHANGED <<ckpt, writes, pc, task, done, value>>
      BY <2>8 DEF Heartbeat, Abort, local, checkpoints
    <3> QED BY <2>0, <2>2, <3>1, OthersKeep DEF CurrentInv
  <2> QED BY <1>1, <2>3, <2>5, <2>6, <2>7, <2>8 DEF OwnerNext
<1>2. CASE Start \/ Cancel \/ LeaseLapses
  <2>1. UNCHANGED <<ckpt, writes, task, done, value>>
    BY <1>2 DEF Start, Cancel, LeaseLapses, local, checkpoints
  <2>2. ASSUME NEW p \in Owner PROVE Current(p)' /\ Ahead(p)'
    <3>1. CASE pc'[p] = pc[p]
      BY <1>2, <2>1, <3>1, OthersKeep DEF Next
    <3>2. CASE pc'[p] = "claim"
      BY <1>2, <2>1, <3>2, OutsideKeeps DEF Next
    <3> QED BY <1>2, <3>1, <3>2 DEF Start, Cancel, LeaseLapses, Goto, TypeOK
  <2> QED BY <2>1, <2>2 DEF CurrentInv
<1>3. CASE UNCHANGED vars
  BY <1>3 DEF vars, row, checkpoints, local, CurrentInv, Current, Ahead, Holds
<1> QED BY <1>1, <1>2, <1>3 DEF Next

LEMMA IdleTasksAlways == Spec => []IdleTasks
<1>1. Init => IdleTasks
  BY DEF Init, IdleTasks, NoTasks
<1> QED BY <1>1, IdleTasksNext, TypeCorrect, PTL DEF Spec

LEMMA CurrentInvAlways == Spec => []CurrentInv
<1>1. Init => CurrentInv
  BY DEF Init, CurrentInv, Current, Ahead, NoTasks, NoValues
<1> QED BY <1>1, CurrentInvNext, IdleTasksAlways, TypeCorrect, PTL DEF Spec

\* However many executions there are, the one that holds the lease works on the
\* newest checkpoint with the results it stores.
THEOREM HolderIsCurrentCorrect == Spec => []HolderIsCurrent
<1>1. CurrentInv => HolderIsCurrent
  BY DEF CurrentInv, Current, HolderIsCurrent
<1> QED BY <1>1, CurrentInvAlways, PTL
-----------------------------------------------------------------------------
(* Refinement.                                                             *)

\* A task that is about to write its result, or has, has one.
TasksHaveResults(o) ==
    \A n \in Node : task[o][n] \in {"putWrites", "written"} => value[o][n] # None

\* A checkpoint has a result for exactly the nodes that are done, whatever is
\* about to reach it is a result, and an execution that publishes has them all.
ResultsInv ==
    /\ \A n \in Node : ckpt.value[n] # None <=> n \in ckpt.done
    /\ \A n \in Node : ledger[n].status = "succeeded" => ledger[n].value # None
    /\ \A o \in Owner : TasksHaveResults(o)
    /\ \A o \in Owner : pc[o] = "publish" => ckpt.done = Node

\* What the end of a superstep does to the checkpoint.
LEMMA SuperstepEffect ==
    ASSUME TypeOK, CurrentInv, ResultsInv, NEW o \in Owner, EndSuperstep(o), Fence(o)
    PROVE  /\ done[o] = ckpt.done /\ ckpt'.done = ckpt.done \cup Ready(o)
           /\ \A n \in ckpt.done : ckpt'.value[n] = ckpt.value[n]
           /\ \A n \in Ready(o) : ckpt'.value[n] # None
           /\ \A n \in Node \ (ckpt.done \cup Ready(o)) : ckpt'.value[n] = None
<1>1. done[o] = ckpt.done /\ \A n \in ckpt.done : value[o][n] = ckpt.value[n]
  BY DEF EndSuperstep, Fence, CurrentInv, Current
<1>2. \A n \in Ready(o) : value[o][n] # None
  BY DEF EndSuperstep, ResultsInv, TasksHaveResults, Ready
<1>3. done[o] \cup Ready(o) \in SUBSET Node
  BY DEF Ready, TypeOK
<1>4. /\ ckpt'.done = done[o] \cup Ready(o)
      /\ \A n \in done[o] \cup Ready(o) : ckpt'.value[n] = value[o][n]
      /\ \A n \in Node \ (done[o] \cup Ready(o)) : ckpt'.value[n] = None
  BY <1>3, PutEffect DEF EndSuperstep
<1> QED BY <1>1, <1>2, <1>4

\* Saving the input again changes nothing that is stored.
LEMMA InputEffect ==
    ASSUME TypeOK, TypeOK', CurrentInv, ResultsInv, NEW o \in Owner, PutInput(o), Fence(o)
    PROVE  ckpt'.done = ckpt.done /\ ckpt'.value = ckpt.value
<1>1. done[o] = ckpt.done /\ \A n \in ckpt.done : value[o][n] = ckpt.value[n]
  BY DEF PutInput, Fence, CurrentInv, Current
<1>2. /\ ckpt'.done = done[o]
      /\ \A n \in done[o] : ckpt'.value[n] = value[o][n]
      /\ \A n \in Node \ done[o] : ckpt'.value[n] = None
  BY PutEffect DEF PutInput, TypeOK
<1>3. \A n \in Node : ckpt'.value[n] = ckpt.value[n]
  BY <1>1, <1>2 DEF ResultsInv
<1> QED BY <1>1, <1>2, <1>3 DEF TypeOK

\* Checkpoints only grow and have a result for exactly the nodes that are done.
LEMMA CheckpointResults ==
    ASSUME TypeOK, TypeOK', CurrentInv, ResultsInv, Next
    PROVE  /\ ckpt.done \subseteq ckpt'.done
           /\ \A n \in Node : ckpt'.value[n] # None <=> n \in ckpt'.done
<1>1. CASE ckpt' = ckpt
  BY <1>1 DEF ResultsInv
<1>2. ASSUME NEW o \in Owner, PutInput(o), Fence(o)
      PROVE  /\ ckpt.done \subseteq ckpt'.done
             /\ \A n \in Node : ckpt'.value[n] # None <=> n \in ckpt'.done
  BY <1>2, InputEffect DEF ResultsInv
<1>3. ASSUME NEW o \in Owner, EndSuperstep(o), Fence(o)
      PROVE  /\ ckpt.done \subseteq ckpt'.done
             /\ \A n \in Node : ckpt'.value[n] # None <=> n \in ckpt'.done
  BY <1>3, SuperstepEffect DEF ResultsInv
<1> QED BY <1>1, <1>2, <1>3, OnlyHolderSaves

\* The steps of an execution keep what its tasks and the ledger know.
LEMMA TaskResults ==
    ASSUME TypeOK, CurrentInv, ResultsInv, NEW o \in Owner, OwnerNext(o)
    PROVE  /\ TasksHaveResults(o)'
           /\ \A n \in Node : ledger'[n].status = "succeeded" => ledger'[n].value # None
<1> USE DEF TypeOK
<1>1. ASSUME ledger' = ledger, TasksHaveResults(o)'
      PROVE  /\ TasksHaveResults(o)'
             /\ \A n \in Node : ledger'[n].status = "succeeded" => ledger'[n].value # None
  BY <1>1 DEF ResultsInv
<1>2. CASE UNCHANGED <<ledger, task, value>>
  BY <1>1, <1>2 DEF ResultsInv, TasksHaveResults
<1>3. ASSUME Finally(o) PROVE TasksHaveResults(o)'
  BY <1>3 DEF Finally, ResultsInv, TasksHaveResults, Waiting
<1>4. CASE Publish(o) \/ Catch(o) \/ (RunError(o) /\ Finally(o))
  BY <1>1, <1>3, <1>4 DEF Publish, Catch, RunError
<1>5. CASE EndSuperstep(o) \/ Crash(o)
  <2>1. ledger' = ledger /\ \A n \in Node : task'[o][n] = "idle"
    BY <1>5 DEF EndSuperstep, Crash, NoTasks
  <2> QED BY <1>1, <2>1 DEF TasksHaveResults
<1>6. CASE Load(o)
  <2>1. \A n \in Node : task'[o][n] # "idle" => resume[o] /\ writes[n] # None
    BY <1>6 DEF Load
  <2>2. \A n \in Node : writes[n] # None => n \notin ckpt.done
    BY DEF CurrentInv
  <2>3. \A n \in Node \ ckpt.done : resume[o] => value'[o][n] = writes[n]
    BY <1>6 DEF Load
  <2>4. ledger' = ledger
    BY <1>6 DEF Load
  <2> QED BY <1>1, <2>1, <2>2, <2>3, <2>4 DEF TasksHaveResults
<1>7. ASSUME NEW n \in Node, NodeStep(o, n) \/ NodeError(o, n)
      PROVE  /\ TasksHaveResults(o)'
             /\ \A m \in Node : ledger'[m].status = "succeeded" => ledger'[m].value # None
  <2>1. CASE BeginNode(o, n) \/ GuardNode(o, n) \/ PutWrites(o, n) \/ NodeError(o, n)
    <3>1. UNCHANGED <<ledger, value>>
      BY <2>1 DEF BeginNode, GuardNode, PutWrites, NodeError, local
    <3>2. \A m \in Node : \/ task'[o][m] \in {task[o][m], "readLedger", "insert", "save", "failed"}
                          \/ task[o][m] = "putWrites"
      BY <2>1 DEF BeginNode, GuardNode, PassGuard, PutWrites, NodeError, SetTask
    <3> QED BY <1>1, <3>1, <3>2 DEF ResultsInv, TasksHaveResults
  <2>2. CASE ReadLedger(o, n)
    <3>1. ledger' = ledger
      BY <2>2 DEF ReadLedger
    <3>2. \A m \in Node \ {n} : task'[o][m] = task[o][m] /\ value'[o][m] = value[o][m]
      BY <2>2 DEF ReadLedger, SetTask
    <3>3. \/ task'[o][n] = "putWrites" /\ value'[o][n] # None
          \/ task'[o][n] \in {"ambiguous", "guard"}
      BY <2>2 DEF ReadLedger, SetTask, ResultsInv
    <3> QED BY <1>1, <3>1, <3>2, <3>3 DEF ResultsInv, TasksHaveResults
  <2>3. CASE StartExecutor(o, n)
    <3>1. \A m \in Node : task'[o][m] \in {task[o][m], "exec"} /\ value' = value
      BY <2>3 DEF StartExecutor, SetTask, local
    <3>2. \A m \in Node : ledger'[m].status = "succeeded" => ledger'[m].value = ledger[m].value
                                                          /\ ledger[m].status = "succeeded"
      BY <2>3 DEF StartExecutor
    <3> QED BY <3>1, <3>2 DEF ResultsInv, TasksHaveResults
  <2>4. CASE SaveResult(o, n) /\ Fence(o)
    <3>1. ledger' = [ledger EXCEPT ![n] = [status |-> "succeeded", value |-> o]]
      BY <2>4 DEF SaveResult
    <3>2. \A m \in Node : ledger'[m] = ledger[m] \/ ledger'[m].value = o
      BY <3>1
    <3>3. \A m \in Node : value'[o][m] = IF m = n THEN o ELSE value[o][m]
      BY <2>4 DEF SaveResult
    <3>4. \A m \in Node \ {n} : task'[o][m] = task[o][m]
      BY <2>4 DEF SaveResult, SetTask
    <3>5. o # None
      BY NoneAssumption
    <3>6. TasksHaveResults(o)'
      BY <3>3, <3>4, <3>5 DEF ResultsInv, TasksHaveResults
    <3> QED BY <3>2, <3>5, <3>6 DEF ResultsInv
  <2>5. CASE SaveResult(o, n) /\ ~Fence(o)
    BY <1>1, <2>5 DEF SaveResult, SetTask, ResultsInv, TasksHaveResults
  <2> QED BY <1>7, <2>1, <2>2, <2>3, <2>4, <2>5 DEF NodeStep
<1> QED BY <1>2, <1>4, <1>5, <1>6, <1>7
        DEF OwnerNext, RunStep, Resume, Recover, Claim, Decide, PutInput, GuardPublish,
            EngineRejects, Heartbeat, Abort, RunError, local

\* Only the guard before publishing leads there, on a complete checkpoint.
LEMMA PublishIsComplete ==
    ASSUME TypeOK, CurrentInv, ResultsInv, Next, NEW p \in Owner, pc'[p] = "publish"
    PROVE  ckpt.done = Node
<1> USE DEF TypeOK
<1>1. CASE pc[p] = "publish"
  BY <1>1 DEF ResultsInv
<1>2. CASE pc[p] # "publish"
  <2>1. ASSUME NEW o \in Owner, OwnerNext(o) PROVE GuardPublish(p) /\ Fence(p)
    <3>1. o = p
      BY <1>2, <2>1, OthersAlone
    <3>2. ~Finally(o)
      BY <3>1 DEF Finally
    <3>3. CASE GuardPublish(o)
      BY <3>1, <3>3 DEF GuardPublish, Goto
    <3>4. CASE pc'[p] = pc[p]
      BY <1>2, <3>4
    <3> QED BY <2>1, <3>1, <3>2, <3>3, <3>4
            DEF OwnerNext, RunStep, NodeStep, Resume, Recover, Claim, Decide, Load, PutInput,
                EndSuperstep, PutCheckpoint, Publish, EngineRejects, Catch, BeginNode, GuardNode,
                ReadLedger, StartExecutor, SaveResult, PutWrites, NodeError, Heartbeat, Abort,
                RunError, Crash, Goto
  <2>2. GuardPublish(p) /\ Fence(p)
    BY <1>2, <2>1 DEF Next, Start, Cancel, LeaseLapses, Goto
  <2> QED BY <2>2 DEF GuardPublish, Fence, CurrentInv, Current
<1> QED BY <1>1, <1>2

LEMMA ResultsInvNext ==
    TypeOK /\ TypeOK' /\ CurrentInv /\ ResultsInv /\ [Next]_vars => ResultsInv'
<1> SUFFICES ASSUME TypeOK, TypeOK', CurrentInv, ResultsInv, [Next]_vars PROVE ResultsInv'
  OBVIOUS
<1>1. CASE Next
  <2>1. \A n \in Node : ckpt'.value[n] # None <=> n \in ckpt'.done
    BY <1>1, CheckpointResults
  <2>2. \A p \in Owner : pc'[p] = "publish" => ckpt'.done = Node
    <3>1. ckpt.done \subseteq ckpt'.done /\ ckpt'.done \subseteq Node
      BY <1>1, CheckpointResults DEF TypeOK
    <3> QED BY <1>1, <3>1, PublishIsComplete
  <2>3. ASSUME NEW o \in Owner, OwnerNext(o)
        PROVE  /\ \A p \in Owner : TasksHaveResults(p)'
               /\ \A n \in Node : ledger'[n].status = "succeeded" => ledger'[n].value # None
    <3>1. ASSUME NEW p \in Owner \ {o} PROVE TasksHaveResults(p)'
      BY <2>3, <3>1, OthersAlone DEF ResultsInv, TasksHaveResults
    <3> QED BY <2>3, <3>1, TaskResults
  <2>4. CASE Start \/ Cancel \/ LeaseLapses
    <3>1. UNCHANGED <<ledger, task, value>>
      BY <2>4 DEF Start, Cancel, LeaseLapses, local
    <3> QED BY <2>1, <2>2, <3>1 DEF ResultsInv, TasksHaveResults
  <2> QED BY <1>1, <2>1, <2>2, <2>3, <2>4 DEF Next, ResultsInv
<1>2. CASE UNCHANGED vars
  BY <1>2 DEF vars, local, checkpoints, ResultsInv, TasksHaveResults
<1> QED BY <1>1, <1>2

LEMMA ResultsInvAlways == Spec => []ResultsInv
<1>1. Init => ResultsInv
  BY DEF Init, ResultsInv, TasksHaveResults, NoTasks, NoValues
<1> QED BY <1>1, ResultsInvNext, CurrentInvAlways, TypeCorrect, PTL DEF Spec

\* Every step of the runtime is a step of the durable run or leaves it alone.
LEMMA StepImplements ==
    ASSUME TypeOK, TypeOK', CurrentInv, ResultsInv, [Next]_vars
    PROVE  [Durable!Next]_(Durable!avars)
<1> USE DEF Durable!avars
<1>1. CASE UNCHANGED <<status, cancelRequested, ckpt>>
  BY <1>1
<1>2. CASE Start
  BY <1>2 DEF Start, checkpoints, Durable!Next, Durable!Submit
<1>3. CASE Cancel
  BY <1>3 DEF Cancel, checkpoints, TypeOK, Statuses, Durable!Next, Durable!Stop
<1>4. CASE LeaseLapses
  BY <1>1, <1>4 DEF LeaseLapses, checkpoints
<1>5. ASSUME NEW o \in Owner, OwnerNext(o) PROVE [Durable!Next]_(Durable!avars)
  <2>1. CASE Claim(o)
    BY <1>1, <2>1 DEF Claim, ClaimGuard, checkpoints, Durable!Next, Durable!Take
  <2>2. CASE PutInput(o)
    <3>1. UNCHANGED <<status, cancelRequested>>
      BY <2>2 DEF PutInput, row
    <3>2. CASE Fence(o)
      BY <2>2, <3>1, <3>2, InputEffect
    <3>3. CASE ~Fence(o)
      BY <1>1, <2>2, <3>1, <3>3 DEF PutInput, PutCheckpoint, checkpoints
    <3> QED BY <3>2, <3>3
  <2>3. CASE EndSuperstep(o)
    <3>1. UNCHANGED <<status, cancelRequested>>
      BY <2>3 DEF EndSuperstep, row
    <3>2. CASE Fence(o)
      <4>1. status = "running" /\ ~cancelRequested
        BY <3>2 DEF Fence, Holds
      <4>2. /\ done[o] = ckpt.done /\ ckpt'.done = ckpt.done \cup Ready(o)
            /\ \A n \in ckpt.done : ckpt'.value[n] = ckpt.value[n]
            /\ \A n \in Ready(o) : ckpt'.value[n] # None
            /\ \A n \in Node \ (ckpt.done \cup Ready(o)) : ckpt'.value[n] = None
        BY <2>3, <3>2, SuperstepEffect
      <4>3. \A n \in Node : ckpt.value[n] # None <=> n \in ckpt.done
        BY DEF ResultsInv
      <4>4. Ready(o) \in SUBSET {n \in Node : ckpt.value[n] = None}
        BY <4>2, <4>3 DEF Ready
      <4>5. \A n \in Ready(o) : \A m \in Node : <<m, n>> \in Edges => ckpt.value[m] # None
        BY <4>2, <4>3 DEF Ready, Parents
      <4>6. \A n \in Node : n \in Ready(o) <=> ckpt'.value[n] # ckpt.value[n]
        BY <4>2, <4>3 DEF Ready
      <4>7. ckpt'.value \in [Node -> Owner \cup {None}]
        BY DEF TypeOK, Values
      <4>8. Durable!Advance
        BY <3>1, <4>1, <4>4, <4>5, <4>6, <4>7 DEF Durable!Advance
      <4> QED BY <4>8 DEF Durable!Next
    <3>3. CASE ~Fence(o)
      BY <1>1, <2>3, <3>1, <3>3 DEF EndSuperstep, PutCheckpoint, checkpoints
    <3> QED BY <3>2, <3>3
  <2>4. CASE Publish(o)
    <3>1. UNCHANGED <<cancelRequested, ckpt>>
      BY <2>4 DEF Publish, checkpoints
    <3>2. CASE PublishGuard(o)
      <4>1. \A n \in Node : ckpt.value[n] # None
        BY <2>4 DEF Publish, ResultsInv
      <4> QED BY <2>4, <3>1, <3>2, <4>1
              DEF Publish, PublishGuard, Durable!Next, Durable!Complete
    <3>3. CASE ~PublishGuard(o)
      BY <1>1, <2>4, <3>1, <3>3 DEF Publish
    <3> QED BY <3>2, <3>3
  <2>5. CASE Catch(o)
    <3>1. UNCHANGED <<cancelRequested, ckpt>>
      BY <2>5 DEF Catch, checkpoints
    <3>2. CASE leaseOwner = o /\ status = "running"
      BY <2>5, <3>1, <3>2
      DEF Catch, FailedStatus, TypeOK, Durable!Next, Durable!Break, Durable!Stopped
    <3>3. CASE ~(leaseOwner = o /\ status = "running")
      BY <1>1, <2>5, <3>1, <3>3 DEF Catch
    <3> QED BY <3>2, <3>3
  <2>6. CASE UNCHANGED <<row, ckpt>>
    BY <1>1, <2>6 DEF row
  <2> QED BY <1>5, <2>1, <2>2, <2>3, <2>4, <2>5, <2>6
          DEF OwnerNext, RunStep, NodeStep, Resume, Recover, Decide, Load, GuardPublish,
              EngineRejects, BeginNode, GuardNode, ReadLedger, StartExecutor, SaveResult,
              PutWrites, NodeError, Heartbeat, Abort, RunError, Crash, checkpoints
<1>6. CASE UNCHANGED vars
  BY <1>1, <1>6 DEF vars, row, checkpoints
<1> QED BY <1>2, <1>3, <1>4, <1>5, <1>6 DEF Next

\* The run with its workers, leases, ledger and checkpoints implements the
\* durable run: one result per node that is never replaced, parents first, and
\* nothing after a cancel.
THEOREM IsDurableRunCorrect == Spec => IsDurableRun
<1>1. Init => Durable!Init
  BY DEF Init, NoValues, Durable!Init
<1>2. TypeOK /\ TypeOK' /\ CurrentInv /\ ResultsInv /\ [Next]_vars
        => [Durable!Next]_(Durable!avars)
  BY StepImplements
<1> QED BY <1>1, <1>2, TypeCorrect, CurrentInvAlways, ResultsInvAlways, PTL
        DEF Spec, IsDurableRun, Durable!Spec
-----------------------------------------------------------------------------
(* One result per node.                                                    *)

\* An execution, with the lease or without it, works on results that are in the
\* newest checkpoint, and has no node call for a node whose result it has.  An
\* execution that lost its lease may be behind the checkpoint, never beside it.
Follows(o) ==
    /\ pc[o] \in {"input", "step", "publish"} =>
         \A n \in done[o] : /\ n \in ckpt.done /\ value[o][n] = ckpt.value[n]
                            /\ task[o][n] = "idle"
    /\ pc[o] = "publish" => done[o] = Node

\* Whatever a child or the output of the run has seen is in the checkpoint.
ConsumedInv ==
    /\ \A o \in Owner : Follows(o)
    /\ \A n \in Node : \A v \in consumed[n] : n \in ckpt.done /\ v = ckpt.value[n]

\* A result in the checkpoint stays there.
LEMMA ResultsStay ==
    ASSUME TypeOK, TypeOK', CurrentInv, ResultsInv, Next, NEW n \in ckpt.done
    PROVE  n \in ckpt'.done /\ ckpt'.value[n] = ckpt.value[n]
<1>1. n \in Node
  BY DEF TypeOK
<1>2. ASSUME NEW o \in Owner, PutInput(o), Fence(o)
      PROVE  n \in ckpt'.done /\ ckpt'.value[n] = ckpt.value[n]
  BY <1>2, InputEffect
<1>3. ASSUME NEW o \in Owner, EndSuperstep(o), Fence(o)
      PROVE  n \in ckpt'.done /\ ckpt'.value[n] = ckpt.value[n]
  BY <1>3, SuperstepEffect
<1> QED BY <1>2, <1>3, OnlyHolderSaves

\* A step leaves what an execution follows alone when it leaves its part alone.
LEMMA FollowsStays ==
    ASSUME TypeOK, TypeOK', CurrentInv, ResultsInv, Next, NEW p \in Owner, Follows(p),
           pc'[p] = pc[p], task'[p] = task[p], done'[p] = done[p], value'[p] = value[p]
    PROVE  Follows(p)'
BY ResultsStay DEF Follows

\* The steps of an execution that leave the engine.
LEMMA FollowsOutside ==
    ASSUME NEW o \in Owner, pc'[o] \notin {"input", "step", "publish"}
    PROVE  Follows(o)'
BY DEF Follows

\* The steps of an execution keep what it follows.
LEMMA RunFollows ==
    ASSUME TypeOK, TypeOK', CurrentInv, ResultsInv, ConsumedInv, Next,
           NEW o \in Owner, RunStep(o)
    PROVE  Follows(o)'
<1> USE DEF TypeOK
<1>1. CASE Claim(o) \/ Decide(o) \/ EngineRejects(o)
  <2>1. pc'[o] \in {"idle", "decide", "load", "catch", "catchAmbiguous"}
    BY <1>1 DEF Claim, Decide, EngineRejects, Goto
  <2> QED BY <2>1, FollowsOutside
<1>2. CASE Publish(o) \/ Catch(o)
  <2>1. pc'[o] = "ended"
    BY <1>2 DEF Publish, Catch, Finally
  <2> QED BY <2>1, FollowsOutside
<1>3. CASE Load(o)
  <2>1. ckpt' = ckpt /\ done'[o] = ckpt.done /\ pc'[o] # "publish"
    BY <1>3 DEF Load, Goto, checkpoints
  <2>2. \A n \in ckpt.done : value'[o][n] = ckpt.value[n]
    BY <1>3 DEF Load
  <2>3. \A n \in ckpt.done : task'[o][n] = "idle"
    BY <1>3 DEF Load, CurrentInv
  <2> QED BY <2>1, <2>2, <2>3 DEF Follows
<1>4. CASE PutInput(o)
  <2>1. UNCHANGED <<done, value, task>> /\ pc[o] = "input"
    BY <1>4 DEF PutInput, local
  <2>2. CASE Fence(o)
    <3>1. pc'[o] = "step"
      BY <1>4, <2>2 DEF PutInput, PutCheckpoint, Goto
    <3> QED BY <2>1, <3>1, ResultsStay DEF ConsumedInv, Follows
  <2>3. CASE ~Fence(o)
    <3>1. pc'[o] = "catch"
      BY <1>4, <2>3 DEF PutInput, PutCheckpoint, Goto
    <3> QED BY <3>1, FollowsOutside
  <2> QED BY <2>2, <2>3
<1>5. CASE EndSuperstep(o)
  <2>1. /\ done'[o] = done[o] \cup Ready(o) /\ value' = value
        /\ \A n \in Node : task'[o][n] = "idle"
    BY <1>5 DEF EndSuperstep, NoTasks
  <2>2. CASE Fence(o)
    <3>1. done[o] \cup Ready(o) \in SUBSET Node
      BY DEF Ready
    <3>2. /\ ckpt'.done = done[o] \cup Ready(o)
          /\ \A n \in done[o] \cup Ready(o) : ckpt'.value[n] = value[o][n]
      BY <1>5, <2>2, <3>1, PutEffect DEF EndSuperstep
    <3>3. pc'[o] = "step"
      BY <1>5, <2>2 DEF EndSuperstep, PutCheckpoint, Goto
    <3> QED BY <2>1, <3>1, <3>2, <3>3 DEF Follows
  <2>3. CASE ~Fence(o)
    <3>1. pc'[o] = "catch"
      BY <1>5, <2>3 DEF EndSuperstep, PutCheckpoint, Goto
    <3> QED BY <3>1, FollowsOutside
  <2> QED BY <2>2, <2>3
<1>6. CASE GuardPublish(o)
  <2>1. UNCHANGED <<ckpt, task, done, value>> /\ pc[o] = "step" /\ done[o] = Node
    BY <1>6 DEF GuardPublish, local, checkpoints
  <2> QED BY <2>1 DEF ConsumedInv, Follows
<1> QED BY <1>1, <1>2, <1>3, <1>4, <1>5, <1>6 DEF RunStep

\* So do the steps of its node calls: they write results of nodes it does not have.
LEMMA NodeFollows ==
    ASSUME TypeOK, ConsumedInv, NEW o \in Owner, NEW n \in Node,
           NodeStep(o, n) \/ NodeError(o, n)
    PROVE  Follows(o)'
<1> USE DEF TypeOK
<1>1. UNCHANGED <<ckpt, pc, done>>
  BY DEF NodeStep, BeginNode, GuardNode, ReadLedger, StartExecutor, SaveResult, PutWrites,
         NodeError, local, checkpoints
<1>2. \A m \in Node \ {n} : task'[o][m] = task[o][m] /\ value'[o][m] = value[o][m]
  BY DEF NodeStep, BeginNode, GuardNode, PassGuard, ReadLedger, StartExecutor, SaveResult,
         PutWrites, NodeError, SetTask, local
<1>3. ASSUME pc[o] \in {"input", "step", "publish"} PROVE n \notin done[o]
  <2>1. CASE BeginNode(o, n)
    BY <2>1 DEF BeginNode, Ready
  <2>2. CASE task[o][n] # "idle"
    BY <1>3, <2>2 DEF ConsumedInv, Follows
  <2> QED BY <2>1, <2>2
          DEF NodeStep, GuardNode, ReadLedger, StartExecutor, SaveResult, PutWrites, NodeError,
              Waiting
<1> QED BY <1>1, <1>2, <1>3 DEF ConsumedInv, Follows

\* Every step keeps what every execution follows.
LEMMA FollowsNext ==
    ASSUME TypeOK, TypeOK', CurrentInv, ResultsInv, ConsumedInv, Next, NEW p \in Owner
    PROVE  Follows(p)'
<1> USE DEF TypeOK
<1>0. Follows(p)
  BY DEF ConsumedInv
<1>1. CASE Start \/ Cancel \/ LeaseLapses
  <2>1. UNCHANGED <<task, done, value>> /\ pc'[p] \in {pc[p], "claim"}
    BY <1>1 DEF Start, Cancel, LeaseLapses, Goto, local
  <2> QED BY <1>0, <2>1, FollowsStays, FollowsOutside
<1>2. ASSUME NEW o \in Owner, OwnerNext(o), o # p PROVE Follows(p)'
  BY <1>0, <1>2, OthersAlone, FollowsStays
<1>3. CASE OwnerNext(p)
  <2>1. CASE RunStep(p) \/ \E n \in Node : NodeStep(p, n) \/ NodeError(p, n)
    BY <2>1, RunFollows, NodeFollows
  <2>2. CASE Resume(p) \/ Recover(p) \/ Crash(p)
    BY <2>2, FollowsOutside DEF Resume, Recover, Crash, Goto
  <2>3. CASE RunError(p)
    BY <2>3, FollowsOutside DEF RunError, Finally, Goto
  <2>4. CASE Heartbeat(p) \/ Abort(p)
    BY <1>0, <2>4, FollowsStays DEF Heartbeat, Abort, local
  <2> QED BY <1>3, <2>1, <2>2, <2>3, <2>4 DEF OwnerNext
<1> QED BY <1>1, <1>2, <1>3 DEF Next

\* What a step adds to the consumed results is in the checkpoint.
LEMMA ConsumesCheckpoint ==
    ASSUME TypeOK, ConsumedInv, Next, NEW n \in Node, NEW v \in consumed'[n]
    PROVE  n \in ckpt.done /\ v = ckpt.value[n]
<1> USE DEF TypeOK
<1>0. CASE v \in consumed[n]
  BY <1>0 DEF ConsumedInv
<1>1. CASE UNCHANGED consumed
  BY <1>0, <1>1
<1>2. ASSUME NEW o \in Owner, NEW m \in Node, BeginNode(o, m)
      PROVE  n \in ckpt.done /\ v = ckpt.value[n]
  <2>1. CASE n \in Parents(m)
    <3>1. n \in done[o] /\ pc[o] = "step"
      BY <1>2, <2>1 DEF BeginNode, Ready
    <3>2. v \in consumed[n] \/ v = value[o][n]
      BY <1>2, <2>1 DEF BeginNode
    <3> QED BY <1>0, <3>1, <3>2 DEF ConsumedInv, Follows
  <2>2. CASE n \notin Parents(m)
    BY <1>0, <1>2, <2>2 DEF BeginNode
  <2> QED BY <2>1, <2>2
<1>3. ASSUME NEW o \in Owner, Publish(o) PROVE n \in ckpt.done /\ v = ckpt.value[n]
  <2>1. pc[o] = "publish"
    BY <1>3 DEF Publish
  <2>2. n \in done[o] /\ n \in ckpt.done /\ value[o][n] = ckpt.value[n]
    BY <2>1 DEF ConsumedInv, Follows
  <2>3. CASE PublishGuard(o)
    <3>1. consumed'[n] = consumed[n] \/ consumed'[n] = consumed[n] \cup {value[o][n]}
      <4> HIDE DEF TypeOK
      <4> QED BY <1>3, <2>3 DEF Publish
    <3> QED BY <1>0, <2>2, <3>1
  <2>4. CASE ~PublishGuard(o)
    BY <1>1, <1>3, <2>4 DEF Publish
  <2> QED BY <2>3, <2>4
<1>4. ASSUME NEW o \in Owner, OwnerNext(o) PROVE n \in ckpt.done /\ v = ckpt.value[n]
  BY <1>1, <1>2, <1>3, <1>4
  DEF OwnerNext, RunStep, NodeStep, Resume, Recover, Claim, Decide, Load, PutInput, EndSuperstep,
      GuardPublish, EngineRejects, Catch, GuardNode, ReadLedger, StartExecutor, SaveResult,
      PutWrites, NodeError, Heartbeat, Abort, RunError, Crash, hist
<1>5. CASE Start \/ Cancel \/ LeaseLapses
  BY <1>1, <1>5 DEF Start, Cancel, LeaseLapses, hist
<1> QED BY <1>4, <1>5 DEF Next

LEMMA ConsumedInvNext ==
    TypeOK /\ TypeOK' /\ CurrentInv /\ ResultsInv /\ ConsumedInv /\ [Next]_vars => ConsumedInv'
<1> SUFFICES ASSUME TypeOK, TypeOK', CurrentInv, ResultsInv, ConsumedInv, [Next]_vars
             PROVE  ConsumedInv'
  OBVIOUS
<1>1. CASE Next
  <2>1. \A p \in Owner : Follows(p)'
    BY <1>1, FollowsNext
  <2>2. \A n \in Node : \A v \in consumed'[n] : n \in ckpt'.done /\ v = ckpt'.value[n]
    BY <1>1, ConsumesCheckpoint, ResultsStay
  <2> QED BY <2>1, <2>2 DEF ConsumedInv
<1>2. CASE UNCHANGED vars
  BY <1>2 DEF vars, local, checkpoints, hist, ConsumedInv, Follows
<1> QED BY <1>1, <1>2

\* Whatever crashes, takes over, resumes or is computed twice: the children of a
\* node and the output of the run only ever see one result of it.
THEOREM OneResultConsumedCorrect == Spec => []OneResultConsumed
<1>1. Init => ConsumedInv
  BY DEF Init, ConsumedInv, Follows
<1>2. ConsumedInv => OneResultConsumed
  BY DEF ConsumedInv, OneResultConsumed
<1> QED BY <1>1, <1>2, ConsumedInvNext, TypeCorrect, CurrentInvAlways, ResultsInvAlways, PTL
        DEF Spec
=============================================================================
