-------------------------- MODULE AgentWorkflowProofs --------------------------
(***************************************************************************)
(* Agents and the workflows they are bound to.  First how runs of agents    *)
(* nest, for any agents, workflows and delegations: how deep they go, what  *)
(* a run reports of its workflow, and that a recovered workflow runs no     *)
(* agent again.  Then how the engine schedules one workflow, for every      *)
(* number of nodes and every definition: what is validated, what a version  *)
(* 1 chain keeps, what is run, what is skipped, and that it never gets      *)
(* stuck.                                                                   *)
(***************************************************************************)
EXTENDS AgentRuns, WorkflowDag, FiniteSetTheorems, WellFoundedInduction, TLAPS

\* The records of TypeOK.
Why == {"no", "raced", "rejected", "again"}
RunRec == [at : {"free", "begin", "start", "inline", "back", "poll", "last", "graph", "await", "after",
                 "closing", "lost"} \cup Ended,
           agent : Agent \cup {None}, depth : 0 .. 1, skip : SUBSET Agent, apart : Why]
FlowStatus == {"none", "pending", "running"} \cup Terminal
FlowRec == [st : FlowStatus, exec : BOOLEAN,
            node : {"none", "child", "done"}, cancel : BOOLEAN, seen : BOOLEAN]

\* Where a run goes once it has begun.
Steps == {"start", "inline", "back", "poll", "last", "graph", "await", "after", "closing", "lost"} \cup Ended

\* What holds of one run and its workflow.
Sound(i, r, f) ==
    /\ r.at \in {"free", "begin", "graph", "await", "after"} => f.st = "none"
    /\ r.at \in {"start", "inline", "back", "poll", "last"} => f.st # "none"
    /\ f.exec => f.st = "running"
    /\ f.st = "succeeded" => f.node = "done"
    /\ f.node # "none" => i < MaxLevel
    /\ r.at = "last" => f.st = "succeeded" \/ f.cancel
    /\ r.at \in {"closing", "succeeded"} => f.st \in {"none", "succeeded"}
    /\ r.at = "failed" => \/ f.st = "none" \/ r.apart # "no"
                          \/ f.st # "succeeded" /\ (f.cancel \/ f.st \in Terminal)

\* Where a run may be in the nest.
Placed(i, r, f) ==
    /\ r.at # "free" => /\ r.agent \in Agent /\ r.skip \subseteq Workflows
                        /\ i <= 2 * Cardinality(r.skip) + 1 + r.depth
    /\ f.st # "none" => Target[r.agent] # None /\ r.agent \notin r.skip

\* What a run and its workflow know of the run they started.
Linked(r, f, next) ==
    /\ r.at \in {"free", "begin", "graph"} => next.at = "free"
    /\ f.node = "done" => next.at = "succeeded"

\* Every level, and every two levels that follow each other.
NestInv ==
    /\ \A i \in Level : Sound(i, run[i], flow[i]) /\ Placed(i, run[i], flow[i])
    /\ \A i \in 1 .. MaxLevel - 1 : Linked(run[i], flow[i], run[i + 1])
-----------------------------------------------------------------------------
(* What an action does to a run or a workflow.                             *)

\* A step of one run, and of one workflow run.
RunMoves(i) ==
    /\ run' \in [Level -> RunRec] /\ \A j \in Level \ {i} : run'[j] = run[j]
    /\ run'[i].agent = run[i].agent /\ run'[i].depth = run[i].depth /\ run'[i].skip = run[i].skip
FlowMoves(i) == flow' \in [Level -> FlowRec] /\ \A j \in Level \ {i} : flow'[j] = flow[j]

\* The records that the actions make.
LEMMA Moved ==
    ASSUME NEW r \in RunRec, NEW place \in Steps
    PROVE  LET s == [r EXCEPT !.at = place]
           IN  /\ s \in RunRec /\ s.at = place /\ s.agent = r.agent /\ s.depth = r.depth
               /\ s.skip = r.skip /\ s.apart = r.apart
BY DEF RunRec, Steps

\* Likewise.
LEMMA ApartField ==
    ASSUME NEW r \in RunRec, NEW why \in Why
    PROVE  LET s == [r EXCEPT !.apart = why]
           IN  /\ s \in RunRec /\ s.at = r.at /\ s.agent = r.agent /\ s.depth = r.depth
               /\ s.skip = r.skip /\ s.apart = why
BY DEF RunRec

\* One entry of a function.
LEMMA OneRun ==
    ASSUME run \in [Level -> RunRec], NEW i \in Level, NEW s \in RunRec, run' = [run EXCEPT ![i] = s]
    PROVE  /\ run' \in [Level -> RunRec] /\ run'[i] = s
           /\ \A j \in Level \ {i} : run'[j] = run[j]
OBVIOUS

\* Likewise.
LEMMA OneFlow ==
    ASSUME flow \in [Level -> FlowRec], NEW i \in Level, NEW g \in FlowRec, flow' = [flow EXCEPT ![i] = g]
    PROVE  FlowMoves(i) /\ flow'[i] = g
BY DEF FlowMoves

\* A run goes on.
LEMMA GoesEffect ==
    ASSUME TypeOK, NEW i \in Level, NEW place \in Steps, Goes(i, place)
    PROVE  RunMoves(i) /\ run'[i].at = place /\ run'[i].apart = run[i].apart
<1> DEFINE s == [run[i] EXCEPT !.at = place]
<1>1. run \in [Level -> RunRec]
  BY DEF TypeOK, RunRec, Why
<1>2. run' = [run EXCEPT ![i] = s]
  BY <1>1 DEF Goes
<1>3. /\ s \in RunRec /\ s.at = place /\ s.agent = run[i].agent /\ s.depth = run[i].depth
      /\ s.skip = run[i].skip /\ s.apart = run[i].apart
  BY <1>1, Moved
<1> HIDE DEF s
<1> QED BY <1>1, <1>2, <1>3, OneRun DEF RunMoves

\* A run leaves its workflow to itself.
LEMMA GoesApartEffect ==
    ASSUME TypeOK, NEW i \in Level, NEW place \in Steps, NEW why \in Why, GoesApart(i, place, why)
    PROVE  RunMoves(i) /\ run'[i].at = place /\ run'[i].apart = why
<1> DEFINE r == [run[i] EXCEPT !.at = place]
           s == [r EXCEPT !.apart = why]
<1>1. run \in [Level -> RunRec]
  BY DEF TypeOK, RunRec, Why
<1>2. run' = [run EXCEPT ![i] = s]
  BY <1>1 DEF GoesApart
<1>3. /\ r \in RunRec /\ r.at = place /\ r.agent = run[i].agent /\ r.depth = run[i].depth
      /\ r.skip = run[i].skip
  BY <1>1, Moved
<1> HIDE DEF r
<1>4. /\ s \in RunRec /\ s.at = place /\ s.agent = run[i].agent /\ s.depth = run[i].depth
      /\ s.skip = run[i].skip /\ s.apart = why
  BY <1>3, ApartField
<1> HIDE DEF s
<1> QED BY <1>1, <1>2, <1>4, OneRun DEF RunMoves

\* The workflow of a run is taken up again.
LEMMA AgainEffect ==
    ASSUME TypeOK, NEW i \in Level, Again(i)
    PROVE  /\ RunMoves(i) /\ run'[i].at = run[i].at
           /\ run[i].at = "failed" => run'[i].apart # "no"
<1> DEFINE why == IF run[i].at = "failed" /\ run[i].apart = "no" THEN "again" ELSE run[i].apart
           s == [run[i] EXCEPT !.apart = why]
<1>1. run \in [Level -> RunRec]
  BY DEF TypeOK, RunRec, Why
<1>2. run' = [run EXCEPT ![i] = s]
  BY <1>1 DEF Again
<1>3. why \in Why /\ (run[i].at = "failed" => why # "no")
  BY <1>1 DEF Why, RunRec
<1> HIDE DEF why
<1>4. /\ s \in RunRec /\ s.at = run[i].at /\ s.agent = run[i].agent /\ s.depth = run[i].depth
      /\ s.skip = run[i].skip /\ s.apart = why
  BY <1>1, <1>3, ApartField
<1> HIDE DEF s
<1> QED BY <1>1, <1>2, <1>3, <1>4, OneRun DEF RunMoves

\* The executor's request, if it has one, goes on reading.
LEMMA ReturnsEffect ==
    ASSUME TypeOK, NEW i \in Level, run[i].at \in Steps, Returns(i, "back")
    PROVE  /\ RunMoves(i) /\ run'[i].apart = run[i].apart
           /\ run'[i].at = IF run[i].at = "inline" THEN "back" ELSE run[i].at
<1> DEFINE place == IF run[i].at = "inline" THEN "back" ELSE run[i].at
<1>1. place \in Steps
  BY DEF Steps
<1>2. run \in [Level -> RunRec]
  BY DEF TypeOK, RunRec, Why
<1>3. Goes(i, place)
  BY <1>2 DEF Goes, Returns
<1> HIDE DEF place
<1>4. RunMoves(i) /\ run'[i].at = place /\ run'[i].apart = run[i].apart
  BY <1>1, <1>3, GoesEffect
<1> QED BY <1>4 DEF place

\* The fields of a workflow run, one at a time.
LEMMA StField ==
    ASSUME NEW f \in FlowRec, NEW st \in FlowStatus
    PROVE  LET g == [f EXCEPT !.st = st]
           IN  g \in FlowRec /\ g.st = st /\ g.exec = f.exec /\ g.node = f.node /\ g.cancel = f.cancel
BY DEF FlowRec, FlowStatus

\* Likewise.
LEMMA ExecField ==
    ASSUME NEW f \in FlowRec, NEW exec \in BOOLEAN
    PROVE  LET g == [f EXCEPT !.exec = exec]
           IN  g \in FlowRec /\ g.st = f.st /\ (g.exec <=> exec) /\ g.node = f.node /\ g.cancel = f.cancel
BY DEF FlowRec, FlowStatus

\* Likewise.
LEMMA NodeField ==
    ASSUME NEW f \in FlowRec, NEW node \in {"none", "child", "done"}
    PROVE  LET g == [f EXCEPT !.node = node]
           IN  g \in FlowRec /\ g.st = f.st /\ g.exec = f.exec /\ g.node = node /\ g.cancel = f.cancel
BY DEF FlowRec, FlowStatus

\* Likewise.
LEMMA CancelField ==
    ASSUME NEW f \in FlowRec, NEW cancel \in BOOLEAN
    PROVE  LET g == [f EXCEPT !.cancel = cancel]
           IN  g \in FlowRec /\ g.st = f.st /\ g.exec = f.exec /\ g.node = f.node /\ (g.cancel <=> cancel)
BY DEF FlowRec, FlowStatus

\* Likewise.
LEMMA SeenField ==
    ASSUME NEW f \in FlowRec, NEW seen \in BOOLEAN
    PROVE  LET g == [f EXCEPT !.seen = seen]
           IN  g \in FlowRec /\ g.st = f.st /\ g.exec = f.exec /\ g.node = f.node /\ g.cancel = f.cancel
BY DEF FlowRec, FlowStatus

\* The workflow run is created.
LEMMA CreatedEffect ==
    ASSUME TypeOK, NEW i \in Level, NEW st \in FlowStatus, flow' = [flow EXCEPT ![i].st = st]
    PROVE  /\ FlowMoves(i)
           /\ flow'[i].st = st /\ flow'[i].exec = flow[i].exec
           /\ flow'[i].node = flow[i].node /\ flow'[i].cancel = flow[i].cancel
<1> DEFINE g == [flow[i] EXCEPT !.st = st]
<1>1. flow \in [Level -> FlowRec]
  BY DEF TypeOK, FlowRec, FlowStatus
<1>2. flow' = [flow EXCEPT ![i] = g]
  BY <1>1
<1>3. /\ g \in FlowRec /\ g.st = st /\ g.exec = flow[i].exec
      /\ g.node = flow[i].node /\ g.cancel = flow[i].cancel
  BY <1>1, StField
<1> HIDE DEF g
<1> QED BY <1>1, <1>2, <1>3, OneFlow

\* The scanner selects it, or drops it.
LEMMA SeenEffect ==
    ASSUME TypeOK, NEW i \in Level, NEW seen \in BOOLEAN, flow' = [flow EXCEPT ![i].seen = seen]
    PROVE  /\ FlowMoves(i)
           /\ flow'[i].st = flow[i].st /\ flow'[i].exec = flow[i].exec
           /\ flow'[i].node = flow[i].node /\ flow'[i].cancel = flow[i].cancel
<1> DEFINE g == [flow[i] EXCEPT !.seen = seen]
<1>1. flow \in [Level -> FlowRec]
  BY DEF TypeOK, FlowRec, FlowStatus
<1>2. flow' = [flow EXCEPT ![i] = g]
  BY <1>1
<1>3. /\ g \in FlowRec /\ g.st = flow[i].st /\ g.exec = flow[i].exec
      /\ g.node = flow[i].node /\ g.cancel = flow[i].cancel
  BY <1>1, SeenField
<1> HIDE DEF g
<1> QED BY <1>1, <1>2, <1>3, OneFlow

\* An executor takes it.
LEMMA ClaimEffect ==
    ASSUME TypeOK, NEW i \in Level, Claim(i)
    PROVE  /\ FlowMoves(i)
           /\ flow'[i].st = "running" /\ flow'[i].exec /\ flow'[i].cancel = flow[i].cancel
           /\ flow'[i].node = IF flow[i].node = "child" THEN "none" ELSE flow[i].node
<1> DEFINE g == [flow[i] EXCEPT !.st = "running"]
           h == [g EXCEPT !.exec = TRUE]
           k == [h EXCEPT !.seen = FALSE]
           node == IF k.node = "child" THEN "none" ELSE k.node
           n == [k EXCEPT !.node = node]
<1>1. flow \in [Level -> FlowRec]
  BY DEF TypeOK, FlowRec, FlowStatus
<1>2. flow' = [flow EXCEPT ![i] = n]
  BY <1>1 DEF Claim
<1>3. g \in FlowRec /\ g.st = "running" /\ g.node = flow[i].node /\ g.cancel = flow[i].cancel
  BY <1>1, StField DEF FlowStatus
<1> HIDE DEF g
<1>4. h \in FlowRec /\ h.st = "running" /\ h.exec /\ h.node = flow[i].node /\ h.cancel = flow[i].cancel
  BY <1>3, ExecField
<1> HIDE DEF h
<1>5. k \in FlowRec /\ k.st = "running" /\ k.exec /\ k.node = flow[i].node /\ k.cancel = flow[i].cancel
  BY <1>4, SeenField
<1> HIDE DEF k
<1>6. node \in {"none", "child", "done"} /\ node = IF flow[i].node = "child" THEN "none" ELSE flow[i].node
  BY <1>5 DEF FlowRec
<1> HIDE DEF node
<1>7. n \in FlowRec /\ n.st = "running" /\ n.exec /\ n.node = node /\ n.cancel = flow[i].cancel
  <2>1. n \in FlowRec /\ n.st = k.st /\ n.exec = k.exec /\ n.node = node /\ n.cancel = k.cancel
    BY <1>5, <1>6, NodeField
  <2> HIDE DEF n
  <2> QED BY <1>5, <2>1
<1> HIDE DEF n
<1> QED BY <1>1, <1>2, <1>6, <1>7, OneFlow

\* Somebody cancels it.
LEMMA CancelledEffect ==
    ASSUME TypeOK, NEW i \in Level, NEW lapsed \in BOOLEAN, Cancelled(i, lapsed)
    PROVE  /\ FlowMoves(i)
           /\ flow'[i].st = flow[i].st \/ (flow[i].st # "succeeded" /\ ~flow[i].exec /\ flow'[i].st = "cancelled")
           /\ flow'[i].cancel <=> flow[i].st # "succeeded"
           /\ flow'[i].node = flow[i].node /\ flow'[i].exec = flow[i].exec
<1> DEFINE held == flow[i].exec \/ (flow[i].st = "running" /\ ~lapsed)
           stays == flow[i].st = "succeeded" \/ held
           c == flow[i].st # "succeeded"
           g == [flow[i] EXCEPT !.cancel = c]
           st == IF stays THEN g.st ELSE "cancelled"
           h == [g EXCEPT !.st = st]
<1>1. flow \in [Level -> FlowRec]
  BY DEF TypeOK, FlowRec, FlowStatus
<1>2. g \in FlowRec /\ g.st = flow[i].st /\ (g.cancel <=> c) /\ g.node = flow[i].node /\ g.exec = flow[i].exec
  <2>1. c \in BOOLEAN
    OBVIOUS
  <2> HIDE DEF c
  <2> QED BY <1>1, <2>1, CancelField
<1>3. flow' = [flow EXCEPT ![i] = h]
  BY <1>1, <1>2 DEF Cancelled
<1> HIDE DEF g
<1>4. st \in FlowStatus /\ (st = flow[i].st \/ (flow[i].st # "succeeded" /\ ~flow[i].exec /\ st = "cancelled"))
  BY <1>2 DEF FlowStatus, FlowRec, Terminal
<1> HIDE DEF st
<1>5. h \in FlowRec /\ h.st = st /\ (h.cancel <=> c) /\ h.node = flow[i].node /\ h.exec = flow[i].exec
  BY <1>2, <1>4, StField
<1> HIDE DEF h
<1> QED BY <1>1, <1>3, <1>4, <1>5, OneFlow

\* Its executor ends it.
LEMMA EndsEffect ==
    ASSUME TypeOK, NEW i \in Level, NEW st \in FlowStatus, Ends(i, st)
    PROVE  /\ FlowMoves(i)
           /\ flow'[i].st = IF flow[i].cancel THEN "cancelled" ELSE st
           /\ ~flow'[i].exec
           /\ flow'[i].node = flow[i].node /\ flow'[i].cancel = flow[i].cancel
<1> DEFINE g == [flow[i] EXCEPT !.exec = FALSE]
           end == IF flow[i].cancel THEN "cancelled" ELSE st
           h == [g EXCEPT !.st = end]
<1>1. flow \in [Level -> FlowRec]
  BY DEF TypeOK, FlowRec, FlowStatus
<1>2. flow' = [flow EXCEPT ![i] = h]
  BY <1>1 DEF Ends
<1>3. g \in FlowRec /\ ~g.exec /\ g.node = flow[i].node /\ g.cancel = flow[i].cancel
  BY <1>1, ExecField
<1> HIDE DEF g
<1>4. end \in FlowStatus
  BY DEF FlowStatus, Terminal
<1> HIDE DEF end
<1>5. h \in FlowRec /\ h.st = end /\ ~h.exec /\ h.node = flow[i].node /\ h.cancel = flow[i].cancel
  BY <1>3, <1>4, StField
<1> HIDE DEF h
<1> QED BY <1>1, <1>2, <1>5, OneFlow DEF end

\* The node of the ledger.
LEMMA NodeEffect ==
    ASSUME TypeOK, NEW i \in Level, NEW node \in {"none", "child", "done"}, flow' = [flow EXCEPT ![i].node = node]
    PROVE  /\ FlowMoves(i)
           /\ flow'[i].st = flow[i].st /\ flow'[i].exec = flow[i].exec
           /\ flow'[i].node = node /\ flow'[i].cancel = flow[i].cancel
<1> DEFINE g == [flow[i] EXCEPT !.node = node]
<1>1. flow \in [Level -> FlowRec]
  BY DEF TypeOK, FlowRec, FlowStatus
<1>2. flow' = [flow EXCEPT ![i] = g]
  BY <1>1
<1>3. /\ g \in FlowRec /\ g.st = flow[i].st /\ g.exec = flow[i].exec
      /\ g.node = node /\ g.cancel = flow[i].cancel
  BY <1>1, NodeField
<1> HIDE DEF g
<1> QED BY <1>1, <1>2, <1>3, OneFlow

\* Its executor is gone.
LEMMA ExecEffect ==
    ASSUME TypeOK, NEW i \in Level, flow' = [flow EXCEPT ![i].exec = FALSE]
    PROVE  /\ FlowMoves(i)
           /\ flow'[i].st = flow[i].st /\ ~flow'[i].exec
           /\ flow'[i].node = flow[i].node /\ flow'[i].cancel = flow[i].cancel
<1> DEFINE g == [flow[i] EXCEPT !.exec = FALSE]
<1>1. flow \in [Level -> FlowRec]
  BY DEF TypeOK, FlowRec, FlowStatus
<1>2. flow' = [flow EXCEPT ![i] = g]
  BY <1>1
<1>3. /\ g \in FlowRec /\ g.st = flow[i].st /\ ~g.exec
      /\ g.node = flow[i].node /\ g.cancel = flow[i].cancel
  BY <1>1, ExecField
<1> HIDE DEF g
<1> QED BY <1>1, <1>2, <1>3, OneFlow
-----------------------------------------------------------------------------
(* One step of a run, of its workflow, or of both.                         *)

\* Nothing begins for a second time, and a success is final.
Onward(r, s) ==
    /\ s.at = "free" <=> r.at = "free"
    /\ s.at = "begin" => r.at = "begin"
    /\ s.at = "graph" => r.at \in {"begin", "graph"}
    /\ r.at = "succeeded" => s.at = "succeeded"

\* A step that begins no run leaves the other levels as they are.
Local(i) ==
    /\ RunMoves(i) /\ FlowMoves(i)
    /\ Onward(run[i], run'[i])
    /\ flow'[i].node = "done" => flow[i].node = "done" \/ run[i + 1].at = "succeeded"
    /\ Sound(i, run'[i], flow'[i])
    /\ flow'[i].st # "none" => flow[i].st # "none" \/ BoundWorkflow(i)

\* What is not free does not begin.
BeginsOnce == \A i \in Level : run[i].at # "free" => run'[i].at # "begin" \/ run[i].at = "begin"

\* Such a step keeps the invariant.
LEMMA LocalKeeps ==
    ASSUME TypeOK, NestInv, NEW i \in Level, Local(i)
    PROVE  NestInv' /\ BeginsOnce /\ run' \in [Level -> RunRec] /\ flow' \in [Level -> FlowRec]
<1> USE DEF RunMoves, FlowMoves
<1>1. ASSUME NEW j \in Level PROVE Sound(j, run'[j], flow'[j]) /\ Placed(j, run'[j], flow'[j])
  <2>1. CASE j = i
    <3>1. Placed(i, run'[i], flow'[i])
      BY DEF Local, NestInv, Placed, BoundWorkflow, Onward
    <3> QED BY <2>1, <3>1 DEF Local
  <2>2. CASE j # i
    BY <2>2 DEF Local, NestInv
  <2> QED BY <2>1, <2>2
<1>2. ASSUME NEW j \in 1 .. MaxLevel - 1 PROVE Linked(run'[j], flow'[j], run'[j + 1])
  <2>0. j \in Level /\ j + 1 \in Level /\ j # j + 1 /\ Linked(run[j], flow[j], run[j + 1])
    BY AgentRunsAssumption DEF NestInv, Level
  <2>1. CASE j = i
    BY <2>0, <2>1 DEF Local, Linked, Onward
  <2>2. CASE j + 1 = i
    BY <2>0, <2>2 DEF Local, Linked, Onward
  <2>3. CASE j # i /\ j + 1 # i
    BY <2>0, <2>3 DEF Local
  <2> QED BY <2>1, <2>2, <2>3
<1>3. BeginsOnce
  BY DEF BeginsOnce, Local, Onward
<1> QED BY <1>1, <1>2, <1>3 DEF NestInv, Local

\* The steps of a run that start no other.
LEMMA RunStepLocal ==
    ASSUME TypeOK, NestInv, NEW i \in Level,
           \/ Begin(i) \/ Start(i) \/ Read(i) \/ Deadline(i) \/ Graph(i) \/ Delegated(i) \/ Close(i)
           \/ RunRejected(i)
    PROVE  Local(i)
<1>0. /\ run \in [Level -> RunRec] /\ flow \in [Level -> FlowRec]
      /\ Sound(i, run[i], flow[i])
  BY DEF TypeOK, RunRec, Why, FlowRec, FlowStatus, NestInv
<1>1. ASSUME NEW place \in Steps, Goes(i, place), UNCHANGED flow, Onward(run[i], run'[i]),
             Sound(i, run'[i], flow[i])
      PROVE  Local(i)
  BY <1>0, <1>1, GoesEffect DEF Local, FlowMoves
<1>2. CASE Begin(i)
  <2>1. run[i].at = "begin" /\ flow[i].st = "none"
    BY <1>0, <1>2 DEF Begin, Sound
  <2>2. CASE BoundWorkflow(i) /\ Goes(i, "start") /\ flow' = [flow EXCEPT ![i].st = "pending"]
    <3>1. RunMoves(i) /\ run'[i].at = "start" /\ run'[i].apart = run[i].apart
      BY <2>2, GoesEffect DEF Steps
    <3>2. /\ FlowMoves(i)
          /\ flow'[i].st = "pending" /\ flow'[i].exec = flow[i].exec
          /\ flow'[i].node = flow[i].node /\ flow'[i].cancel = flow[i].cancel
      BY <2>2, CreatedEffect DEF FlowStatus
    <3> QED BY <1>0, <2>1, <2>2, <3>1, <3>2 DEF Local, Onward, Sound
  <2>3. ASSUME NEW place \in {"graph", "failed"}, Goes(i, place), UNCHANGED flow
        PROVE  Local(i)
    <3>1. place \in Steps
      BY DEF Steps, Ended
    <3>2. run'[i].at = place /\ run'[i].apart = run[i].apart
      BY <2>3, <3>1, GoesEffect
    <3> QED BY <1>0, <1>1, <2>1, <2>3, <3>1, <3>2 DEF Onward, Sound
  <2> QED BY <1>2, <2>2, <2>3 DEF Begin
<1>3. CASE Start(i)
  <2>1. run[i].at = "start"
    BY <1>3 DEF Start
  <2>2. CASE Goes(i, "poll") /\ UNCHANGED flow
    <3>1. "poll" \in Steps
      BY DEF Steps
    <3>2. run'[i].at = "poll" /\ run'[i].apart = run[i].apart
      BY <2>2, <3>1, GoesEffect
    <3> QED BY <1>0, <1>1, <2>1, <2>2, <3>1, <3>2 DEF Onward, Sound
  <2>3. CASE Claimable(i) /\ Goes(i, "inline") /\ Claim(i)
    <3>1. RunMoves(i) /\ run'[i].at = "inline" /\ run'[i].apart = run[i].apart
      BY <2>3, GoesEffect DEF Steps
    <3>2. /\ FlowMoves(i)
          /\ flow'[i].st = "running" /\ flow'[i].exec /\ flow'[i].cancel = flow[i].cancel
          /\ flow'[i].node = IF flow[i].node = "child" THEN "none" ELSE flow[i].node
      BY <2>3, ClaimEffect
    <3> QED BY <1>0, <2>1, <2>3, <3>1, <3>2 DEF Local, Onward, Sound, Claimable
  <2>4. CASE GoesApart(i, "failed", "raced") /\ UNCHANGED flow
    <3>1. RunMoves(i) /\ run'[i].at = "failed" /\ run'[i].apart = "raced"
      BY <2>4, GoesApartEffect DEF Steps, Ended, Why
    <3> QED BY <1>0, <2>1, <2>4, <3>1 DEF Local, Onward, Sound, FlowMoves
  <2> QED BY <1>3, <2>2, <2>3, <2>4 DEF Start
<1>4. CASE Read(i)
  <2>1. PICK place \in {"poll", "closing", "failed"} :
             /\ Goes(i, place)
             /\ place = "poll" => run[i].at = "back"
             /\ place = "closing" => flow[i].st = "succeeded"
             /\ place = "failed" => flow[i].st # "succeeded" /\ (run[i].at = "last" \/ flow[i].st \in Terminal)
    BY <1>4 DEF Read, Verdict
  <2>2. place \in Steps
    BY DEF Steps, Ended
  <2>3. run'[i].at = place /\ run'[i].apart = run[i].apart
    BY <2>1, <2>2, GoesEffect
  <2>4. run[i].at \in {"back", "poll", "last"} /\ UNCHANGED flow
    BY <1>4 DEF Read
  <2>5. Onward(run[i], run'[i])
    BY <2>3, <2>4 DEF Onward
  <2>6. Sound(i, run'[i], flow[i])
    BY <1>0, <2>1, <2>3, <2>4 DEF Sound
  <2> QED BY <1>1, <2>1, <2>2, <2>4, <2>5, <2>6
<1>5. CASE Deadline(i)
  <2>1. run[i].at = "poll"
    BY <1>5 DEF Deadline
  <2>2. RunMoves(i) /\ run'[i].at = "last" /\ run'[i].apart = run[i].apart
    BY <1>5, GoesEffect DEF Deadline, Steps
  <2>3. PICK lapsed \in BOOLEAN : Cancelled(i, lapsed)
    BY <1>5 DEF Deadline
  <2>4. /\ FlowMoves(i)
        /\ flow'[i].st = flow[i].st \/ (flow[i].st # "succeeded" /\ ~flow[i].exec /\ flow'[i].st = "cancelled")
        /\ flow'[i].cancel <=> flow[i].st # "succeeded"
        /\ flow'[i].node = flow[i].node /\ flow'[i].exec = flow[i].exec
    BY <2>3, CancelledEffect
  <2> QED BY <1>0, <2>1, <2>2, <2>4 DEF Local, Onward, Sound
<1>6. CASE Graph(i) \/ Delegated(i) \/ Close(i)
  <2>1. PICK place \in {"after", "closing", "succeeded", "failed"} : 
             Goes(i, place) /\ (place = "succeeded" <=> run[i].at = "closing")
    BY <1>6 DEF Graph, Delegated, Close
  <2>2. place \in Steps
    BY DEF Steps, Ended
  <2>3. run'[i].at = place /\ run'[i].apart = run[i].apart
    BY <2>1, <2>2, GoesEffect
  <2>4. run[i].at \in {"graph", "after", "await", "closing"} /\ UNCHANGED flow
    BY <1>6 DEF Graph, Delegated, Close
  <2>5. Onward(run[i], run'[i])
    BY <2>3, <2>4 DEF Onward
  <2>6. Sound(i, run'[i], flow[i])
    BY <1>0, <2>1, <2>3, <2>4 DEF Sound
  <2> QED BY <1>1, <2>1, <2>2, <2>4, <2>5, <2>6
<1>7. CASE RunRejected(i)
  <2>1. PICK end \in {"failed", "lost"} : GoesApart(i, end, "rejected")
    BY <1>7 DEF RunRejected
  <2>2. end \in Steps /\ "rejected" \in Why
    BY DEF Steps, Ended, Why
  <2>3. RunMoves(i) /\ run'[i].at = end /\ run'[i].apart = "rejected"
    BY <2>1, <2>2, GoesApartEffect
  <2>4. run[i].at \notin {"free", "succeeded"} /\ UNCHANGED flow
    BY <1>7 DEF RunRejected
  <2> QED BY <1>0, <2>3, <2>4 DEF Local, Onward, Sound, FlowMoves
<1> QED BY <1>2, <1>3, <1>4, <1>5, <1>6, <1>7

\* The steps of a workflow run that start no agent, also when somebody else takes
\* it up or cancels it.
LEMMA FlowStepLocal ==
    ASSUME TypeOK, NestInv, NEW i \in Level,
           \/ NodeDone(i) \/ Finish(i) \/ NodeTimeout(i) \/ RunTimeout(i) \/ Abort(i) \/ Missed(i)
           \/ Recovery(i) \/ FlowRejected(i) \/ UserCancels(i) \/ UserResumes(i)
           \/ (flow[i].exec /\ Ends(i, "interrupted"))
    PROVE  Local(i)
<1>0. /\ run \in [Level -> RunRec] /\ flow \in [Level -> FlowRec]
      /\ Sound(i, run[i], flow[i])
  BY DEF TypeOK, RunRec, Why, FlowRec, FlowStatus, NestInv
<1>1. flow[i].exec => flow[i].st = "running" /\ run[i].at \in Steps
  BY <1>0 DEF Sound, RunRec, Steps, Ended
<1>2. UNCHANGED run => RunMoves(i) /\ Onward(run[i], run'[i])
  BY <1>0 DEF RunMoves, Onward
<1>3. ASSUME NEW st \in {"failed", "interrupted", "cancelled", "succeeded"}, flow[i].exec, Ends(i, st),
             st = "succeeded" => flow[i].node = "done" /\ ~flow[i].cancel
      PROVE  Local(i)
  <2>1. st \in FlowStatus
    BY DEF FlowStatus, Terminal
  <2>2. /\ FlowMoves(i)
        /\ flow'[i].st = IF flow[i].cancel THEN "cancelled" ELSE st
        /\ ~flow'[i].exec /\ flow'[i].node = flow[i].node /\ flow'[i].cancel = flow[i].cancel
    BY <1>3, <2>1, EndsEffect
  <2>3. /\ RunMoves(i) /\ run'[i].apart = run[i].apart
        /\ run'[i].at = IF run[i].at = "inline" THEN "back" ELSE run[i].at
    BY <1>1, <1>3, ReturnsEffect DEF Ends
  <2>4. flow'[i].st \in Terminal
    BY <2>2 DEF Terminal
  <2>5. Sound(i, run'[i], flow'[i])
    BY <1>0, <1>1, <1>3, <2>2, <2>3, <2>4 DEF Sound, Terminal
  <2>6. Onward(run[i], run'[i])
    BY <2>3 DEF Onward
  <2> QED BY <1>1, <1>3, <2>2, <2>3, <2>5, <2>6 DEF Local
<1>4. CASE NodeDone(i)
  <2>1. CASE Ends(i, "failed")
    BY <1>3, <1>4, <2>1 DEF NodeDone
  <2>2. CASE run[i + 1].at = "succeeded" /\ flow' = [flow EXCEPT ![i].node = "done"] /\ UNCHANGED run
    <3>1. /\ FlowMoves(i) /\ flow'[i].st = flow[i].st /\ flow'[i].exec = flow[i].exec
          /\ flow'[i].node = "done" /\ flow'[i].cancel = flow[i].cancel
      BY <2>2, NodeEffect
    <3>2. flow[i].exec /\ flow[i].node = "child"
      BY <1>4 DEF NodeDone
    <3>3. Sound(i, run'[i], flow'[i])
      BY <1>0, <2>2, <3>1, <3>2 DEF Sound
    <3> QED BY <1>1, <1>2, <2>2, <3>1, <3>2, <3>3 DEF Local
  <2> QED BY <1>4, <2>1, <2>2 DEF NodeDone
<1>5. ASSUME flow[i].exec, flow' = [flow EXCEPT ![i].exec = FALSE],
             RunMoves(i), Onward(run[i], run'[i]),
             \/ run'[i].at = run[i].at /\ run'[i].apart = run[i].apart
             \/ run[i].at = "inline" /\ run'[i].at = "back"
             \/ run[i].at = "inline" /\ run'[i].at = "failed" /\ run'[i].apart = "rejected"
      PROVE  Local(i)
  <2>1. /\ FlowMoves(i) /\ flow'[i].st = flow[i].st /\ ~flow'[i].exec
        /\ flow'[i].node = flow[i].node /\ flow'[i].cancel = flow[i].cancel
    BY <1>5, ExecEffect
  <2>2. Sound(i, run'[i], flow'[i])
    BY <1>0, <1>1, <1>5, <2>1 DEF Sound
  <2> QED BY <1>1, <1>5, <2>1, <2>2 DEF Local
<1>6. CASE Missed(i)
  <2>1. flow[i].exec /\ flow' = [flow EXCEPT ![i].exec = FALSE] /\ Returns(i, "back")
    BY <1>6 DEF Missed
  <2>2. /\ RunMoves(i) /\ run'[i].apart = run[i].apart
        /\ run'[i].at = IF run[i].at = "inline" THEN "back" ELSE run[i].at
    BY <1>1, <2>1, ReturnsEffect
  <2>3. Onward(run[i], run'[i])
    BY <2>2 DEF Onward
  <2> QED BY <1>5, <2>1, <2>2, <2>3
<1>7. CASE FlowRejected(i)
  <2>1. CASE Ends(i, "failed")
    BY <1>3, <1>7, <2>1 DEF FlowRejected
  <2>2. CASE flow' = [flow EXCEPT ![i].exec = FALSE] /\ UNCHANGED run
    BY <1>2, <1>5, <1>7, <2>2 DEF FlowRejected
  <2>3. CASE /\ flow' = [flow EXCEPT ![i].exec = FALSE]
             /\ run[i].at = "inline" /\ GoesApart(i, "failed", "rejected")
    <3>1. RunMoves(i) /\ run'[i].at = "failed" /\ run'[i].apart = "rejected"
      BY <2>3, GoesApartEffect DEF Steps, Ended, Why
    <3>2. Onward(run[i], run'[i])
      BY <2>3, <3>1 DEF Onward
    <3> QED BY <1>5, <1>7, <2>3, <3>1, <3>2 DEF FlowRejected
  <2> QED BY <1>7, <2>1, <2>2, <2>3 DEF FlowRejected
<1>8. ASSUME flow[i].st # "none", UNCHANGED run, NEW seen \in BOOLEAN, flow' = [flow EXCEPT ![i].seen = seen]
      PROVE  Local(i)
  <2>1. /\ FlowMoves(i) /\ flow'[i].st = flow[i].st /\ flow'[i].exec = flow[i].exec
        /\ flow'[i].node = flow[i].node /\ flow'[i].cancel = flow[i].cancel
    BY <1>8, SeenEffect
  <2>2. Sound(i, run'[i], flow'[i])
    BY <1>0, <1>8, <2>1 DEF Sound
  <2> QED BY <1>2, <1>8, <2>1, <2>2 DEF Local
<1>9. ASSUME Claimable(i), Claim(i), Again(i)
      PROVE  Local(i)
  <2>1. /\ FlowMoves(i)
        /\ flow'[i].st = "running" /\ flow'[i].exec /\ flow'[i].cancel = flow[i].cancel
        /\ flow'[i].node = IF flow[i].node = "child" THEN "none" ELSE flow[i].node
    BY <1>9, ClaimEffect
  <2>2. /\ RunMoves(i) /\ run'[i].at = run[i].at
        /\ run[i].at = "failed" => run'[i].apart # "no"
    BY <1>9, AgainEffect
  <2>3. Sound(i, run'[i], flow'[i])
    BY <1>0, <1>9, <2>1, <2>2 DEF Sound, Claimable
  <2>4. Onward(run[i], run'[i])
    BY <2>2 DEF Onward
  <2> QED BY <1>9, <2>1, <2>2, <2>3, <2>4 DEF Local, Claimable
<1>10. CASE Recovery(i)
  <2>1. CASE Select(i)
    BY <1>8, <2>1 DEF Select
  <2>2. CASE Scan(i) /\ Claimable(i)
    BY <1>9, <2>2 DEF Scan
  <2>3. CASE Scan(i) /\ ~Claimable(i)
    <3>1. flow' = [flow EXCEPT ![i].seen = FALSE] /\ UNCHANGED run
      BY <2>3 DEF Scan
    <3>2. /\ FlowMoves(i) /\ flow'[i].st = flow[i].st /\ flow'[i].exec = flow[i].exec
          /\ flow'[i].node = flow[i].node /\ flow'[i].cancel = flow[i].cancel
      BY <3>1, SeenEffect
    <3>3. Sound(i, run'[i], flow'[i])
      BY <1>0, <3>1, <3>2 DEF Sound
    <3> QED BY <1>2, <3>1, <3>2, <3>3 DEF Local
  <2> QED BY <1>10, <2>1, <2>2, <2>3 DEF Recovery
<1>11. CASE UserCancels(i)
  <2>1. PICK lapsed \in BOOLEAN : Cancelled(i, lapsed)
    BY <1>11 DEF UserCancels
  <2>2. /\ FlowMoves(i)
        /\ flow'[i].st = flow[i].st \/ (flow[i].st # "succeeded" /\ ~flow[i].exec /\ flow'[i].st = "cancelled")
        /\ flow'[i].cancel <=> flow[i].st # "succeeded"
        /\ flow'[i].node = flow[i].node /\ flow'[i].exec = flow[i].exec
    BY <2>1, CancelledEffect
  <2>3. flow[i].st \notin {"none", "succeeded"} /\ UNCHANGED run
    BY <1>11 DEF UserCancels
  <2>4. Sound(i, run'[i], flow'[i])
    BY <1>0, <2>2, <2>3 DEF Sound, Terminal
  <2> QED BY <1>2, <2>2, <2>3, <2>4 DEF Local
<1>12. CASE UserResumes(i)
  BY <1>9, <1>12 DEF UserResumes
<1>13. CASE Finish(i) \/ NodeTimeout(i) \/ RunTimeout(i) \/ Abort(i) \/ (flow[i].exec /\ Ends(i, "interrupted"))
  BY <1>3, <1>13 DEF Finish, NodeTimeout, RunTimeout, Abort
<1> QED BY <1>4, <1>6, <1>7, <1>10, <1>11, <1>12, <1>13
-----------------------------------------------------------------------------
(* A run begins.                                                           *)

\* Run i starts run i + 1 and is at place from then on, its node at node.
Spawns(i, place, node, a, depth, skip) ==
    /\ run' \in [Level -> RunRec] /\ flow' \in [Level -> FlowRec]
    /\ \A j \in Level \ {i, i + 1} : run'[j] = run[j]
    /\ \A j \in Level \ {i} : flow'[j] = flow[j]
    /\ run'[i].at = place /\ run'[i].agent = run[i].agent /\ run'[i].depth = run[i].depth
    /\ run'[i].skip = run[i].skip /\ run'[i].apart = run[i].apart
    /\ flow'[i].st = flow[i].st /\ flow'[i].exec = flow[i].exec
    /\ flow'[i].node = node /\ flow'[i].cancel = flow[i].cancel
    /\ run'[i + 1].at = "begin" /\ run'[i + 1].agent = a /\ run'[i + 1].depth = depth
    /\ run'[i + 1].skip = skip

\* The list of agents to skip grows, or the depth does.
LEMMA SpawnKeeps ==
    ASSUME TypeOK, NestInv, NEW i \in Level, i < MaxLevel, run[i + 1].at = "free",
           NEW a \in Agent, NEW depth \in 0 .. 1, NEW skip \in SUBSET Workflows,
           NEW place, NEW node, Spawns(i, place, node, a, depth, skip),
           Sound(i, run'[i], flow'[i]), place \notin {"free", "begin", "graph"}, run[i].at # "free",
           run[i].at = "succeeded" => place = "succeeded", node = "done" => flow[i].node = "done",
           i + 1 <= 2 * Cardinality(skip) + 1 + depth
    PROVE  NestInv'
<1>0. /\ i + 1 \in Level /\ i + 1 # i /\ i \in Nat
      /\ run' \in [Level -> RunRec] /\ flow' \in [Level -> FlowRec]
  BY AgentRunsAssumption DEF Level, Spawns
<1>1. ASSUME NEW j \in Level PROVE Sound(j, run'[j], flow'[j]) /\ Placed(j, run'[j], flow'[j])
  <2>0. Sound(j, run[j], flow[j]) /\ Placed(j, run[j], flow[j])
    BY DEF NestInv
  <2>1. CASE j = i
    BY <2>0, <2>1 DEF Spawns, Placed
  <2>2. CASE j = i + 1
    <3>1. flow'[j] = flow[j] /\ run'[j].at = "begin" /\ run[j].at = "free"
      BY <1>0, <2>2 DEF Spawns
    <3>2. flow[j].st = "none" /\ Sound(j, run'[j], flow'[j])
      BY <2>0, <3>1 DEF Sound
    <3> QED BY <2>2, <3>1, <3>2 DEF Spawns, Placed
  <2>3. CASE j \notin {i, i + 1}
    BY <2>0, <2>3 DEF Spawns
  <2> QED BY <2>1, <2>2, <2>3
<1>2. ASSUME NEW j \in 1 .. MaxLevel - 1 PROVE Linked(run'[j], flow'[j], run'[j + 1])
  <2>0. j \in Level /\ j + 1 \in Level /\ j # j + 1 /\ Linked(run[j], flow[j], run[j + 1])
    BY AgentRunsAssumption DEF NestInv, Level
  <2>1. CASE j = i
    BY <2>0, <2>1 DEF Spawns, Linked
  <2>2. CASE j = i + 1
    <3>1. run'[j].at = "begin" /\ flow'[j] = flow[j] /\ run[j].at = "free" /\ run'[j + 1] = run[j + 1]
      BY <1>0, <2>0, <2>2 DEF Spawns, Level
    <3> QED BY <2>0, <3>1 DEF Linked
  <2>3. CASE j + 1 = i
    <3>1. run'[j] = run[j] /\ flow'[j] = flow[j] /\ run'[i].at = place
      BY <2>0, <2>3 DEF Spawns, Level
    <3>2. run[j].at \notin {"free", "begin", "graph"} /\ (flow[j].node = "done" => run[i].at = "succeeded")
      BY <2>0, <2>3 DEF Linked
    <3> QED BY <2>3, <3>1, <3>2 DEF Linked
  <2>4. CASE j \notin {i, i + 1} /\ j + 1 # i
    BY <1>0, <2>0, <2>4 DEF Spawns, Level
  <2> QED BY <2>1, <2>2, <2>3, <2>4
<1> QED BY <1>1, <1>2 DEF NestInv

\* The records of both actions.
LEMMA SpawnRecords ==
    ASSUME run \in [Level -> RunRec], NEW i \in Level, i < MaxLevel, NEW r \in RunRec, NEW s \in RunRec,
           run' = [run EXCEPT ![i] = r, ![i + 1] = s]
    PROVE  /\ run' \in [Level -> RunRec]
           /\ run'[i] = r /\ run'[i + 1] = s
           /\ \A j \in Level \ {i, i + 1} : run'[j] = run[j]
BY AgentRunsAssumption DEF Level

\* The agents with a workflow can be counted.
LEMMA FiniteWorkflows ==
    /\ Workflows \subseteq Agent /\ IsFiniteSet(Workflows)
    /\ \A S \in SUBSET Workflows : IsFiniteSet(S) /\ Cardinality(S) \in Nat
BY AgentRunsAssumption, FS_Subset, FS_CardinalityType DEF Workflows

\* A delegation is one level deeper and does not delegate once more.
LEMMA DelegateKeeps ==
    ASSUME TypeOK, NestInv, NEW i \in Level, Delegate(i)
    PROVE  NestInv' /\ BeginsOnce /\ run' \in [Level -> RunRec] /\ flow' \in [Level -> FlowRec]
<1> DEFINE r == [run[i] EXCEPT !.at = "await"]
<1>0. /\ run \in [Level -> RunRec] /\ flow \in [Level -> FlowRec]
      /\ Sound(i, run[i], flow[i]) /\ Placed(i, run[i], flow[i])
      /\ run[i].at = "graph" /\ i < MaxLevel /\ run[i].depth = 0 /\ UNCHANGED flow
  BY DEF TypeOK, RunRec, Why, FlowRec, FlowStatus, NestInv, Delegate
<1>1. PICK a \in Subs[run[i].agent] :
         run' = [run EXCEPT ![i].at = "await", ![i + 1] = NewRun(a, 1, run[i].skip)]
  BY DEF Delegate
<1>2. /\ run[i].agent \in Agent /\ run[i].skip \in SUBSET Workflows
      /\ i <= 2 * Cardinality(run[i].skip) + 1
  <2>1. /\ run[i].agent \in Agent /\ run[i].skip \in SUBSET Workflows
        /\ i <= 2 * Cardinality(run[i].skip) + 1 + 0
    BY <1>0 DEF Placed
  <2>2. Cardinality(run[i].skip) \in Nat
    BY <2>1, FiniteWorkflows
  <2> QED BY <2>1, <2>2
<1>3. a \in Agent /\ run[i].skip \in SUBSET Agent
  BY <1>1, <1>2, AgentRunsAssumption, FiniteWorkflows
<1> DEFINE s == NewRun(a, 1, run[i].skip)
<1>4. s \in RunRec /\ s.at = "begin" /\ s.agent = a /\ s.depth = 1 /\ s.skip = run[i].skip
  BY <1>3 DEF NewRun, RunRec, Why
<1>5. /\ r \in RunRec /\ r.at = "await" /\ r.agent = run[i].agent /\ r.depth = run[i].depth
      /\ r.skip = run[i].skip /\ r.apart = run[i].apart
  BY <1>0, Moved DEF Steps
<1>6. run' = [run EXCEPT ![i] = r, ![i + 1] = s]
  BY <1>0, <1>1
<1> HIDE DEF r, s
<1>7. /\ run' \in [Level -> RunRec] /\ run'[i] = r /\ run'[i + 1] = s
      /\ \A j \in Level \ {i, i + 1} : run'[j] = run[j]
  BY <1>0, <1>4, <1>5, <1>6, SpawnRecords
<1>8. Spawns(i, "await", flow[i].node, a, 1, run[i].skip)
  BY <1>0, <1>4, <1>5, <1>7 DEF Spawns
<1>9. run[i + 1].at = "free"
  <2>1. i \in 1 .. MaxLevel - 1
    BY <1>0, AgentRunsAssumption DEF Level
  <2> QED BY <1>0, <2>1 DEF NestInv, Linked
<1>10. Sound(i, run'[i], flow'[i])
  BY <1>0, <1>5, <1>7 DEF Sound
<1>11. i + 1 <= 2 * Cardinality(run[i].skip) + 1 + 1
  BY <1>2, FiniteWorkflows DEF Level
<1>12. NestInv'
  BY <1>0, <1>2, <1>3, <1>8, <1>9, <1>10, <1>11, SpawnKeeps
<1>13. BeginsOnce
  BY <1>0, <1>5, <1>7, <1>9 DEF BeginsOnce
<1> QED BY <1>0, <1>7, <1>12, <1>13

\* An agent node adds its own agent to the list, which had not got it yet.
LEMMA StartNodeKeeps ==
    ASSUME TypeOK, NestInv, NEW i \in Level, StartNode(i), Fresh(i)
    PROVE  NestInv' /\ BeginsOnce /\ run' \in [Level -> RunRec] /\ flow' \in [Level -> FlowRec]
<1>0. /\ run \in [Level -> RunRec] /\ flow \in [Level -> FlowRec]
      /\ Sound(i, run[i], flow[i]) /\ Placed(i, run[i], flow[i])
      /\ i < MaxLevel /\ flow[i].exec /\ flow[i].node = "none" /\ run[i + 1].at = "free"
      /\ flow' = [flow EXCEPT ![i].node = "child"]
      /\ run' = [run EXCEPT ![i + 1] = NewRun(Target[run[i].agent], 0, Skip(i))]
  BY DEF TypeOK, RunRec, Why, FlowRec, FlowStatus, NestInv, StartNode, Fresh
<1>1. flow[i].st = "running" /\ run[i].at \notin {"free", "begin", "graph"}
  BY <1>0 DEF Sound
<1>2. /\ run[i].agent \in Agent /\ run[i].skip \subseteq Workflows
      /\ Target[run[i].agent] # None /\ run[i].agent \notin run[i].skip
      /\ i <= 2 * Cardinality(run[i].skip) + 1 + run[i].depth
  BY <1>0, <1>1 DEF Placed
<1> DEFINE a == Target[run[i].agent]
           s == NewRun(a, 0, Skip(i))
<1>3. a \in Agent /\ Skip(i) \in SUBSET Workflows /\ Skip(i) \in SUBSET Agent
  BY <1>2, AgentRunsAssumption, FiniteWorkflows DEF Skip, Workflows
<1>4. s \in RunRec /\ s.at = "begin" /\ s.agent = a /\ s.depth = 0 /\ s.skip = Skip(i)
  BY <1>3 DEF NewRun, RunRec, Why
<1>5. run' = [run EXCEPT ![i] = run[i], ![i + 1] = s]
  BY <1>0
<1> HIDE DEF s
<1>6. /\ run' \in [Level -> RunRec] /\ run'[i] = run[i] /\ run'[i + 1] = s
      /\ \A j \in Level \ {i, i + 1} : run'[j] = run[j]
  BY <1>0, <1>4, <1>5, AgentRunsAssumption DEF Level
<1>7. /\ flow' \in [Level -> FlowRec] /\ \A j \in Level \ {i} : flow'[j] = flow[j]
      /\ flow'[i].st = flow[i].st /\ flow'[i].exec = flow[i].exec
      /\ flow'[i].node = "child" /\ flow'[i].cancel = flow[i].cancel
  BY <1>0, NodeEffect DEF FlowMoves
<1>8. Spawns(i, run[i].at, "child", a, 0, Skip(i))
  BY <1>4, <1>6, <1>7 DEF Spawns
<1>9. Sound(i, run'[i], flow'[i])
  BY <1>0, <1>1, <1>6, <1>7 DEF Sound
<1>10. i + 1 <= 2 * Cardinality(Skip(i)) + 1 + 0
  <2>1. Cardinality(Skip(i)) = Cardinality(run[i].skip) + 1
    BY <1>2, FiniteWorkflows, FS_AddElement DEF Skip
  <2>2. run[i].depth \in 0 .. 1 /\ Cardinality(run[i].skip) \in Nat
    BY <1>0, <1>2, FiniteWorkflows DEF RunRec
  <2> QED BY <1>2, <2>1, <2>2 DEF Level
<1>11. NestInv'
  BY <1>0, <1>1, <1>3, <1>8, <1>9, <1>10, SpawnKeeps
<1>12. BeginsOnce
  BY <1>0, <1>6 DEF BeginsOnce
<1> QED BY <1>6, <1>7, <1>11, <1>12

\* The process dies: its runs are lost, and its executors.
LEMMA CrashKeeps ==
    ASSUME TypeOK, NestInv, Crash
    PROVE  NestInv' /\ BeginsOnce /\ run' \in [Level -> RunRec] /\ flow' \in [Level -> FlowRec]
<1> DEFINE r(i) == IF run[i].at \in Ended \cup {"free"} THEN run[i] ELSE [run[i] EXCEPT !.at = "lost"]
           e(i) == [flow[i] EXCEPT !.exec = FALSE]
           f(i) == [e(i) EXCEPT !.seen = FALSE]
<1>0. run \in [Level -> RunRec] /\ flow \in [Level -> FlowRec]
  BY DEF TypeOK, RunRec, Why, FlowRec, FlowStatus
<1>1. ASSUME NEW i \in Level
      PROVE  /\ r(i) \in RunRec
             /\ r(i).at = IF run[i].at \in Ended \cup {"free"} THEN run[i].at ELSE "lost"
             /\ r(i).agent = run[i].agent /\ r(i).depth = run[i].depth
             /\ r(i).skip = run[i].skip /\ r(i).apart = run[i].apart
  BY <1>0, Moved DEF Steps
<1>2. ASSUME NEW i \in Level
      PROVE  /\ f(i) \in FlowRec /\ f(i).st = flow[i].st /\ ~f(i).exec
             /\ f(i).node = flow[i].node /\ f(i).cancel = flow[i].cancel
  <2>1. e(i) \in FlowRec /\ e(i).st = flow[i].st /\ ~e(i).exec /\ e(i).node = flow[i].node
        /\ e(i).cancel = flow[i].cancel
    BY <1>0, ExecField
  <2> HIDE DEF e
  <2> QED BY <2>1, SeenField
<1>3. run' = [i \in Level |-> r(i)]
  BY DEF Crash
<1>4. flow' = [i \in Level |-> f(i)]
  BY DEF Crash
<1> HIDE DEF r, f, e
<1>5. run' \in [Level -> RunRec] /\ flow' \in [Level -> FlowRec]
  BY <1>1, <1>2, <1>3, <1>4
<1>6. \A i \in Level : run'[i] = r(i) /\ flow'[i] = f(i)
  BY <1>3, <1>4
<1>7. ASSUME NEW i \in Level PROVE Sound(i, run'[i], flow'[i]) /\ Placed(i, run'[i], flow'[i])
  <2>1. Sound(i, run[i], flow[i]) /\ Placed(i, run[i], flow[i])
    BY DEF NestInv
  <2> QED BY <1>1, <1>2, <1>6, <2>1 DEF Sound, Placed, Ended
<1>8. ASSUME NEW i \in 1 .. MaxLevel - 1 PROVE Linked(run'[i], flow'[i], run'[i + 1])
  <2>1. Linked(run[i], flow[i], run[i + 1]) /\ i \in Level /\ i + 1 \in Level
    BY AgentRunsAssumption DEF NestInv, Level
  <2> QED BY <1>1, <1>2, <1>6, <2>1 DEF Linked, Ended
<1>9. BeginsOnce
  BY <1>1, <1>6 DEF BeginsOnce, Ended
<1> QED BY <1>5, <1>7, <1>8, <1>9 DEF NestInv
-----------------------------------------------------------------------------
(* All steps.                                                              *)

\* One run begins.
LEMMA NestInit == Init => TypeOK /\ NestInv
<1> SUFFICES ASSUME Init PROVE TypeOK /\ NestInv
  OBVIOUS
<1>1. PICK a \in Agent : run = [i \in Level |-> IF i = 1 THEN NewRun(a, 0, {}) ELSE NoRun]
  BY DEF Init
<1> DEFINE first == NewRun(a, 0, {})
<1>2. /\ first \in RunRec /\ first.at = "begin" /\ first.agent = a /\ first.depth = 0 /\ first.skip = {}
      /\ NoRun \in RunRec /\ NoRun.at = "free"
  BY DEF NewRun, NoRun, RunRec, Why
<1>3. NoFlow \in FlowRec /\ NoFlow.st = "none" /\ ~NoFlow.exec /\ NoFlow.node = "none"
  BY DEF NoFlow, FlowRec, FlowStatus
<1> HIDE DEF first
<1>4. \A i \in Level : run[i] = (IF i = 1 THEN first ELSE NoRun) /\ flow[i] = NoFlow
  BY <1>1 DEF Init, first
<1>5. run \in [Level -> RunRec] /\ flow \in [Level -> FlowRec]
  BY <1>1, <1>2, <1>3 DEF Init, first
<1>6. Cardinality({}) = 0
  BY FS_EmptySet
<1>7. ASSUME NEW i \in Level PROVE Sound(i, run[i], flow[i]) /\ Placed(i, run[i], flow[i])
  <2>1. CASE i = 1
    <3>1. Placed(i, first, NoFlow)
      BY <1>2, <1>3, <1>6, <2>1 DEF Placed
    <3> QED BY <1>2, <1>3, <1>4, <2>1, <3>1 DEF Sound
  <2>2. CASE i # 1
    BY <1>2, <1>3, <1>4, <2>2 DEF Sound, Placed
  <2> QED BY <2>1, <2>2
<1>8. ASSUME NEW i \in 1 .. MaxLevel - 1 PROVE Linked(run[i], flow[i], run[i + 1])
  <2>1. i \in Level /\ i + 1 \in Level /\ i + 1 # 1
    BY AgentRunsAssumption DEF Level
  <2> QED BY <1>2, <1>3, <1>4, <2>1 DEF Linked
<1>9. TypeOK
  BY <1>5, AgentRunsAssumption DEF TypeOK, Init, RunRec, Why, FlowRec, FlowStatus
<1> QED BY <1>7, <1>8, <1>9 DEF NestInv

\* Each step of a run or a workflow is local or begins one run; a crash is neither.
LEMMA NestNext == TypeOK /\ NestInv /\ [Next]_vars => (TypeOK /\ NestInv)' /\ (BeginsOnce \/ UNCHANGED vars)
<1> SUFFICES ASSUME TypeOK, NestInv, [Next]_vars
             PROVE  (TypeOK /\ NestInv)' /\ (BeginsOnce \/ UNCHANGED vars)
  OBVIOUS
<1>1. CASE Next
  <2>1. NestInv' /\ BeginsOnce /\ run' \in [Level -> RunRec] /\ flow' \in [Level -> FlowRec]
    <3>1. CASE Crash
      BY <3>1, CrashKeeps
    <3>2. ASSUME NEW i \in Level, RunStep(i)
          PROVE  NestInv' /\ BeginsOnce /\ run' \in [Level -> RunRec] /\ flow' \in [Level -> FlowRec]
      BY <3>2, RunStepLocal, DelegateKeeps, LocalKeeps DEF RunStep
    <3>3. ASSUME NEW i \in Level, FlowStep(i) \/ Recovery(i)
          PROVE  NestInv' /\ BeginsOnce /\ run' \in [Level -> RunRec] /\ flow' \in [Level -> FlowRec]
      <4>1. CASE StartNode(i)
        <5>1. CASE Fresh(i)
          BY <4>1, <5>1, StartNodeKeeps
        <5>2. CASE ~Fresh(i)
          <6>1. flow[i].exec /\ Ends(i, "interrupted")
            BY <4>1, <5>2 DEF StartNode
          <6> QED BY <6>1, FlowStepLocal, LocalKeeps
        <5> QED BY <5>1, <5>2
      <4>2. CASE ~StartNode(i)
        BY <3>3, <4>2, FlowStepLocal, LocalKeeps DEF FlowStep
      <4> QED BY <4>1, <4>2
    <3>4. ASSUME NEW i \in Level, Faulty(i)
          PROVE  NestInv' /\ BeginsOnce /\ run' \in [Level -> RunRec] /\ flow' \in [Level -> FlowRec]
      BY <3>4, RunStepLocal, FlowStepLocal, LocalKeeps DEF Faulty
    <3> QED BY <1>1, <3>1, <3>2, <3>3, <3>4 DEF Next
  <2>2. autoRecover' \in BOOLEAN /\ faults' \in 0 .. MaxFaults
    <3>1. \/ Kept
          \/ Fault
      BY <1>1 DEF Next, Crash, RunStep, FlowStep, Recovery, Faulty, Begin, Start, Read, Deadline, Graph,
             Delegate, Delegated, Close, StartNode, NodeDone, Finish, NodeTimeout, RunTimeout, Abort, Missed,
             Select, Scan, RunRejected, FlowRejected, UserCancels, UserResumes
    <3> QED BY <3>1, AgentRunsAssumption DEF Kept, Fault, TypeOK
  <2> QED BY <2>1, <2>2 DEF TypeOK, RunRec, Why, FlowRec, FlowStatus
<1>2. CASE UNCHANGED vars
  BY <1>2 DEF vars, TypeOK, NestInv
<1> QED BY <1>1, <1>2

\* Together.
LEMMA NestAlways == Spec => [](TypeOK /\ NestInv)
BY NestInit, NestNext, PTL DEF Spec

\* Runs, workflow runs and faults keep their types, at any depth.
THEOREM TypeCorrect == Spec => []TypeOK
BY NestAlways, PTL

\* executeAgentRun, runAgentWorkflow and the agent node of the engine: with the
\* list of agents whose workflow is skipped and the depth limit of a delegation,
\* no nest is deeper than two runs for each agent with a workflow, and two more.
THEOREM NestingBoundedCorrect == Spec => []NestingBounded
<1>1. TypeOK /\ NestInv => NestingBounded
  <2> SUFFICES ASSUME TypeOK, NestInv, NEW i \in Level, run[i].at # "free"
               PROVE  i <= 2 * Cardinality(Workflows) + 2
    BY DEF NestingBounded
  <2>1. run[i].skip \subseteq Workflows /\ i <= 2 * Cardinality(run[i].skip) + 1 + run[i].depth
    BY DEF NestInv, Placed
  <2>2. /\ Cardinality(run[i].skip) <= Cardinality(Workflows)
        /\ Cardinality(run[i].skip) \in Nat /\ Cardinality(Workflows) \in Nat
    BY <2>1, FiniteWorkflows, FS_Subset
  <2>3. run[i].depth \in 0 .. 1
    BY DEF TypeOK
  <2> QED BY <2>1, <2>2, <2>3 DEF Level
<1> QED BY <1>1, NestAlways, PTL

\* runBoundWorkflowIfNeeded and the end of executeAgentRun, with their catch:
\* whatever executes the workflow, whoever cancels or resumes it when, and
\* whichever query is rejected, a success is reported of a workflow that succeeded
\* and rests on no failure; and what else a workflow came to after its run had
\* failed is due to one of the three reasons that apart names.
THEOREM VerdictAgreesCorrect == Spec => []VerdictAgrees
<1>1. TypeOK /\ NestInv => VerdictAgrees
  <2> SUFFICES ASSUME TypeOK, NestInv, NEW i \in Level, flow[i].st # "none"
               PROVE  /\ run[i].at \in {"closing", "succeeded"} =>
                            flow[i].st = "succeeded" /\ run[i + 1].at = "succeeded"
                      /\ run[i].at = "failed" /\ flow[i].st = "succeeded" => run[i].apart # "no"
    BY DEF VerdictAgrees
  <2>1. Sound(i, run[i], flow[i])
    BY DEF NestInv
  <2>2. ASSUME run[i].at \in {"closing", "succeeded"} PROVE flow[i].st = "succeeded" /\ run[i + 1].at = "succeeded"
    <3>1. flow[i].st = "succeeded" /\ flow[i].node = "done" /\ i < MaxLevel
      BY <2>1, <2>2 DEF Sound
    <3>2. Linked(run[i], flow[i], run[i + 1])
      BY <3>1, AgentRunsAssumption DEF NestInv, Level
    <3> QED BY <3>1, <3>2 DEF Linked
  <2>3. run[i].at = "failed" /\ flow[i].st = "succeeded" => run[i].apart # "no"
    BY <2>1 DEF Sound
  <2> QED BY <2>2, <2>3
<1> QED BY <1>1, NestAlways, PTL

\* The ledger of the nodes: however often a workflow is recovered, the agent that
\* its node ran is not run again.
THEOREM NeverRunAgainCorrect == Spec => NeverRunAgain
<1>1. TypeOK /\ NestInv /\ [Next]_vars =>
        [\A i \in Level : run[i].at # "free" => run'[i].at # "begin" \/ run[i].at = "begin"]_vars
  BY NestNext DEF BeginsOnce
<1> QED BY <1>1, NestAlways, PTL DEF Spec, NeverRunAgain
-----------------------------------------------------------------------------
(* The scheduling of one workflow: recursion over sets of nodes.           *)

\* A set of numbers that is not empty has a least.
LEMMA LeastNumber ==
    ASSUME NEW W \in SUBSET Nat, W # {}
    PROVE  \E n \in W : \A m \in W : n <= m
<1>1. IsWellFoundedOn(OpToRel(<, Nat), Nat)
  BY NatLessThanWellFounded
<1>2. PICK n \in W : \A m \in W : <<m, n>> \notin OpToRel(<, Nat)
  BY <1>1, WFMin
<1>3. \A m \in W : ~(m < n)
  BY <1>2 DEF OpToRel
<1> QED BY <1>3

\* A recursion from each x to next[x] that goes down a rank until it stays where it is.
Descends(S, B, rank, next, stop, step) ==
    /\ B \in Nat /\ rank \in [S -> 0 .. B] /\ next \in [S -> S]
    /\ \A x \in S : next[x] # x => rank[next[x]] < rank[x]
    /\ DOMAIN stop = S /\ DOMAIN step = S
Computes(f, S, next, stop, step) ==
    f = [x \in S |-> IF next[x] = x THEN stop[x] ELSE step[x] \cup f[next[x]]]

\* It defines a function.
LEMMA RecursionExists ==
    ASSUME NEW S, NEW B, NEW rank, NEW next, NEW stop, NEW step, Descends(S, B, rank, next, stop, step)
    PROVE  \E f : Computes(f, S, next, stop, step)
<1> USE DEF Descends
<1> DEFINE Fits(f, x) == f[x] = IF next[x] = x THEN stop[x] ELSE step[x] \cup f[next[x]]
           W == {n \in Nat : ~\E f : \A x \in S : rank[x] < n => Fits(f, x)}
<1>1. W = {}
  <2> SUFFICES ASSUME W # {} PROVE FALSE
    OBVIOUS
  <2>1. PICK n \in W : \A m \in W : n <= m
    BY LeastNumber
  <2>2. n # 0
    <3>1. \A x \in S : ~(rank[x] < 0)
      OBVIOUS
    <3> QED BY <3>1, <2>1
  <2>3. n - 1 \in Nat /\ n - 1 \notin W
    <3>1. n \in Nat
      BY <2>1
    <3> HIDE DEF W
    <3> QED BY <2>1, <2>2, <3>1
  <2>4. PICK f : \A x \in S : rank[x] < n - 1 => Fits(f, x)
    BY <2>3
  <2> DEFINE g == [x \in S |-> IF rank[x] < n - 1 THEN f[x]
                               ELSE IF next[x] = x THEN stop[x] ELSE step[x] \cup f[next[x]]]
  <2>5. ASSUME NEW x \in S, rank[x] < n PROVE Fits(g, x)
    <3>1. next[x] \in S /\ rank[x] \in Nat /\ rank[next[x]] \in Nat
      OBVIOUS
    <3>2. next[x] # x => g[next[x]] = f[next[x]]
      BY <2>3, <2>5, <3>1
    <3>3. CASE rank[x] < n - 1
      <4>1. g[x] = f[x]
        BY <3>3
      <4> QED BY <3>3, <3>2, <4>1, <2>4
    <3>4. CASE ~(rank[x] < n - 1)
      BY <3>4, <3>2
    <3> QED BY <3>3, <3>4
  <2> HIDE DEF g
  <2> QED BY <2>1, <2>5
<1>2. PICK f : \A x \in S : rank[x] < B + 1 => Fits(f, x)
  <2>1. B + 1 \in Nat /\ B + 1 \notin W
    <3> HIDE DEF W
    <3> QED BY <1>1
  <2> QED BY <2>1
<1>3. \A x \in S : Fits(f, x)
  <2>1. \A x \in S : rank[x] < B + 1
    OBVIOUS
  <2> QED BY <1>2, <2>1
<1> DEFINE g == [x \in S |-> f[x]]
<1>4. \A x \in S : Fits(g, x)
  BY <1>3
<1>5. g = [x \in S |-> IF next[x] = x THEN stop[x] ELSE step[x] \cup g[next[x]]]
  BY <1>4
<1> QED BY <1>5 DEF Computes

\* The nodes are finitely many.
LEMMA FiniteNodes ==
    /\ IsFiniteSet(Node) /\ Cardinality(Node) = N /\ N \in Nat \ {0}
    /\ \A R \in SUBSET Node : IsFiniteSet(R) /\ Cardinality(R) \in 0 .. N
<1>1. N \in Nat \ {0}
  BY DefinitionAssumption
<1>2. IsFiniteSet(Node) /\ Cardinality(Node) = N
  BY <1>1, FS_Interval DEF Node
<1>3. ASSUME NEW R \in SUBSET Node PROVE IsFiniteSet(R) /\ Cardinality(R) \in 0 .. N
  BY <1>1, <1>2, FS_Subset, FS_CardinalityType
<1> QED BY <1>1, <1>2, <1>3

\* validateDefinition: one round of the loop.
LEMMA LeftDef ==
    ASSUME NEW R \in SUBSET Node
    PROVE  left[R] = IF KahnFree(R) = {} THEN R ELSE left[R \ KahnFree(R)]
<1> DEFINE next == [X \in SUBSET Node |-> X \ KahnFree(X)]
           rank == [X \in SUBSET Node |-> Cardinality(X)]
           stop == [X \in SUBSET Node |-> X]
           step == [X \in SUBSET Node |-> {}]
<1>1. ASSUME NEW X \in SUBSET Node
      PROVE  /\ next[X] \in SUBSET Node /\ rank[X] \in 0 .. N
             /\ next[X] = X <=> KahnFree(X) = {}
             /\ next[X] # X => rank[next[X]] < rank[X]
  <2>1. next[X] \in SUBSET Node /\ rank[X] \in 0 .. N /\ (next[X] = X <=> KahnFree(X) = {})
    BY FiniteNodes DEF KahnFree
  <2>2. next[X] # X => rank[next[X]] < rank[X]
    BY <2>1, FiniteNodes, FS_Subset
  <2> QED BY <2>1, <2>2
<1>2. Descends(SUBSET Node, N, rank, next, stop, step)
  <2>1. rank \in [SUBSET Node -> 0 .. N] /\ next \in [SUBSET Node -> SUBSET Node]
    BY <1>1
  <2>2. \A X \in SUBSET Node : next[X] # X => rank[next[X]] < rank[X]
    BY <1>1
  <2> HIDE DEF rank, next
  <2> QED BY <2>1, <2>2, FiniteNodes DEF Descends
<1> HIDE DEF next, rank, stop, step
<1>3. \E f : Computes(f, SUBSET Node, next, stop, step)
  BY <1>2, RecursionExists
<1>4. PICK f : f = [X \in SUBSET Node |-> IF KahnFree(X) = {} THEN X ELSE f[X \ KahnFree(X)]]
  <2>1. PICK f : f = [X \in SUBSET Node |-> IF next[X] = X THEN stop[X] ELSE step[X] \cup f[next[X]]]
    BY <1>3 DEF Computes
  <2>2. ASSUME NEW X \in SUBSET Node PROVE f[X] = IF KahnFree(X) = {} THEN X ELSE f[X \ KahnFree(X)]
    <3>1. next[X] = X \ KahnFree(X) /\ stop[X] = X /\ step[X] = {}
      BY DEF next, stop, step
    <3>2. f[X] = IF next[X] = X THEN stop[X] ELSE step[X] \cup f[next[X]]
      BY <2>1
    <3>3. next[X] = X <=> KahnFree(X) = {}
      BY <1>1
    <3> QED BY <3>1, <3>2, <3>3
  <2>3. f = [X \in SUBSET Node |-> f[X]]
    BY <2>1
  <2> QED BY <2>2, <2>3
<1>5. left = [X \in SUBSET Node |-> IF KahnFree(X) = {} THEN X ELSE left[X \ KahnFree(X)]]
  BY <1>4 DEF left
<1> QED BY <1>5

\* schedule: one round of the loop.
LEMMA CloseDef ==
    ASSUME NEW R \in SUBSET Node
    PROVE  close[R] = IF Dead(R) = {} THEN R ELSE close[R \cup Dead(R)]
<1> DEFINE next == [X \in SUBSET Node |-> X \cup Dead(X)]
           rank == [X \in SUBSET Node |-> N - Cardinality(X)]
           stop == [X \in SUBSET Node |-> X]
           step == [X \in SUBSET Node |-> {}]
<1>1. ASSUME NEW X \in SUBSET Node
      PROVE  /\ next[X] \in SUBSET Node /\ rank[X] \in 0 .. N
             /\ next[X] = X <=> Dead(X) = {}
             /\ next[X] # X => rank[next[X]] < rank[X]
  <2>1. next[X] \in SUBSET Node /\ rank[X] \in 0 .. N /\ (next[X] = X <=> Dead(X) = {})
    BY FiniteNodes DEF Dead
  <2>2. next[X] # X => rank[next[X]] < rank[X]
    <3>1. SUFFICES ASSUME next[X] # X PROVE Cardinality(X) < Cardinality(next[X])
      BY <2>1, FiniteNodes
    <3>2. X \subseteq next[X] /\ IsFiniteSet(next[X])
      BY <2>1, FiniteNodes
    <3>3. Cardinality(X) \in Nat /\ Cardinality(next[X]) \in Nat
      BY <2>1, FiniteNodes
    <3> HIDE DEF next
    <3>4. Cardinality(X) <= Cardinality(next[X]) /\ (Cardinality(X) = Cardinality(next[X]) => next[X] = X)
      BY <3>2, FS_Subset
    <3> QED BY <3>1, <3>3, <3>4
  <2> QED BY <2>1, <2>2
<1>2. Descends(SUBSET Node, N, rank, next, stop, step)
  <2>1. rank \in [SUBSET Node -> 0 .. N] /\ next \in [SUBSET Node -> SUBSET Node]
    BY <1>1
  <2>2. \A X \in SUBSET Node : next[X] # X => rank[next[X]] < rank[X]
    BY <1>1
  <2> HIDE DEF rank, next
  <2> QED BY <2>1, <2>2, FiniteNodes DEF Descends
<1> HIDE DEF next, rank, stop, step
<1>3. \E f : Computes(f, SUBSET Node, next, stop, step)
  BY <1>2, RecursionExists
<1>4. PICK f : f = [X \in SUBSET Node |-> IF Dead(X) = {} THEN X ELSE f[X \cup Dead(X)]]
  <2>1. PICK f : f = [X \in SUBSET Node |-> IF next[X] = X THEN stop[X] ELSE step[X] \cup f[next[X]]]
    BY <1>3 DEF Computes
  <2>2. ASSUME NEW X \in SUBSET Node PROVE f[X] = IF Dead(X) = {} THEN X ELSE f[X \cup Dead(X)]
    <3>1. next[X] = X \cup Dead(X) /\ stop[X] = X /\ step[X] = {}
      BY DEF next, stop, step
    <3>2. f[X] = IF next[X] = X THEN stop[X] ELSE step[X] \cup f[next[X]]
      BY <2>1
    <3>3. next[X] = X <=> Dead(X) = {}
      BY <1>1
    <3> QED BY <3>1, <3>2, <3>3
  <2>3. f = [X \in SUBSET Node |-> f[X]]
    BY <2>1
  <2> QED BY <2>2, <2>3
<1>5. close = [X \in SUBSET Node |-> IF Dead(X) = {} THEN X ELSE close[X \cup Dead(X)]]
  BY <1>4 DEF close
<1> QED BY <1>5

\* legacyOrder: one layer.
LEMMA OrderedDef ==
    ASSUME NEW R \in SUBSET Node
    PROVE  ordered[R] = IF Free(R) = {} THEN InArrayOrder(R) ELSE Layer(R) \cup ordered[R \ Free(R)]
<1> DEFINE next == [X \in SUBSET Node |-> X \ Free(X)]
           rank == [X \in SUBSET Node |-> Cardinality(X)]
           stop == [X \in SUBSET Node |-> InArrayOrder(X)]
           step == [X \in SUBSET Node |-> Layer(X)]
<1>1. ASSUME NEW X \in SUBSET Node
      PROVE  /\ next[X] \in SUBSET Node /\ rank[X] \in 0 .. N
             /\ next[X] = X <=> Free(X) = {}
             /\ next[X] # X => rank[next[X]] < rank[X]
  <2>1. next[X] \in SUBSET Node /\ rank[X] \in 0 .. N /\ (next[X] = X <=> Free(X) = {})
    BY FiniteNodes DEF Free
  <2>2. next[X] # X => rank[next[X]] < rank[X]
    BY <2>1, FiniteNodes, FS_Subset
  <2> QED BY <2>1, <2>2
<1>2. Descends(SUBSET Node, N, rank, next, stop, step)
  <2>1. rank \in [SUBSET Node -> 0 .. N] /\ next \in [SUBSET Node -> SUBSET Node]
    BY <1>1
  <2>2. \A X \in SUBSET Node : next[X] # X => rank[next[X]] < rank[X]
    BY <1>1
  <2> HIDE DEF rank, next
  <2> QED BY <2>1, <2>2, FiniteNodes DEF Descends
<1> HIDE DEF next, rank, stop, step
<1>3. \E f : Computes(f, SUBSET Node, next, stop, step)
  BY <1>2, RecursionExists
<1>4. PICK f : f = [X \in SUBSET Node |-> IF Free(X) = {} THEN InArrayOrder(X) ELSE Layer(X) \cup f[X \ Free(X)]]
  <2>1. PICK f : f = [X \in SUBSET Node |-> IF next[X] = X THEN stop[X] ELSE step[X] \cup f[next[X]]]
    BY <1>3 DEF Computes
  <2>2. ASSUME NEW X \in SUBSET Node PROVE f[X] = IF Free(X) = {} THEN InArrayOrder(X) ELSE Layer(X) \cup f[X \ Free(X)]
    <3>1. next[X] = X \ Free(X) /\ stop[X] = InArrayOrder(X) /\ step[X] = Layer(X)
      BY DEF next, stop, step
    <3>2. f[X] = IF next[X] = X THEN stop[X] ELSE step[X] \cup f[next[X]]
      BY <2>1
    <3>3. next[X] = X <=> Free(X) = {}
      BY <1>1
    <3> QED BY <3>1, <3>2, <3>3
  <2>3. f = [X \in SUBSET Node |-> f[X]]
    BY <2>1
  <2>4. [X \in SUBSET Node |-> f[X]] = [X \in SUBSET Node |-> IF Free(X) = {} THEN InArrayOrder(X) ELSE Layer(X) \cup f[X \ Free(X)]]
    BY <2>2
  <2>5. f = [X \in SUBSET Node |-> IF Free(X) = {} THEN InArrayOrder(X) ELSE Layer(X) \cup f[X \ Free(X)]]
    BY <2>3, <2>4
  <2> QED BY <2>5
<1>5. ordered = [X \in SUBSET Node |-> IF Free(X) = {} THEN InArrayOrder(X) ELSE Layer(X) \cup ordered[X \ Free(X)]]
  BY <1>4 DEF ordered
<1> QED BY <1>5
-----------------------------------------------------------------------------
\* A family of sets of nodes that is not empty has a smallest member.
LEMMA SmallestSet ==
    ASSUME NEW S, IsFiniteSet(S), NEW W \in SUBSET SUBSET S, W # {}
    PROVE  \E T \in W : \A U \in W : U \subseteq T => U = T
<1>1. IsWellFoundedOn(StrictSubsetOrdering(S), SUBSET S)
  BY FS_StrictSubsetOrderingWellFounded, FS_FiniteSubsetsOfFinite
<1>2. PICK T \in W : \A U \in W : <<U, T>> \notin StrictSubsetOrdering(S)
  BY <1>1, WFMin
<1>3. \A U \in W : U \subseteq T => U = T
  BY <1>2 DEF StrictSubsetOrdering
<1> QED BY <1>3

\* Any nodes have a first and a last one among them.
LEMMA FirstAndLast ==
    ASSUME NEW D \in SUBSET Node, D # {}
    PROVE  /\ \E n \in D : \A m \in D : n <= m
           /\ \E n \in D : \A m \in D : m <= n
<1>1. D \in SUBSET Nat /\ N \in Nat
  BY FiniteNodes DEF Node
<1>2. \E n \in D : \A m \in D : n <= m
  BY <1>1, LeastNumber
<1> DEFINE W == {k \in Nat : \E n \in D : k = N - n}
<1>3. W # {} /\ W \in SUBSET Nat
  <2>1. PICK n \in D : TRUE
    OBVIOUS
  <2>2. n \in 1 .. N
    BY DEF Node
  <2>3. N - n \in Nat
    BY <1>1, <2>2
  <2> QED BY <2>3
<1> HIDE DEF W
<1>4. PICK k \in W : \A j \in W : k <= j
  BY <1>3, LeastNumber
<1>5. PICK n \in D : k = N - n
  BY <1>4 DEF W
<1>6. ASSUME NEW m \in D PROVE m <= n
  <2>1. m \in 1 .. N /\ n \in 1 .. N
    BY DEF Node
  <2>2. N - m \in W
    BY <1>1, <2>1 DEF W
  <2>3. k <= N - m
    BY <1>4, <2>2
  <2> QED BY <1>1, <1>5, <2>1, <2>3
<1> QED BY <1>2, <1>6

\* Edges without a cycle: any nodes have one that none of them leads to, and one
\* that leads to none of them.
Acyclic(e) ==
    \A D \in SUBSET Node : D # {} =>
        /\ \E n \in D : \A p \in D : n \notin e[p]
        /\ \E n \in D : \A m \in D : m \notin e[n]

\* validateDefinition: when Kahn's loop visits every node there is no cycle.
LEMMA KahnAcyclic ==
    ASSUME Unvisited = {}
    PROVE  Acyclic(def.next)
<1> DEFINE Ok(D) == /\ \E n \in D : \A p \in D : n \notin def.next[p]
                    /\ \E n \in D : \A m \in D : m \notin def.next[n]
           W == {R \in SUBSET Node : left[R] = {} /\ \E D \in SUBSET R : D # {} /\ ~Ok(D)}
<1>1. W = {}
  <2> SUFFICES ASSUME W # {} PROVE FALSE
    OBVIOUS
  <2>0. W \in SUBSET SUBSET Node
    OBVIOUS
  <2>1. PICK R \in W : \A U \in W : U \subseteq R => U = R
    <3> HIDE DEF W
    <3> QED BY <2>0, FiniteNodes, SmallestSet
  <2>2. PICK D \in SUBSET R : D # {} /\ ~Ok(D)
    BY <2>1
  <2>3. R \in SUBSET Node /\ left[R] = {} /\ R # {}
    BY <2>1, <2>2
  <2>4. KahnFree(R) # {} /\ left[R \ KahnFree(R)] = {}
    BY <2>3, LeftDef
  <2>5. R \ KahnFree(R) \in SUBSET Node /\ R \ KahnFree(R) # R
    BY <2>3, <2>4 DEF KahnFree
  <2>6. \A E \in SUBSET (R \ KahnFree(R)) : E # {} => Ok(E)
    BY <2>1, <2>4, <2>5
  <2>7. \E n \in D : \A p \in D : n \notin def.next[p]
    <3>1. CASE D \cap KahnFree(R) # {}
      BY <3>1, <2>2 DEF KahnFree
    <3>2. CASE D \cap KahnFree(R) = {}
      BY <3>2, <2>2, <2>6
    <3> QED BY <3>1, <3>2
  <2>8. \E n \in D : \A m \in D : m \notin def.next[n]
    <3>0. \A n \in R, m \in KahnFree(R) : m \notin def.next[n]
      BY DEF KahnFree
    <3>1. CASE D \ KahnFree(R) # {}
      <4>1. PICK n \in D \ KahnFree(R) : \A m \in D \ KahnFree(R) : m \notin def.next[n]
        BY <3>1, <2>6
      <4> QED BY <4>1, <3>0, <2>2
    <3>2. CASE D \ KahnFree(R) = {}
      BY <3>0, <3>2, <2>2
    <3> QED BY <3>1, <3>2
  <2> QED BY <2>2, <2>7, <2>8
<1>2. Node \in SUBSET Node /\ left[Node] = {}
  BY DEF Unvisited
<1>3. \A D \in SUBSET Node : D # {} => Ok(D)
  BY <1>1, <1>2
<1> QED BY <1>3 DEF Acyclic

\* legacyOrder: any nodes have one that comes first and one that comes last.
LEMMA LegacyOrders ==
    /\ legacyOrder \subseteq Node \X Node
    /\ \A D \in SUBSET Node : D # {} =>
           /\ \E n \in D : \A p \in D : <<p, n>> \notin legacyOrder
           /\ \E n \in D : \A m \in D : <<n, m>> \notin legacyOrder
<1> DEFINE Ok(R) == /\ ordered[R] \subseteq R \X R
                    /\ \A D \in SUBSET R : D # {} =>
                         /\ \E n \in D : \A p \in D : <<p, n>> \notin ordered[R]
                         /\ \E n \in D : \A m \in D : <<n, m>> \notin ordered[R]
           W == {R \in SUBSET Node : ~Ok(R)}
<1>1. W = {}
  <2> SUFFICES ASSUME W # {} PROVE FALSE
    OBVIOUS
  <2>0. W \in SUBSET SUBSET Node
    OBVIOUS
  <2>1. PICK R \in W : \A U \in W : U \subseteq R => U = R
    <3> HIDE DEF W
    <3> QED BY <2>0, FiniteNodes, SmallestSet
  <2>2. R \in SUBSET Node /\ ~Ok(R)
    BY <2>1
  <2>3. \A E \in SUBSET Node : E # {} =>
           /\ \E n \in E : \A p \in E : <<p, n>> \notin InArrayOrder(R) /\ <<p, n>> \notin InArrayOrder(Free(R))
           /\ \E n \in E : \A m \in E : <<n, m>> \notin InArrayOrder(R) /\ <<n, m>> \notin InArrayOrder(Free(R))
    <3> SUFFICES ASSUME NEW E \in SUBSET Node, E # {}
                 PROVE  /\ \E n \in E : \A p \in E : <<p, n>> \notin InArrayOrder(R) /\ <<p, n>> \notin InArrayOrder(Free(R))
                        /\ \E n \in E : \A m \in E : <<n, m>> \notin InArrayOrder(R) /\ <<n, m>> \notin InArrayOrder(Free(R))
      OBVIOUS
    <3>1. /\ \E n \in E : \A m \in E : n <= m
          /\ \E n \in E : \A m \in E : m <= n
      BY FirstAndLast
    <3>2. \A n, m \in E : n <= m => <<m, n>> \notin InArrayOrder(R) /\ <<m, n>> \notin InArrayOrder(Free(R))
      BY FiniteNodes DEF InArrayOrder, Node
    <3> QED BY <3>1, <3>2
  <2>4. CASE Free(R) = {}
    <3>1. ordered[R] = InArrayOrder(R)
      BY <2>2, <2>4, OrderedDef
    <3>2. ordered[R] \subseteq R \X R
      BY <3>1 DEF InArrayOrder
    <3> QED BY <2>2, <2>3, <3>1, <3>2
  <2>5. CASE Free(R) # {}
    <3> DEFINE F == Free(R)
    <3>0. F \subseteq R /\ R \ F \in SUBSET Node /\ R \ F # R
      BY <2>2, <2>5 DEF Free
    <3>1. ordered[R] = Layer(R) \cup ordered[R \ F]
      BY <2>2, <2>5, OrderedDef
    <3>2. Ok(R \ F)
      BY <2>1, <3>0
    <3>3. Layer(R) = InArrayOrder(F) \cup (F \X (R \ F)) /\ InArrayOrder(F) \subseteq F \X F
      BY DEF Layer, InArrayOrder
    <3> HIDE DEF F
    <3>7. ASSUME NEW a \in R, NEW b \in R
          PROVE  /\ <<a, b>> \in ordered[R] => \/ <<a, b>> \in InArrayOrder(F)
                                               \/ a \in F /\ b \in R \ F
                                               \/ <<a, b>> \in ordered[R \ F]
                 /\ <<a, b>> \in InArrayOrder(F) => a \in F /\ b \in F
                 /\ <<a, b>> \in ordered[R \ F] => a \in R \ F /\ b \in R \ F
      <4>1. <<a, b>> \in F \X (R \ F) => a \in F /\ b \in R \ F
        OBVIOUS
      <4>2. <<a, b>> \in InArrayOrder(F) => a \in F /\ b \in F
        BY <3>3
      <4>3. <<a, b>> \in ordered[R \ F] => a \in R \ F /\ b \in R \ F
        BY <3>2
      <4> QED BY <3>1, <3>3, <4>1, <4>2, <4>3
    <3>4. ordered[R] \subseteq R \X R
      BY <3>0, <3>1, <3>2, <3>3
    <3>5. ASSUME NEW D \in SUBSET R, D # {}
          PROVE  \E n \in D : \A p \in D : <<p, n>> \notin ordered[R]
      <4>1. CASE D \cap F # {}
        <5>1. PICK n \in D \cap F : \A p \in D \cap F : <<p, n>> \notin InArrayOrder(F)
          BY <4>1, <2>2, <2>3 DEF F
        <5>2. ASSUME NEW p \in D PROVE <<p, n>> \notin ordered[R]
          BY <5>1, <3>7
        <5> QED BY <5>1, <5>2
      <4>2. CASE D \cap F = {}
        <5>1. PICK n \in D : \A p \in D : <<p, n>> \notin ordered[R \ F]
          BY <4>2, <3>2, <3>5
        <5>2. ASSUME NEW p \in D PROVE <<p, n>> \notin ordered[R]
          BY <5>1, <4>2, <3>7
        <5> QED BY <5>1, <5>2
      <4> QED BY <4>1, <4>2
    <3>6. ASSUME NEW D \in SUBSET R, D # {}
          PROVE  \E n \in D : \A m \in D : <<n, m>> \notin ordered[R]
      <4>1. CASE D \ F # {}
        <5>1. PICK n \in D \ F : \A m \in D \ F : <<n, m>> \notin ordered[R \ F]
          BY <4>1, <3>2
        <5>2. ASSUME NEW m \in D PROVE <<n, m>> \notin ordered[R]
          BY <5>1, <3>7
        <5> QED BY <5>1, <5>2
      <4>2. CASE D \ F = {}
        <5>1. PICK n \in D : \A m \in D : <<n, m>> \notin InArrayOrder(F)
          BY <3>6, <2>2, <2>3 DEF F
        <5>2. ASSUME NEW m \in D PROVE <<n, m>> \notin ordered[R]
          BY <5>1, <4>2, <3>7
        <5> QED BY <5>1, <5>2
      <4> QED BY <4>1, <4>2
    <3> QED BY <2>2, <3>4, <3>5, <3>6
  <2> QED BY <2>4, <2>5
<1>2. Ok(Node)
  BY <1>1
<1> QED BY <1>2 DEF legacyOrder

\* Version 1 is a chain along that order.
LEMMA ChainAcyclic ==
    ASSUME NEW e, \A n \in Node : e[n] = Successor(n)
    PROVE  Acyclic(e)
<1>1. \A n, m \in Node : m \in e[n] => <<n, m>> \in legacyOrder
  BY DEF Successor
<1> SUFFICES ASSUME NEW D \in SUBSET Node, D # {}
             PROVE  /\ \E n \in D : \A p \in D : n \notin e[p]
                    /\ \E n \in D : \A m \in D : m \notin e[n]
  BY DEF Acyclic
<1>2. PICK n \in D : \A p \in D : <<p, n>> \notin legacyOrder
  BY LegacyOrders
<1>3. PICK k \in D : \A m \in D : <<k, m>> \notin legacyOrder
  BY LegacyOrders
<1> QED BY <1>1, <1>2, <1>3
-----------------------------------------------------------------------------
\* After is the least set that has the targets of n and is closed.
LEMMA AfterLeast ==
    ASSUME NEW e, NEW n \in Node
    PROVE  /\ After(e, n) \in SUBSET Node /\ e[n] \cap Node \subseteq After(e, n) /\ Closed(e, After(e, n))
           /\ \A C \in SUBSET Node : e[n] \cap Node \subseteq C /\ Closed(e, C) => After(e, n) \subseteq C
BY DEF After, Closed

\* What comes after a node that comes after n comes after n; and n leads to m by way of
\* one of its targets.
LEMMA AfterStep ==
    ASSUME NEW e, NEW n \in Node
    PROVE  /\ \A p \in After(e, n) : After(e, p) \subseteq After(e, n)
           /\ \A m \in After(e, n) : \E p \in e[n] \cap Node : p = m \/ m \in After(e, p)
<1>1. ASSUME NEW p \in After(e, n) PROVE After(e, p) \subseteq After(e, n)
  <2>1. p \in Node /\ After(e, n) \in SUBSET Node /\ Closed(e, After(e, n))
    BY AfterLeast
  <2>2. e[p] \cap Node \subseteq After(e, n)
    BY <2>1 DEF Closed
  <2> QED BY <2>1, <2>2, AfterLeast
<1> DEFINE C == {m \in Node : \E p \in e[n] \cap Node : p = m \/ m \in After(e, p)}
<1>2. C \in SUBSET Node /\ e[n] \cap Node \subseteq C
  OBVIOUS
<1>3. Closed(e, C)
  <2> SUFFICES ASSUME NEW m \in C, NEW k \in e[m] \cap Node PROVE k \in C
    BY DEF Closed
  <2>1. PICK p \in e[n] \cap Node : p = m \/ m \in After(e, p)
    OBVIOUS
  <2>2. k \in After(e, p)
    <3>1. e[p] \cap Node \subseteq After(e, p) /\ Closed(e, After(e, p))
      BY AfterLeast
    <3> QED BY <2>1, <3>1 DEF Closed
  <2> QED BY <2>1, <2>2
<1>4. After(e, n) \subseteq C
  <2> HIDE DEF C
  <2> QED BY <1>2, <1>3, AfterLeast
<1> QED BY <1>1, <1>4

\* Without a cycle no node comes after itself.
LEMMA NoneAfterItself ==
    ASSUME NEW e, Acyclic(e)
    PROVE  \A n \in Node : n \notin After(e, n)
<1> SUFFICES ASSUME NEW n \in Node, n \in After(e, n) PROVE FALSE
  OBVIOUS
<1> DEFINE D == {m \in After(e, n) : n \in After(e, m)}
<1>1. D \in SUBSET Node /\ D # {}
  BY AfterLeast
<1>2. PICK m \in D : \A k \in D : k \notin e[m]
  <2> HIDE DEF D
  <2> QED BY <1>1 DEF Acyclic
<1>3. m \in Node /\ m \in After(e, n) /\ n \in After(e, m)
  BY <1>1, <1>2
<1>4. PICK p \in e[m] \cap Node : p = n \/ n \in After(e, p)
  BY <1>3, AfterStep
<1>5. p \in After(e, n)
  <2>1. Closed(e, After(e, n))
    BY AfterLeast
  <2> QED BY <2>1, <1>3, <1>4 DEF Closed
<1> QED BY <1>2, <1>4, <1>5

\* Nodes each of which another of them, or itself, leads to have one after itself.
LEMMA OneAfterItself ==
    ASSUME NEW e, NEW R \in SUBSET Node, R # {}, \A n \in R : \E p \in R : n \in e[p]
    PROVE  \E n \in R : n \in After(e, n)
<1> DEFINE before(n) == {m \in R : n \in After(e, m)}
           W == {before(n) : n \in R}
<1>1. W \in SUBSET SUBSET Node /\ W # {}
  OBVIOUS
<1>2. PICK T \in W : \A U \in W : U \subseteq T => U = T
  <2> HIDE DEF W
  <2> QED BY <1>1, FiniteNodes, SmallestSet
<1>3. PICK n \in R : T = before(n)
  BY <1>2
<1>4. PICK p \in R : n \in e[p]
  OBVIOUS
<1>5. \A m \in R : p \in After(e, m) => n \in After(e, m)
  <2> SUFFICES ASSUME NEW m \in R, p \in After(e, m) PROVE n \in After(e, m)
    OBVIOUS
  <2>1. Closed(e, After(e, m))
    BY AfterLeast
  <2> QED BY <2>1, <1>4 DEF Closed
<1>6. n \in After(e, p)
  BY <1>4, AfterLeast
<1>7. before(p) = before(n)
  <2>1. before(p) \in W /\ before(p) \subseteq before(n)
    BY <1>5
  <2> HIDE DEF W, before
  <2> QED BY <2>1, <1>2, <1>3
<1>8. p \in before(n)
  BY <1>6
<1>9. p \in before(p)
  BY <1>7, <1>8
<1> QED BY <1>9

\* When no node comes after itself, Kahn's loop and legacyOrder reach every node.
LEMMA SomeFree ==
    ASSUME ~Cyclic, NEW R \in SUBSET Node, R # {}
    PROVE  KahnFree(R) # {} /\ Free(R) # {}
<1>1. PICK n \in R : \A p \in R : n \notin def.next[p]
  BY OneAfterItself DEF Cyclic
<1> QED BY <1>1 DEF KahnFree, Free

LEMMA AllVisited ==
    ASSUME ~Cyclic
    PROVE  Unvisited = {}
<1> DEFINE W == {R \in SUBSET Node : left[R] # {}}
<1>1. W = {}
  <2> SUFFICES ASSUME W # {} PROVE FALSE
    OBVIOUS
  <2>0. W \in SUBSET SUBSET Node
    OBVIOUS
  <2>1. PICK R \in W : \A U \in W : U \subseteq R => U = R
    <3> HIDE DEF W
    <3> QED BY <2>0, FiniteNodes, SmallestSet
  <2>2. R \in SUBSET Node /\ left[R] # {}
    BY <2>1
  <2>3. R # {}
    <3>1. R = {} => KahnFree(R) = {}
      BY DEF KahnFree
    <3> QED BY <3>1, <2>2, LeftDef
  <2>4. KahnFree(R) # {} /\ left[R \ KahnFree(R)] # {}
    BY <2>2, <2>3, SomeFree, LeftDef
  <2>5. R \ KahnFree(R) \in SUBSET Node /\ R \ KahnFree(R) # R
    BY <2>2, <2>4 DEF KahnFree
  <2> QED BY <2>1, <2>4, <2>5
<1>2. left[Node] = {}
  BY <1>1
<1> QED BY <1>2 DEF Unvisited

\* validateDefinition accepts exactly what it should.
LEMMA ValidationHolds ==
    ValidDefinition <=> (def.version = 2 => ~Cyclic /\ \A n \in Node : Unknown \notin def.next[n])
<1>1. Unvisited = {} => ~Cyclic
  BY KahnAcyclic, NoneAfterItself DEF Cyclic
<1> QED BY <1>1, AllVisited DEF ValidDefinition

\* legacyOrder is an order, and it runs the edges of a definition without a cycle forwards.
LEMMA LegacyForwards ==
    /\ \A a, b, c \in Node : <<a, b>> \in legacyOrder /\ <<b, c>> \in legacyOrder => <<a, c>> \in legacyOrder
    /\ ~Cyclic => \A n, m \in Node : m \in def.next[n] => <<n, m>> \in legacyOrder
<1> DEFINE Ok(R) ==
      /\ \A a, b \in Node : <<a, b>> \in ordered[R] => a \in R /\ b \in R
      /\ \A a, b, c \in Node : <<a, b>> \in ordered[R] /\ <<b, c>> \in ordered[R] => <<a, c>> \in ordered[R]
      /\ ~Cyclic => \A n, m \in R : m \in def.next[n] => <<n, m>> \in ordered[R]
    W == {R \in SUBSET Node : ~Ok(R)}
<1>0. ~Cyclic => \A n \in Node : n \notin def.next[n]
  BY AfterLeast DEF Cyclic
<1>1. W = {}
  <2> SUFFICES ASSUME W # {} PROVE FALSE
    OBVIOUS
  <2>0. W \in SUBSET SUBSET Node
    OBVIOUS
  <2>1. PICK R \in W : \A U \in W : U \subseteq R => U = R
    <3> HIDE DEF W
    <3> QED BY <2>0, FiniteNodes, SmallestSet
  <2>2. R \in SUBSET Node /\ ~Ok(R)
    BY <2>1
  <2>3. \A S, a, b : <<a, b>> \in InArrayOrder(S) <=> a \in S /\ b \in S /\ a < b
    BY DEF InArrayOrder
  <2>4. \A a, b, c \in Node : a < b /\ b < c => a < c
    BY FiniteNodes DEF Node
  <2>5. CASE Free(R) = {}
    <3>1. ordered[R] = InArrayOrder(R)
      BY <2>2, <2>5, OrderedDef
    <3>2. ~Cyclic => R = {}
      BY <2>2, <2>5, SomeFree
    <3> QED BY <2>2, <2>3, <2>4, <3>1, <3>2
  <2>6. CASE Free(R) # {}
    <3> DEFINE F == Free(R)
    <3>1. F \subseteq R /\ R \ F \in SUBSET Node /\ R \ F # R
      BY <2>2, <2>6 DEF Free
    <3>2. ordered[R] = Layer(R) \cup ordered[R \ F]
      BY <2>2, <2>6, OrderedDef
    <3>3. Ok(R \ F)
      BY <2>1, <3>1
    <3>4. Layer(R) = InArrayOrder(F) \cup (F \X (R \ F))
      BY DEF Layer
    <3>5. \A n, m \in R : m \in def.next[n] /\ n # m => m \notin F
      BY DEF Free
    <3> HIDE DEF F
    <3>6. ASSUME NEW a \in Node, NEW b \in Node
          PROVE  <<a, b>> \in ordered[R] <=> \/ a \in F /\ b \in F /\ a < b
                                             \/ a \in F /\ b \in R \ F
                                             \/ <<a, b>> \in ordered[R \ F]
      <4>1. <<a, b>> \in F \X (R \ F) <=> a \in F /\ b \in R \ F
        OBVIOUS
      <4> QED BY <2>3, <3>2, <3>4, <4>1
    <3>7. \A a, b \in Node : <<a, b>> \in ordered[R] => a \in R /\ b \in R
      BY <3>1, <3>3, <3>6
    <3>8. \A a, b, c \in Node : <<a, b>> \in ordered[R] /\ <<b, c>> \in ordered[R] => <<a, c>> \in ordered[R]
      BY <2>4, <3>1, <3>3, <3>6
    <3>9. ~Cyclic => \A n, m \in R : m \in def.next[n] => <<n, m>> \in ordered[R]
      BY <1>0, <2>2, <3>1, <3>3, <3>5, <3>6
    <3> QED BY <2>2, <3>7, <3>8, <3>9
  <2> QED BY <2>5, <2>6
<1>2. Ok(Node)
  BY <1>1
<1> QED BY <1>2 DEF legacyOrder

\* Along the chain a node leads to all that come later.
LEMMA ChainReaches ==
    ASSUME NEW e, \A n \in Node : e[n] = Successor(n)
    PROVE  \A n, m \in Node : <<n, m>> \in legacyOrder => m \in After(e, n)
<1> DEFINE between(n, m) == {k \in Node : <<n, k>> \in legacyOrder /\ <<k, m>> \in legacyOrder}
           W == {T \in SUBSET Node : \E n, m \in Node :
                   T = between(n, m) /\ <<n, m>> \in legacyOrder /\ m \notin After(e, n)}
<1> SUFFICES ASSUME W # {} PROVE FALSE
  OBVIOUS
<1>0. W \in SUBSET SUBSET Node
  OBVIOUS
<1>1. PICK T \in W : \A U \in W : U \subseteq T => U = T
  <2> HIDE DEF W
  <2> QED BY <1>0, FiniteNodes, SmallestSet
<1>2. PICK n \in Node, m \in Node : T = between(n, m) /\ <<n, m>> \in legacyOrder /\ m \notin After(e, n)
  BY <1>1
<1>3. m \notin Successor(n)
  BY <1>2, AfterLeast
<1>4. PICK k \in Node : <<n, k>> \in legacyOrder /\ <<k, m>> \in legacyOrder
  BY <1>2, <1>3 DEF Successor
<1>5. <<k, k>> \notin legacyOrder
  <2>1. {k} \in SUBSET Node /\ {k} # {}
    OBVIOUS
  <2>2. \E a \in {k} : \A b \in {k} : <<b, a>> \notin legacyOrder
    BY <2>1, LegacyOrders
  <2> QED BY <2>2
<1>6. /\ between(n, k) \subseteq between(n, m) /\ k \notin between(n, k)
      /\ between(k, m) \subseteq between(n, m) /\ k \notin between(k, m)
      /\ k \in between(n, m)
  BY <1>4, <1>5, LegacyForwards
<1>7. between(n, k) \notin W /\ between(k, m) \notin W
  <2> HIDE DEF W, between
  <2> QED BY <1>1, <1>2, <1>6
<1>8. k \in After(e, n) /\ m \in After(e, k)
  <2>1. between(n, k) \in SUBSET Node /\ between(k, m) \in SUBSET Node
    OBVIOUS
  <2> HIDE DEF between
  <2> QED BY <1>4, <1>7, <2>1
<1> QED BY <1>2, <1>8, AfterStep
-----------------------------------------------------------------------------
\* schedule: what the loop adds to the settled nodes has parents that are all
\* settled without selecting it, and at its end no such node is left.
LEMMA SettleFacts ==
    ASSUME done \subseteq Node, skipped \subseteq Node
    PROVE  /\ done \cup skipped \subseteq Settle /\ Settle \subseteq Node /\ Dead(Settle) = {}
           /\ \A n \in Settle \ (done \cup skipped) :
                  Parents(n) # {} /\ Parents(n) \subseteq Settle /\ ~Selects(n)
<1> DEFINE Ok(S) == /\ S \subseteq close[S] /\ close[S] \subseteq Node /\ Dead(close[S]) = {}
                    /\ \A n \in close[S] \ S :
                           Parents(n) # {} /\ Parents(n) \subseteq close[S] /\ ~Selects(n)
           W == {U \in SUBSET Node : ~Ok(Node \ U)}
<1>1. W = {}
  <2> SUFFICES ASSUME W # {} PROVE FALSE
    OBVIOUS
  <2>0. W \in SUBSET SUBSET Node
    OBVIOUS
  <2>1. PICK U \in W : \A V \in W : V \subseteq U => V = U
    <3> HIDE DEF W
    <3> QED BY <2>0, FiniteNodes, SmallestSet
  <2>2. U \in SUBSET Node /\ ~Ok(Node \ U)
    BY <2>1
  <2> DEFINE S == Node \ U
             T == S \cup Dead(S)
  <2>3. S \in SUBSET Node /\ T \in SUBSET Node /\ close[S] = IF Dead(S) = {} THEN S ELSE close[T]
    BY CloseDef DEF Dead
  <2>4. Dead(S) # {}
    <3>1. SUFFICES ASSUME Dead(S) = {} PROVE FALSE
      OBVIOUS
    <3>2. close[S] = S
      BY <2>3, <3>1
    <3> QED BY <2>2, <2>3, <3>1, <3>2
  <2>5. Ok(T)
    <3>1. Node \ T \in SUBSET Node /\ Node \ T \subseteq U /\ Node \ T # U /\ Node \ (Node \ T) = T
      BY <2>2, <2>3, <2>4 DEF Dead
    <3> HIDE DEF S, T
    <3> QED BY <2>1, <3>1
  <2>6. \A n \in Dead(S) : Parents(n) # {} /\ Parents(n) \subseteq S /\ ~Selects(n)
    BY DEF Dead
  <2>7. close[S] = close[T] /\ S \subseteq T
    BY <2>3, <2>4
  <2> QED BY <2>2, <2>5, <2>6, <2>7
<1>2. Node \ (Node \ (done \cup skipped)) = done \cup skipped
  OBVIOUS
<1>3. Ok(done \cup skipped)
  BY <1>1, <1>2
<1> QED BY <1>3 DEF Settle

\* What holds of the settled nodes, of the branches taken, of the nodes to run and of the edges.
Settled ==
    /\ done \cap skipped = {}
    /\ \A n \in done : Parents(n) = {} \/ Selects(n)
    /\ \A n \in skipped : Parents(n) # {} /\ Parents(n) \subseteq done \cup skipped /\ ~Selects(n)
Branches == \A n \in Node : selected[n] \subseteq edges[n] /\ (selected[n] # {} => n \in done)
MayRun == phase = "run" => ready \cap (done \cup skipped) = {} /\ ready \subseteq Ready(done \cup skipped)
Phases ==
    /\ phase = "compile" => done = {} /\ skipped = {}
    /\ phase = "finished" => done \cup skipped = Node
NeverStuck == phase # "stuck"
Chained ==
    def.version = 1 /\ phase \in {"schedule", "run", "finished"} => \A n \in Node : edges[n] = Successor(n)
DagInv ==
    DagTypeOK /\ Acyclic(edges) /\ Settled /\ Branches /\ MayRun /\ Phases /\ NeverStuck /\ Chained

\* Nothing is settled at the start.
LEMMA DagBegins == DagInit => DagInv
<1> SUFFICES ASSUME DagInit PROVE DagInv
  OBVIOUS
<1> USE DEF DagInit
<1>1. DagTypeOK
  BY DEF DagTypeOK, Outcomes
<1>2. Acyclic(edges)
  BY DEF Acyclic
<1>3. Settled /\ Branches /\ MayRun /\ Phases /\ NeverStuck /\ Chained
  BY DEF Settled, Branches, MayRun, Phases, NeverStuck, Chained
<1> QED BY <1>1, <1>2, <1>3 DEF DagInv

\* The chain depends on the definition only.
LEMMA SameDefinition ==
    ASSUME UNCHANGED def
    PROVE  \A n : Successor(n)' = Successor(n)
BY DEF Successor, legacyOrder, ordered, Layer, InArrayOrder, Free

\* It stays what it was once it is compiled.
LEMMA ChainStays ==
    ASSUME Chained, UNCHANGED <<def, edges>>, phase' \in {"schedule", "run", "finished"} => phase \in {"schedule", "run", "finished"}
    PROVE  Chained'
BY SameDefinition DEF Chained

\* The compiled edges have no cycle, in either version.
LEMMA CompileKeeps ==
    ASSUME DagInv, Compile
    PROVE  DagInv'
<1> USE DEF DagInv, DagTypeOK, Compile, graphState
<1>1. CASE ~ValidDefinition
  <2>1. phase' = "invalid" /\ UNCHANGED <<def, edges, ready, done, skipped, selected>>
    BY <1>1
  <2>2. DagTypeOK' /\ Acyclic(edges)' /\ Branches'
    BY <2>1 DEF Outcomes, Acyclic, Branches
  <2>3. Settled' /\ MayRun' /\ Phases' /\ NeverStuck' /\ Chained'
    BY <2>1 DEF Settled, Parents, Selects, MayRun, Phases, NeverStuck, Chained
  <2> QED BY <2>2, <2>3
<1>2. CASE ValidDefinition
  <2>1. /\ edges' = [n \in Node |-> IF def.version = 1 THEN Successor(n) ELSE def.next[n]]
        /\ phase' = "schedule" /\ UNCHANGED <<def, ready, done, skipped, selected>>
    BY <1>2
  <2>2. def.version \in {1, 2} /\ def.next \in [Node -> SUBSET (Node \cup {Unknown})]
    BY DefinitionAssumption
  <2>3. edges' \in [Node -> SUBSET Node] /\ Acyclic(edges')
    <3>1. CASE def.version = 1
      <4>1. \A n \in Node : edges'[n] = Successor(n)
        BY <2>1, <3>1
      <4>2. Acyclic(edges')
        BY <4>1, ChainAcyclic
      <4> QED BY <2>1, <3>1, <4>2 DEF Successor
    <3>2. CASE def.version = 2
      <4>1. Unvisited = {} /\ \A n \in Node : Unknown \notin def.next[n]
        BY <1>2, <3>2 DEF ValidDefinition
      <4>2. \A n \in Node : edges'[n] = def.next[n]
        BY <2>1, <3>2
      <4>3. Acyclic(def.next)
        BY <4>1, KahnAcyclic
      <4>4. Acyclic(edges')
        <5> SUFFICES ASSUME NEW D \in SUBSET Node, D # {}
                     PROVE  /\ \E n \in D : \A p \in D : n \notin edges'[p]
                            /\ \E n \in D : \A m \in D : m \notin edges'[n]
          BY DEF Acyclic
        <5>1. PICK n \in D : \A p \in D : n \notin def.next[p]
          BY <4>3 DEF Acyclic
        <5>2. PICK k \in D : \A m \in D : m \notin def.next[k]
          BY <4>3 DEF Acyclic
        <5> QED BY <4>2, <5>1, <5>2
      <4>5. edges' = [n \in Node |-> def.next[n]]
        BY <2>1, <3>2
      <4> QED BY <2>2, <4>1, <4>4, <4>5
    <3> QED BY <2>2, <3>1, <3>2
  <2>4. DagTypeOK'
    BY <2>1, <2>3
  <2>5. done = {} /\ skipped = {} /\ \A n \in Node : selected[n] = {}
    BY DEF Phases, Branches
  <2>6. Settled' /\ MayRun' /\ Phases' /\ NeverStuck'
    BY <2>1, <2>5 DEF Settled, MayRun, Phases, NeverStuck
  <2>7. Branches'
    BY <2>1, <2>5 DEF Branches
  <2>8. Chained'
    <3>1. \A n : Successor(n)' = Successor(n)
      BY <2>1, SameDefinition
    <3> QED BY <2>1, <3>1 DEF Chained
  <2> QED BY <2>3, <2>4, <2>6, <2>7, <2>8
<1> QED BY <1>1, <1>2

\* Among the nodes not settled one has only settled parents: it may run.
LEMMA SomeMayRun ==
    ASSUME DagInv, Settle # Node
    PROVE  Ready(Settle) # {}
<1>1. Settle \subseteq Node /\ Dead(Settle) = {}
  BY SettleFacts DEF DagInv, DagTypeOK
<1>2. PICK n \in Node \ Settle : \A p \in Node \ Settle : n \notin edges[p]
  BY <1>1 DEF DagInv, Acyclic
<1>3. Parents(n) \subseteq Settle
  BY <1>2 DEF Parents
<1>4. Parents(n) = {} \/ Selects(n)
  BY <1>1, <1>2, <1>3 DEF Dead
<1> QED BY <1>2, <1>3, <1>4 DEF Ready

\* schedule settles the skipped nodes and finds the ones to run.
LEMMA ScheduleKeeps ==
    ASSUME DagInv, Schedule
    PROVE  DagInv'
<1>1. /\ skipped' = Settle \ done /\ ready' = Ready(Settle)
      /\ phase' = IF ready' # {} THEN "run" ELSE IF Settle = Node THEN "finished" ELSE "stuck"
      /\ UNCHANGED <<def, edges, done, selected>>
  BY DEF Schedule
<1>2. /\ done \cup skipped \subseteq Settle /\ Settle \subseteq Node
      /\ \A n \in Settle \ (done \cup skipped) : Parents(n) # {} /\ Parents(n) \subseteq Settle /\ ~Selects(n)
  BY SettleFacts DEF DagInv, DagTypeOK
<1>3. done \cup skipped' = Settle /\ done' \cup skipped' = Settle
  BY <1>1, <1>2
<1>4. \A n : Parents(n)' = Parents(n) /\ (Selects(n)' <=> Selects(n))
  BY <1>1 DEF Parents, Selects
<1>5. Ready(Settle) \subseteq Node \ Settle /\ Ready(done \cup skipped)' = Ready(Settle)
  BY <1>1, <1>3, <1>4 DEF Ready
<1>6. DagTypeOK'
  BY <1>1, <1>2, <1>5 DEF DagInv, DagTypeOK, Outcomes
<1>7. Acyclic(edges)' /\ Branches'
  BY <1>1 DEF DagInv, Acyclic, Branches
<1>8. Settled'
  <2>1. \A n \in done : Parents(n) = {} \/ Selects(n)
    BY DEF DagInv, Settled
  <2>2. \A n \in Settle \ done : Parents(n) # {} /\ Parents(n) \subseteq Settle /\ ~Selects(n)
    BY <1>2 DEF DagInv, Settled
  <2> QED BY <1>1, <1>3, <1>4, <2>1, <2>2 DEF Settled
<1>9. MayRun'
  BY <1>1, <1>3, <1>5 DEF MayRun
<1>10. Phases' /\ NeverStuck'
  BY <1>1, <1>3, SomeMayRun DEF Phases, NeverStuck
<1>11. Chained'
  <2>1. phase = "schedule"
    BY DEF Schedule
  <2> QED BY <1>1, <2>1, ChainStays DEF DagInv
<1> QED BY <1>6, <1>7, <1>8, <1>9, <1>10, <1>11 DEF DagInv

\* A superstep changes the selections of the nodes it runs only, and none of them
\* is a parent of a node that was settled before.
LEMMA SuperstepKeeps ==
    ASSUME DagInv, Superstep
    PROVE  DagInv'
<1>1. PICK choice \in [ready -> SUBSET Node] :
        /\ \A n \in ready : choice[n] \in Selections(n)
        /\ selected' = [n \in Node |-> IF n \in ready THEN choice[n] ELSE selected[n]]
  BY DEF Superstep
<1>2. /\ done' = done \cup ready /\ phase' = "schedule" /\ phase = "run"
      /\ UNCHANGED <<def, edges, ready, skipped>>
  BY DEF Superstep
<1>3. /\ edges \in [Node -> SUBSET Node] /\ ready \subseteq Node /\ done \subseteq Node /\ skipped \subseteq Node
      /\ selected \in [Node -> SUBSET Node] /\ def \in Definitions
  BY DEF DagInv, DagTypeOK
<1>4. ready \cap (done \cup skipped) = {} /\ \A n \in ready : Parents(n) = {} \/ Selects(n)
  BY <1>2 DEF DagInv, MayRun, Ready
<1>5. \A n \in Node : /\ n \in ready => selected'[n] \subseteq edges[n]
                      /\ n \notin ready => selected'[n] = selected[n]
  <2>1. \A n \in ready : choice[n] \subseteq edges[n]
    BY <1>1 DEF Selections
  <2> QED BY <1>1, <1>3, <2>1
<1>6. DagTypeOK'
  <2>1. selected' \in [Node -> SUBSET Node]
    BY <1>1, <1>3
  <2> QED BY <1>2, <1>3, <2>1 DEF DagTypeOK
<1>7. Acyclic(edges)' /\ Branches'
  BY <1>2, <1>3, <1>5 DEF DagInv, Acyclic, Branches
<1>8. \A n : Parents(n)' = Parents(n)
  BY <1>2 DEF Parents
<1>9. \A n : Selects(n) => Selects(n)'
  <2> SUFFICES ASSUME NEW n, Selects(n) PROVE Selects(n)'
    OBVIOUS
  <2>1. PICK p \in Parents(n) : n \in selected[p]
    BY DEF Selects
  <2>2. p \in Node /\ p \in done
    BY <2>1 DEF DagInv, Branches, Parents
  <2>3. selected'[p] = selected[p]
    BY <1>4, <1>5, <2>2
  <2> QED BY <1>8, <2>1, <2>3 DEF Selects
<1>10. ASSUME NEW n \in skipped PROVE Parents(n) # {} /\ Parents(n) \subseteq done \cup skipped /\ ~Selects(n)'
  <2>1. Parents(n) # {} /\ Parents(n) \subseteq done \cup skipped /\ ~Selects(n)
    BY DEF DagInv, Settled
  <2>2. \A p \in Parents(n) : selected'[p] = selected[p]
    BY <1>3, <1>4, <1>5, <2>1
  <2> QED BY <1>8, <2>1, <2>2 DEF Selects
<1>11. Settled'
  <2>1. \A n \in done : Parents(n) = {} \/ Selects(n)
    BY DEF DagInv, Settled
  <2>2. done \cap skipped = {}
    BY DEF DagInv, Settled
  <2> QED BY <1>2, <1>4, <1>8, <1>9, <1>10, <2>1, <2>2 DEF Settled
<1>12. MayRun' /\ Phases' /\ NeverStuck'
  BY <1>2 DEF MayRun, Phases, NeverStuck
<1>13. Chained'
  BY <1>2, ChainStays DEF DagInv
<1> QED BY <1>6, <1>7, <1>11, <1>12, <1>13 DEF DagInv

\* A node that throws, or an abort, ends the execution.
LEMMA NodeFailsKeeps ==
    ASSUME DagInv, NodeFails \/ UNCHANGED dagVars
    PROVE  DagInv'
<1>1. /\ UNCHANGED <<def, edges, ready, done, skipped, selected>>
      /\ phase' = "failed" \/ phase' = phase
  BY DEF NodeFails, graphState, dagVars
<1>2. DagTypeOK' /\ Acyclic(edges)' /\ Branches'
  BY <1>1 DEF DagInv, DagTypeOK, Outcomes, Acyclic, Branches
<1>3. Settled'
  BY <1>1 DEF DagInv, Settled, Parents, Selects
<1>4. MayRun' /\ Phases' /\ NeverStuck'
  BY <1>1 DEF DagInv, MayRun, Ready, Parents, Selects, Phases, NeverStuck
<1>5. Chained'
  BY <1>1, ChainStays DEF DagInv
<1> QED BY <1>2, <1>3, <1>4, <1>5 DEF DagInv

\* All steps together.
LEMMA DagAlways == DagSpec => []DagInv
<1>1. DagInv /\ [DagNext]_dagVars => DagInv'
  BY CompileKeeps, ScheduleKeeps, SuperstepKeeps, NodeFailsKeeps DEF DagNext
<1> QED BY <1>1, DagBegins, PTL DEF DagSpec

\* Nodes, edges and selections keep their types.
THEOREM DagTypeCorrect == DagSpec => []DagTypeOK
BY DagAlways, PTL DEF DagInv

\* schedule never throws 'Workflow cannot make progress': the safety part of ExecutionEnds.
THEOREM NeverStuckCorrect == DagSpec => []NeverStuck
BY DagAlways, PTL DEF DagInv

\* The result of a finished run: every node was executed or skipped, executed
\* exactly when it is a root or was selected, and one of them gives the output.
THEOREM ActivationExactCorrect == DagSpec => []ActivationExact
<1>1. ASSUME DagInv, phase = "finished"
      PROVE  /\ done \cap skipped = {} /\ done \cup skipped = Node
             /\ \A n \in Node : n \in done <=> (Parents(n) = {} \/ \E p \in done : n \in selected[p])
             /\ Terminals # {}
  <2>1. done \cap skipped = {} /\ done \cup skipped = Node
    BY <1>1 DEF DagInv, Settled, Phases
  <2>2. ASSUME NEW n \in Node PROVE Selects(n) <=> \E p \in done : n \in selected[p]
    <3>1. \A p \in Node : n \in selected[p] => p \in done /\ p \in Parents(n)
      BY <1>1 DEF DagInv, Branches, Parents
    <3> QED BY <3>1, <2>1 DEF Selects, Parents
  <2>3. \A n \in Node : n \in done <=> (Parents(n) = {} \/ \E p \in done : n \in selected[p])
    BY <1>1, <2>1, <2>2 DEF DagInv, Settled
  <2>4. done # {}
    <3>1. Node # {}
      BY FiniteNodes, FS_EmptySet
    <3>2. PICK n \in Node : \A p \in Node : n \notin edges[p]
      BY <1>1, <3>1 DEF DagInv, Acyclic
    <3>3. Parents(n) = {}
      BY <3>2 DEF Parents
    <3> QED BY <2>3, <3>3
  <2>5. PICK n \in done : \A m \in done : m \notin edges[n]
    BY <1>1, <2>1, <2>4 DEF DagInv, Acyclic
  <2>6. n \in Node /\ selected[n] \subseteq edges[n] /\ edges[n] \subseteq Node
    BY <1>1, <2>1 DEF DagInv, DagTypeOK, Branches
  <2>7. selected[n] = {}
    BY <2>3, <2>5, <2>6
  <2> QED BY <2>1, <2>3, <2>7 DEF Terminals
<1>2. DagInv => ActivationExact
  BY <1>1 DEF ActivationExact
<1> QED BY <1>2, DagAlways, PTL

\* validateDefinition accepts a definition of version 2 exactly when no node comes
\* after itself and every target exists, and version 1 in any case.
THEOREM ValidationExactCorrect == DagSpec => []ValidationExact
<1>1. DagInv => ValidationExact
  BY ValidationHolds DEF ValidationExact
<1> QED BY <1>1, DagAlways, PTL

\* legacyOrder: the chain of version 1 runs every edge forwards.
THEOREM ChainKeepsEdgesCorrect == DagSpec => []ChainKeepsEdges
<1>1. DagInv => ChainKeepsEdges
  BY LegacyForwards, ChainReaches DEF DagInv, Chained, ChainKeepsEdges
<1> QED BY <1>1, DagAlways, PTL

\* A node runs once, after all its parents and only if it was not skipped.
THEOREM JoinWaitsCorrect == DagSpec => JoinWaits
<1>1. ASSUME DagInv, [DagNext]_dagVars
      PROVE  \A n \in done' \ done :
                 n \notin skipped /\ Parents(n) \subseteq done \cup skipped /\ (Parents(n) # {} => Selects(n))
  <2>1. CASE Superstep
    BY <1>1, <2>1 DEF DagInv, MayRun, Ready, Superstep
  <2>2. CASE UNCHANGED done
    BY <2>2
  <2> QED BY <1>1, <2>1, <2>2 DEF DagNext, Compile, Schedule, NodeFails, graphState, dagVars
<1>2. DagInv /\ [DagNext]_dagVars =>
        [\A n \in done' \ done :
           /\ n \notin skipped
           /\ Parents(n) \subseteq done \cup skipped
           /\ Parents(n) # {} => Selects(n)]_dagVars
  BY <1>1
<1> QED BY <1>2, DagAlways, PTL DEF DagSpec, JoinWaits
==============================================================================
