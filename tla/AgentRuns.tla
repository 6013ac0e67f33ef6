------------------------------- MODULE AgentRuns -------------------------------
(***************************************************************************)
(* How runs of agents nest: an agent bound to a workflow runs it, an agent   *)
(* node of that workflow runs an agent again, and an agent without one may   *)
(* delegate to another.  Run i + 1 is the run that run i, or its workflow,   *)
(* has started; flow[i] is the workflow run of run i.  One process; its      *)
(* places for workflow runs and for nodes are shared by all levels.          *)
(***************************************************************************)
EXTENDS Integers, FiniteSets

CONSTANTS
    Agent, None,
    Target,        \* the agent that the bound workflow of an agent calls, or None
    Subs,          \* the agents an agent may delegate to, a built-in one also to itself
    Slots,         \* WORKFLOW_RUN_CONCURRENCY
    NodeSlots,     \* WORKFLOW_NODE_CONCURRENCY
    MaxLevel,      \* bound on the depth of the nest
    MaxFaults      \* bound on crashes, rejected queries, and what the user cancels or resumes
ASSUME AgentRunsAssumption ==
    /\ IsFiniteSet(Agent) /\ None \notin Agent
    /\ Target \in [Agent -> Agent \cup {None}] /\ Subs \in [Agent -> SUBSET Agent]
    /\ Slots \in Nat \ {0} /\ NodeSlots \in Nat \ {0} /\ MaxLevel \in Nat \ {0} /\ MaxFaults \in Nat

VARIABLES
    run,           \* the runs of agents
    flow,          \* their workflow runs
    autoRecover,   \* WORKFLOW_AUTO_RECOVER
    faults

vars == <<run, flow, autoRecover, faults>>

Level == 1 .. MaxLevel
Ended == {"succeeded", "failed"}
Terminal == {"succeeded", "failed", "cancelled", "interrupted"}
\* closing: the row says succeeded, the caller has no answer yet.  apart observes
\* why a run did not wait for the end of its workflow, and exec that an executor
\* of this process holds the workflow run; seen: the scanner is about to claim it.
TypeOK ==
    /\ run \in [Level -> [at : {"free", "begin", "start", "inline", "back", "poll", "last", "graph", "await", "after",
                                "closing", "lost"} \cup Ended,
                          agent : Agent \cup {None}, depth : 0 .. 1, skip : SUBSET Agent,
                          apart : {"no", "raced", "rejected", "again"}]]
    /\ flow \in [Level -> [st : {"none", "pending", "running"} \cup Terminal, exec : BOOLEAN,
                           node : {"none", "child", "done"}, cancel : BOOLEAN, seen : BOOLEAN]]
    /\ autoRecover \in BOOLEAN /\ faults \in 0 .. MaxFaults

NoRun == [at |-> "free", agent |-> None, depth |-> 0, skip |-> {}, apart |-> "no"]
NoFlow == [st |-> "none", exec |-> FALSE, node |-> "none", cancel |-> FALSE, seen |-> FALSE]
NewRun(a, depth, skip) == [at |-> "begin", agent |-> a, depth |-> depth, skip |-> skip, apart |-> "no"]
Init ==
    /\ \E a \in Agent : run = [i \in Level |-> IF i = 1 THEN NewRun(a, 0, {}) ELSE NoRun]
    /\ flow = [i \in Level |-> NoFlow]
    /\ autoRecover \in BOOLEAN /\ faults = 0

Goes(i, place) == run' = [run EXCEPT ![i].at = place]
GoesApart(i, place, why) == run' = [run EXCEPT ![i].at = place, ![i].apart = why]
InFlight == Cardinality({i \in Level : flow[i].exec}) + Cardinality({i \in Level : flow[i].seen})
NodeCount == Cardinality({i \in Level : flow[i].exec /\ flow[i].node = "child"})
Kept == UNCHANGED <<autoRecover, faults>>
-----------------------------------------------------------------------------
\* A run of an agent.
BoundWorkflow(i) == Target[run[i].agent] # None /\ run[i].agent \notin run[i].skip
\* The workflow may be gone.
Begin(i) ==
    /\ run[i].at = "begin" /\ Kept
    /\ IF BoundWorkflow(i)
       THEN \/ Goes(i, "start") /\ flow' = [flow EXCEPT ![i].st = "pending"]
            \/ Goes(i, "failed") /\ UNCHANGED flow
       ELSE Goes(i, "graph") /\ UNCHANGED flow

\* The claim of executeOwned.  A node that was at work is started anew, or not.
Claimable(i) == flow[i].st \in {"pending", "running", "failed", "interrupted"} /\ ~flow[i].exec /\ ~flow[i].cancel
Claim(i) ==
    flow' = [flow EXCEPT ![i].st = "running", ![i].exec = TRUE, ![i].seen = FALSE,
                         ![i].node = IF @ = "child" THEN "none" ELSE @]
\* The scanner or a cancellation may have come first, and its lease may be live.
Start(i) ==
    /\ run[i].at = "start" /\ Kept
    /\ \/ InFlight >= Slots /\ Goes(i, "poll") /\ UNCHANGED flow
       \/ InFlight < Slots /\ Claimable(i) /\ Goes(i, "inline") /\ Claim(i)
       \/ /\ InFlight < Slots /\ (~Claimable(i) \/ flow[i].st = "running")
          /\ GoesApart(i, "failed", "raced") /\ UNCHANGED flow

Verdict(i) == Goes(i, IF flow[i].st = "succeeded" THEN "closing" ELSE "failed")
Read(i) ==
    /\ \/ run[i].at \in {"back", "poll"} /\ flow[i].st \in Terminal /\ Verdict(i)
       \/ run[i].at = "back" /\ flow[i].st \notin Terminal /\ Goes(i, "poll")
       \/ run[i].at = "last" /\ Verdict(i)
    /\ UNCHANGED flow /\ Kept
\* The UPDATE of WorkflowRuntimeService.cancel; the executor, if any, aborts.  A
\* lease may outlive its executor, for 60 s.
Cancelled(i, lapsed) ==
    LET held == flow[i].exec \/ (flow[i].st = "running" /\ ~lapsed)
    IN flow' = [flow EXCEPT ![i].cancel = flow[i].st # "succeeded",
                            ![i].st = IF @ = "succeeded" \/ held THEN @ ELSE "cancelled"]
\* 120 s of polling are over: the workflow is cancelled and read once more.
DeadlineRunning(i) ==      \* mutant: a workflow that nobody took is left alone
    /\ run[i].at = "poll" /\ flow[i].st = "running"
    /\ (\E lapsed \in BOOLEAN : Cancelled(i, lapsed)) /\ Goes(i, "last") /\ Kept
DeadlineBlind(i) ==      \* mutant: it is not read once more
    /\ run[i].at = "poll"
    /\ (\E lapsed \in BOOLEAN : Cancelled(i, lapsed)) /\ Goes(i, "failed") /\ Kept
Deadline(i) ==
    /\ run[i].at = "poll"
    /\ (\E lapsed \in BOOLEAN : Cancelled(i, lapsed)) /\ Goes(i, "last") /\ Kept

Graph(i) ==
    /\ run[i].at \in {"graph", "after"} /\ UNCHANGED flow /\ Kept
    /\ \E end \in {"closing", "failed"} : Goes(i, end)
Delegate(i) ==
    /\ run[i].at = "graph" /\ run[i].depth = 0 /\ i < MaxLevel
    /\ \E a \in Subs[run[i].agent] :
           run' = [run EXCEPT ![i].at = "await", ![i + 1] = NewRun(a, 1, run[i].skip)]
    /\ UNCHANGED flow /\ Kept
\* A child that could not even note its failure is over as well.
Delegated(i) ==
    /\ run[i].at = "await" /\ run[i + 1].at \in Ended \cup {"lost"}
    /\ Goes(i, "after") /\ UNCHANGED flow /\ Kept
Close(i) == run[i].at = "closing" /\ Goes(i, "succeeded") /\ UNCHANGED flow /\ Kept
-----------------------------------------------------------------------------
\* The executor of a workflow run; the request that began it reads what came of it.
Returns(i, place) == run' = [run EXCEPT ![i].at = IF @ = "inline" THEN place ELSE @]
Ends(i, st) ==
    /\ flow' = [flow EXCEPT ![i].exec = FALSE, ![i].st = IF flow[i].cancel THEN "cancelled" ELSE st]
    /\ Returns(i, "back")
\* recover: what it selected, with a place taken for it, may have changed.
Select(i) ==
    /\ autoRecover /\ flow[i].st \in {"pending", "running"} /\ Claimable(i) /\ ~flow[i].seen
    /\ InFlight < Slots
    /\ flow' = [flow EXCEPT ![i].seen = TRUE]
    /\ UNCHANGED run /\ Kept
\* A run that has already failed does not hear of it.
Again(i) == run' = [run EXCEPT ![i].apart = IF run[i].at = "failed" /\ @ = "no" THEN "again" ELSE @]
Scan(i) ==
    /\ flow[i].seen /\ Kept
    /\ IF Claimable(i) THEN Claim(i) /\ Again(i)
       ELSE flow' = [flow EXCEPT ![i].seen = FALSE] /\ UNCHANGED run
\* The agent node: never for a second time.  The child begins at depth 0.
FreshAlways(i) == TRUE      \* mutant: the ledger is not looked at
Fresh(i) == run[i + 1].at = "free"
SkipOwn(i) == {run[i].agent}      \* mutant: the runs above are forgotten
Skip(i) == run[i].skip \cup {run[i].agent}
StartNode(i) ==
    /\ flow[i].exec /\ ~flow[i].cancel /\ flow[i].node = "none" /\ i < MaxLevel
    /\ NodeCount < NodeSlots
    /\ IF Fresh(i)
       THEN /\ flow' = [flow EXCEPT ![i].node = "child"]
            /\ run' = [run EXCEPT ![i + 1] = NewRun(Target[run[i].agent], 0, Skip(i))]
       ELSE Ends(i, "interrupted")
    /\ Kept
NodeDone(i) ==
    /\ flow[i].exec /\ ~flow[i].cancel /\ flow[i].node = "child" /\ Kept
    /\ \/ run[i + 1].at \in {"failed", "lost"} /\ Ends(i, "failed")
       \/ run[i + 1].at = "succeeded" /\ flow' = [flow EXCEPT ![i].node = "done"] /\ UNCHANGED run
Finish(i) ==
    /\ flow[i].exec /\ flow[i].node = "done" /\ ~flow[i].cancel
    /\ Ends(i, "succeeded") /\ Kept
\* The run, or one node of it, has taken its time; or it was cancelled.  The
\* agent it called goes on.
NodeTimeout(i) == flow[i].exec /\ ~flow[i].cancel /\ flow[i].node = "child" /\ Ends(i, "failed") /\ Kept
RunTimeout(i) == flow[i].exec /\ ~flow[i].cancel /\ Ends(i, "interrupted") /\ Kept
Abort(i) == flow[i].exec /\ flow[i].cancel /\ Ends(i, "cancelled") /\ Kept
\* The cancellation fell between the last guard and the last UPDATE.
Missed(i) ==
    /\ flow[i].exec /\ flow[i].cancel /\ flow[i].node = "done"
    /\ flow' = [flow EXCEPT ![i].exec = FALSE]
    /\ Returns(i, "back") /\ Kept
-----------------------------------------------------------------------------
Fault == faults < MaxFaults /\ faults' = faults + 1 /\ UNCHANGED autoRecover
\* A query of the run is rejected, which the catch notes unless that is rejected too.
RunRejected(i) ==
    /\ Fault /\ run[i].at \in {"begin", "start", "back", "poll", "last", "graph", "after", "closing"}
    /\ \E end \in {"failed", "lost"} : GoesApart(i, end, "rejected")
    /\ UNCHANGED flow
\* The same for the executor, whose request, if it has one, then fails.
FlowRejected(i) ==
    /\ Fault /\ flow[i].exec
    /\ \/ Ends(i, "failed")
       \/ /\ flow' = [flow EXCEPT ![i].exec = FALSE]
          /\ IF run[i].at = "inline" THEN GoesApart(i, "failed", "rejected") ELSE UNCHANGED run
UserCancels(i) ==
    /\ Fault /\ flow[i].st \notin {"none", "succeeded", "cancelled"}
    /\ (\E lapsed \in BOOLEAN : Cancelled(i, lapsed)) /\ UNCHANGED run
UserResumes(i) == Fault /\ InFlight < Slots /\ Claimable(i) /\ Claim(i) /\ Again(i)
Crash ==
    /\ Fault
    /\ run' = [i \in Level |-> IF run[i].at \in Ended \cup {"free"} THEN run[i] ELSE [run[i] EXCEPT !.at = "lost"]]
    /\ flow' = [i \in Level |-> [flow[i] EXCEPT !.exec = FALSE, !.seen = FALSE]]

RunStep(i) == Begin(i) \/ Start(i) \/ Read(i) \/ Deadline(i) \/ Graph(i) \/ Delegate(i) \/ Delegated(i) \/ Close(i)
FlowStep(i) == StartNode(i) \/ NodeDone(i) \/ Finish(i) \/ NodeTimeout(i) \/ RunTimeout(i) \/ Abort(i) \/ Missed(i)
Recovery(i) == Select(i) \/ Scan(i)
Faulty(i) == RunRejected(i) \/ FlowRejected(i) \/ UserCancels(i) \/ UserResumes(i)
Next == Crash \/ \E i \in Level : RunStep(i) \/ FlowStep(i) \/ Recovery(i) \/ Faulty(i)
Spec ==
    /\ Init /\ [][Next]_vars
    /\ \A i \in Level : WF_vars(RunStep(i)) /\ WF_vars(FlowStep(i)) /\ WF_vars(Recovery(i))
-----------------------------------------------------------------------------
Workflows == {a \in Agent : Target[a] # None}
\* Workflows and delegations cannot call each other for ever: the list of agents
\* whose workflow is skipped and the depth limit, which every agent node resets,
\* bound the nest together.
NestingBounded == \A i \in Level : run[i].at # "free" => i <= 2 * Cardinality(Workflows) + 2

\* A run reports success only if its workflow succeeded, with the agent it called,
\* whoever executed it, however often it was taken up again and whenever it was
\* cancelled.  And a workflow that succeeded is one its run reports, unless the
\* run came apart from it: the scanner took the workflow before its own request
\* did, a query of the run was rejected, or the workflow was claimed again (by the
\* user or a late scanner) after the run had failed.
VerdictAgrees ==
    \A i \in Level : flow[i].st # "none" =>
        /\ run[i].at \in {"closing", "succeeded"} => flow[i].st = "succeeded" /\ run[i + 1].at = "succeeded"
        /\ run[i].at = "failed" /\ flow[i].st = "succeeded" => run[i].apart # "no"

\* Whatever the levels wait for, places or each other, every run ends unless its
\* process dies or its failure cannot be noted, and every workflow run ends;
\* exceptions are a cancellation after which no executor was left to end it, and
\* workflows that nobody recovers.
Over(i) ==
    /\ run[i].at \in Ended \cup {"free", "lost"}
    /\ flow[i].st \in Terminal \cup {"none"} \/ (flow[i].cancel /\ ~flow[i].exec)
         \/ (~autoRecover /\ (run[i].at = "lost" \/ run[i].apart # "no"))
AllEnd == <>(\A i \in Level : Over(i))

\* No agent is run a second time for a node when its workflow is recovered.
NeverRunAgain == [][\A i \in Level : run[i].at # "free" => run'[i].at # "begin" \/ run[i].at = "begin"]_vars
=============================================================================
