------------------------------- MODULE AgentGraph -------------------------------
(***************************************************************************)
(* One run of an agent (executeAgentRun without a bound workflow): the      *)
(* LangGraph of context, tool guard, planning, tool calls, delegations,     *)
(* observation and reflection, and the final answer with its function       *)
(* calling harness and its fall-back.  What models, tools and children      *)
(* answer is left open; a text "fails" when the code's pattern finds a      *)
(* failure in it.                                                           *)
(***************************************************************************)
EXTENDS Naturals

CONSTANTS
    StepLimits,    \* values of dto.maxSteps
    Budgets,       \* values of retryPolicy.maxRetries, at most 3
    MaxFaults      \* bound on database failures and crashes
ASSUME AgentGraphAssumption ==
    StepLimits \subseteq 1 .. 10 /\ Budgets \subseteq 0 .. 3 /\ MaxFaults \in Nat

VARIABLES
    cfg,           \* the request and the agent
    at,            \* the graph node, or the place in the final answer
    round, attempts, retries,      \* planning rounds, failed plannings of this one, replans after a failure
    failing,       \* some observation reads as a failure
    last,          \* the last observation reads as a failure
    usable,        \* what the final answer may call
    hround,        \* round of the harness
    fell,          \* the harness failed and the answer fell back
    again,         \* something was called after that
    open,          \* step rows with status running
    supersteps, status, faults

vars == <<cfg, at, round, attempts, retries, failing, last, usable, hround, fell, again, open,
          supersteps, status, faults>>

Requests == [mode : {"fast", "standard", "reflective"}, maxSteps : StepLimits, budget : Budgets,
             retryPlanner : BOOLEAN, retryTool : BOOLEAN,
             tools : BOOLEAN,       \* some tool is allowed
             skipped : BOOLEAN,     \* some bound tool was refused
             subs : BOOLEAN,        \* some bound agent is active
             builtin : BOOLEAN,     \* a built-in agent, which has no bound agents
             deep : BOOLEAN,        \* a delegated run: delegationDepth >= 1
             continued : BOOLEAN]   \* dto.parentRunId is given
\* A delegated run is let in with parentRunId only when a built-in agent delegates to itself.
Configs == {c \in Requests : (c.builtin => ~c.subs) /\ (c.deep /\ c.continued => c.builtin)}
GraphNodes == {"context", "guardTools", "plan", "tool", "delegate", "observe", "reflect", "final"}
Harness == {"llm", "calls", "forced"}
TypeOK ==
    /\ cfg \in Configs
    /\ at \in GraphNodes \cup Harness \cup {"child", "answer", "plain", "memory", "closing", "closed", "ended", "dead"}
    /\ round \in 0 .. cfg.maxSteps /\ attempts \in 0 .. 3 /\ retries \in 0 .. 3
    /\ {failing, last, fell, again} \subseteq BOOLEAN
    /\ usable \subseteq {"tools", "subs"} /\ hround \in 0 .. 10
    /\ open \subseteq {"decision", "answer", "final", "delegate"}
    /\ supersteps \in Nat /\ status \in {"running", "succeeded", "failed"} /\ faults \in 0 .. MaxFaults

Init ==
    /\ cfg \in Configs
    /\ at = "context" /\ status = "running"
    /\ round = 0 /\ attempts = 0 /\ retries = 0 /\ hround = 0 /\ supersteps = 0 /\ faults = 0
    /\ failing = FALSE /\ last = FALSE /\ fell = FALSE /\ again = FALSE
    /\ usable = {} /\ open = {}

Limit == cfg.maxSteps * 6 + 12
ExhaustedNever == FALSE      \* mutant: nobody looks at the round
Exhausted == round >= cfg.maxSteps
Same == UNCHANGED <<cfg, fell, faults>>
\* A node of the graph, one superstep.
Node(name) ==
    /\ at = name
    /\ supersteps' = supersteps + 1
    /\ Same
-----------------------------------------------------------------------------
Context ==
    /\ Node("context") /\ at' = "guardTools"
    /\ UNCHANGED <<round, attempts, retries, failing, last, usable, hround, again, open, status>>
GuardTools ==
    /\ Node("guardTools") /\ at' = IF cfg.mode = "fast" THEN "final" ELSE "plan"
    /\ UNCHANGED <<round, attempts, retries, failing, last, usable, hround, again, open, status>>

\* Without a tool or a delegate to offer nothing is asked.
Silent == ~cfg.tools /\ cfg.deep
Retries == IF cfg.retryPlanner THEN cfg.budget ELSE 0
Plan ==
    /\ Node("plan")
    /\ round' = round + 1 /\ attempts' = 0
    /\ \E action \in IF Silent THEN {"final"} ELSE {"tool", "delegate", "final"} :
           at' = IF Exhausted' THEN "final" ELSE action
    /\ UNCHANGED <<retries, failing, last, usable, hround, again, open, status>>
\* The model fails or its answer is not paid for; in the end the plan is to answer.
PlanRetriesFreely ==      \* mutant: the last attempt begins again
    /\ at = "plan" /\ ~Silent
    /\ attempts' = IF attempts < Retries THEN attempts + 1 ELSE 0
    /\ UNCHANGED <<at, round, supersteps>> /\ Same
    /\ UNCHANGED <<retries, failing, last, usable, hround, again, open, status>>
PlanFails ==
    /\ at = "plan" /\ ~Silent
    /\ IF attempts < Retries
       THEN attempts' = attempts + 1 /\ UNCHANGED <<at, round, supersteps>> /\ Same
       ELSE Node("plan") /\ attempts' = 0 /\ round' = round + 1 /\ at' = "final"
    /\ UNCHANGED <<retries, failing, last, usable, hround, again, open, status>>

Observed(bad) == last' = bad /\ failing' = (failing \/ bad)
\* A tool that is not allowed is refused, which reads as a failure.
Tool ==
    /\ Node("tool") /\ at' = "observe"
    /\ \E bad \in BOOLEAN : (cfg.tools \/ bad) /\ Observed(bad)
    /\ UNCHANGED <<round, attempts, retries, usable, hround, again, open, status>>
\* A refusal (depth, itself, unbound, missing, archived) does not read as one.
Delegate ==
    /\ Node("delegate")
    /\ \/ at' = "observe" /\ Observed(FALSE) /\ UNCHANGED open
       \/ ~cfg.deep /\ at' = "child" /\ open' = open \cup {"delegate"} /\ UNCHANGED <<failing, last>>
    /\ UNCHANGED <<round, attempts, retries, usable, hround, again, status>>
Observe ==
    /\ Node("observe")
    /\ at' = IF cfg.mode = "reflective" \/ (cfg.mode = "standard" /\ (cfg.skipped \/ failing)) THEN "reflect"
             ELSE IF Exhausted THEN "final" ELSE "plan"
    /\ UNCHANGED <<round, attempts, retries, failing, last, usable, hround, again, open, status>>
Reflect ==
    /\ Node("reflect")
    /\ LET bad == cfg.skipped \/ last
           ends == Exhausted \/ (bad /\ (~cfg.retryTool \/ retries >= cfg.budget \/ round + 1 >= cfg.maxSteps))
       IN /\ at' = IF ends THEN "final" ELSE "plan"
          /\ retries' = IF bad /\ ~ends THEN retries + 1 ELSE retries
    /\ UNCHANGED <<round, attempts, failing, last, usable, hround, again, open, status>>
\* Only the fast mode calls anything while it answers.
Final ==
    /\ Node("final") /\ at' = "answer"
    /\ usable' = IF cfg.mode # "fast" THEN {}
                 ELSE {u \in {"tools", "subs"} : (u = "tools" /\ cfg.tools) \/ (u = "subs" /\ cfg.subs /\ ~cfg.deep)}
    /\ UNCHANGED <<round, attempts, retries, failing, last, hround, again, open, status>>
-----------------------------------------------------------------------------
\* generateFinalAgentOutput and its harness.
Answering == UNCHANGED <<cfg, round, attempts, retries, failing, last, supersteps, faults>>
Opened(kind) == open' = open \cup {kind}
Closed(kind) == open' = open \ {kind}

Answer ==
    /\ at = "answer"
    /\ IF usable = {} THEN at' = "plain" /\ Opened("answer") /\ UNCHANGED hround
                      ELSE at' = "llm" /\ Opened("decision") /\ hround' = 1
    /\ UNCHANGED <<usable, fell, again, status>> /\ Answering
\* The answer is asked for once more, with nothing to call.
FallBackDeep ==      \* mutant: sub agents stay on offer
    at' = "answer" /\ fell' = TRUE /\ usable' = usable \ {"tools"} /\ UNCHANGED <<hround, again, status>>
FallBack ==
    at' = "answer" /\ fell' = TRUE /\ usable' = {} /\ UNCHANGED <<hround, again, status>>
LlmFailsOpen ==      \* mutant: the decision step is not closed
    at = "llm" /\ UNCHANGED open /\ FallBack /\ Answering
LlmFails == at = "llm" /\ Closed("decision") /\ FallBack /\ Answering
ForcedFails == at = "forced" /\ Closed("final") /\ FallBack /\ Answering
Llm ==
    /\ at = "llm" /\ Closed("decision")
    /\ \/ at' = "memory" /\ UNCHANGED again
       \/ at' = "calls" /\ again' = (again \/ fell)
    /\ UNCHANGED <<usable, hround, fell, status>> /\ Answering
\* Bound: one delegation in a round of the harness.
DelegateCall ==
    /\ at = "calls" /\ "subs" \in usable
    /\ at' = "child" /\ Opened("delegate")
    /\ UNCHANGED <<usable, hround, fell, again, status>> /\ Answering
NextRound(from) ==
    /\ at = from
    /\ IF hround < cfg.maxSteps
       THEN at' = "llm" /\ hround' = hround + 1 /\ open' = (open \ {"delegate"}) \cup {"decision"}
       ELSE at' = "forced" /\ UNCHANGED hround /\ open' = (open \ {"delegate"}) \cup {"final"}
    /\ UNCHANGED <<usable, fell, again, status>> /\ Answering
Answered(from, kind) ==
    /\ at = from /\ Closed(kind) /\ at' = "memory"
    /\ UNCHANGED <<usable, hround, fell, again, status>> /\ Answering
Fail == at' = "ended" /\ status' = "failed" /\ UNCHANGED <<usable, hround, fell, again>>
\* The stream breaks off, or its charge fails after it was shown.
PlainFails == at = "plain" /\ Fail /\ UNCHANGED open /\ Answering

\* A child run ends, with a result that reads as a failure or not.  A child that
\* inherits parentRunId is refused before its run begins, as that run belongs to
\* another agent; only a built-in agent may delegate to itself.
Throw == IF cfg.mode = "fast" THEN FallBack ELSE Fail
Child ==
    /\ at = "child" /\ (cfg.continued => cfg.builtin)
    /\ IF cfg.mode = "fast" THEN NextRound("child")
       ELSE /\ Closed("delegate") /\ at' = "observe"
            /\ \E bad \in BOOLEAN : Observed(bad)
            /\ UNCHANGED <<cfg, round, attempts, retries, usable, hround, fell, again, supersteps, status, faults>>
ChildRefused == at = "child" /\ cfg.continued /\ Throw /\ UNCHANGED open /\ Answering

\* applySmartMemory swallows its errors, but for one in its own catch (StorageFails).
Memory ==
    /\ at = "memory" /\ at' = "closing"
    /\ UNCHANGED <<usable, hround, fell, again, open, status>> /\ Answering
\* The row is updated, then read once more for the caller.
Close ==
    /\ at = "closing" /\ at' = "closed" /\ status' = "succeeded"
    /\ UNCHANGED <<usable, hround, fell, again, open>> /\ Answering
Return ==
    /\ at = "closed" /\ at' = "ended"
    /\ UNCHANGED <<usable, hround, fell, again, open, status>> /\ Answering
-----------------------------------------------------------------------------
Fault == faults < MaxFaults /\ faults' = faults + 1
\* The plan cannot be saved: its catch plans to answer.
PlanUnsaved ==
    /\ Fault /\ at = "plan"
    /\ attempts' = 0 /\ round' = round + 1 /\ supersteps' = supersteps + 1 /\ at' = "final"
    /\ UNCHANGED <<cfg, retries, failing, last, usable, hround, fell, again, open, status>>
\* A query is rejected.  In the harness this leads to the fall-back; elsewhere the run
\* fails, even one whose row says that it succeeded.  (At "plan" and at "memory" the
\* query of the catch is rejected as well.)
InHarness == at \in Harness \/ (at = "answer" /\ usable # {}) \/ (at = "child" /\ cfg.mode = "fast")
StorageFails ==
    /\ Fault /\ at \notin {"ended", "dead"}
    /\ IF InHarness THEN FallBack ELSE Fail
    /\ UNCHANGED <<cfg, round, attempts, retries, failing, last, open, supersteps>>
\* The process dies, or the update in the catch of the run fails as well.
Crash ==
    /\ Fault /\ at \notin {"ended"}
    /\ at' = "dead"
    /\ UNCHANGED <<cfg, round, attempts, retries, failing, last, usable, hround, fell, again, open, supersteps, status>>

Step ==
    \/ Context \/ GuardTools \/ Plan \/ PlanFails \/ Tool \/ Delegate \/ Observe \/ Reflect \/ Final
    \/ Answer \/ Llm \/ LlmFails \/ DelegateCall \/ NextRound("calls")
    \/ Answered("forced", "final") \/ ForcedFails \/ Answered("plain", "answer") \/ PlainFails
    \/ Child \/ ChildRefused \/ Memory \/ Close \/ Return
Next == Step \/ PlanUnsaved \/ StorageFails \/ Crash
Spec == Init /\ [][Next]_vars /\ WF_vars(Step)
-----------------------------------------------------------------------------
\* The graph never runs into LangGraph's recursion limit (maxSteps * 6 + 12), on
\* any path through planning, delegation and reflection.
WithinRecursionLimit == supersteps <= Limit

\* A succeeded run shows no step that is still running, although the harness may
\* have failed on the way; exceptions are a failure of the database and the
\* refused child of a continued run (whose row stays open for good).
SucceededIsSettled == status = "succeeded" => open = {} \/ faults > 0 \/ (cfg.continued /\ open = {"delegate"})

\* After the harness has failed nothing is called a second time.
NothingCalledAgain == ~again

\* A run comes to its end unless its process dies: nobody resumes it.
RunEnds == <>(status # "running" \/ at = "dead")
=============================================================================
