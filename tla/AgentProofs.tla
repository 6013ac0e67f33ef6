------------------------------ MODULE AgentProofs ------------------------------
(***************************************************************************)
(* One agent.  Its run, for all step limits, budgets and numbers of faults: *)
(* it stays inside the recursion limit of LangGraph, its harness calls      *)
(* nothing after it failed, and a success leaves no step open.  Its         *)
(* versions, for all sets of requests and calls: at most one is released    *)
(* and one on trial, a call is refused only after a publication whose view  *)
(* was out of date, and creations number the versions in order.             *)
(***************************************************************************)
EXTENDS AgentGraph, AgentVersions, FiniteSetTheorems, TLAPS

\* A round takes at most four supersteps, and each new one begins below the limit.
Progress ==
    /\ at = "context" => supersteps = 0
    /\ at = "guardTools" => supersteps <= 1
    /\ at = "plan" => supersteps <= 4 * round + 2
    /\ at \in {"tool", "delegate"} => supersteps + 1 <= 4 * round
    /\ at = "observe" \/ (at = "child" /\ cfg.mode # "fast") => supersteps <= 4 * round
    /\ at = "reflect" => supersteps <= 4 * round + 1
    /\ at = "final" => supersteps <= 4 * round + 2
    /\ supersteps <= 4 * round + 3
    /\ at \in {"context", "guardTools", "plan"} => round < cfg.maxSteps

\* What the limit rests on.
Counts == cfg \in Configs /\ round \in 0 .. cfg.maxSteps /\ supersteps \in Nat

\* A harness that failed is left behind, and nothing is on offer any more.
Fallen ==
    /\ again = FALSE
    /\ fell \in BOOLEAN
    /\ at \in Harness => cfg.mode = "fast" /\ ~fell
    /\ at \in GraphNodes \cup {"child"} => ~fell
    /\ usable # {} => cfg.mode = "fast" /\ ~fell

\* Which step each place has open; the refused child of a continued run leaves its own.
Mine ==
    CASE at = "llm" -> {"decision"} [] at = "forced" -> {"final"}
      [] at = "plain" -> {"answer"} [] at = "child" -> {"delegate"} [] OTHER -> {}
Left == IF cfg.continued THEN {"delegate"} ELSE {}
StepsOpen ==
    /\ status # "running" => at \in {"closed", "ended", "dead"}
    /\ faults \in Nat
    /\ faults = 0 /\ status # "failed" => open \subseteq Mine \cup Left
-----------------------------------------------------------------------------
\* The configuration never changes and gives the bounds of the loop.
LEMMA ConfigBounds ==
    ASSUME cfg \in Configs
    PROVE  cfg.maxSteps \in 1 .. 10 /\ cfg.budget \in 0 .. 3
BY AgentGraphAssumption DEF Configs, Requests

\* A run begins with nothing counted.
LEMMA CountsInit == Init => Counts /\ Progress
<1> SUFFICES ASSUME Init PROVE Counts /\ Progress
  OBVIOUS
<1>1. cfg \in Configs /\ cfg.maxSteps \in 1 .. 10
  BY ConfigBounds DEF Init
<1> QED BY <1>1 DEF Init, Counts, Progress

\* Each node of the graph adds one superstep, each planning one round.
LEMMA CountsStep ==
    ASSUME Counts, Progress, Fallen, [Next]_vars
    PROVE  Counts' /\ Progress'
<1> USE DEF Counts, Progress, Node, Same
<1>0. cfg.maxSteps \in 1 .. 10
  BY ConfigBounds
<1>1. CASE Context
  BY <1>0, <1>1 DEF Context
<1>2. CASE GuardTools
  BY <1>0, <1>2 DEF GuardTools
<1>3. CASE Plan
  <2>1. at' \in {"tool", "delegate", "final"} /\ round' = round + 1
    BY <1>3 DEF Plan
  <2> QED BY <1>0, <1>3, <2>1 DEF Plan
<1>4. CASE PlanFails \/ PlanUnsaved
  BY <1>0, <1>4 DEF PlanFails, PlanUnsaved
<1>5. CASE Tool
  BY <1>0, <1>5 DEF Tool
<1>6. CASE Delegate
  <2>1. at = "delegate" /\ UNCHANGED <<cfg, round>> /\ supersteps' = supersteps + 1
    BY <1>6 DEF Delegate
  <2>2. at' = "observe" \/ at' = "child"
    BY <1>6 DEF Delegate
  <2> QED BY <1>0, <2>1, <2>2
<1>7. CASE Observe
  BY <1>0, <1>7 DEF Observe, Exhausted
<1>8. CASE Reflect
  <2>1. at = "reflect" /\ UNCHANGED <<cfg, round>> /\ supersteps' = supersteps + 1
    BY <1>8 DEF Reflect
  <2>2. at' = "final" \/ (at' = "plan" /\ round < cfg.maxSteps)
    BY <1>0, <1>8 DEF Reflect, Exhausted
  <2> QED BY <1>0, <2>1, <2>2
<1>9. CASE Final
  BY <1>0, <1>9 DEF Final
<1>10. CASE Child /\ cfg.mode # "fast"
  BY <1>0, <1>10 DEF Child
<1>11. CASE UNCHANGED <<cfg, round, supersteps>> /\ at' \in Harness \cup {"answer", "plain", "memory", "closing", "closed", "ended", "dead"}
  BY <1>0, <1>11 DEF Harness
<1>12. CASE DelegateCall \/ ChildRefused
  <2>1. CASE DelegateCall
    BY <1>0, <2>1 DEF DelegateCall, Answering, Fallen, Harness
  <2> QED BY <1>0, <1>12, <2>1, <1>11 DEF DelegateCall, ChildRefused, Throw, FallBack, Fail, Answering
<1>13. CASE Answer \/ Llm \/ LlmFails \/ NextRound("calls") \/ Answered("forced", "final") \/ ForcedFails
         \/ Answered("plain", "answer") \/ PlainFails \/ Memory \/ Close \/ Return \/ StorageFails \/ Crash
         \/ (Child /\ cfg.mode = "fast")
  <2>1. at' \in {"plain", "llm", "calls", "memory", "forced", "answer", "ended", "closing", "closed", "dead"}
    BY <1>13 DEF Answer, Llm, LlmFails, NextRound, Answered, ForcedFails, PlainFails, Memory, Close, Return, StorageFails,
                 Crash, Child, Fail, FallBack
  <2>2. UNCHANGED <<cfg, round, supersteps>>
    BY <1>13 DEF Answer, Llm, LlmFails, NextRound, Answered, ForcedFails, PlainFails, Memory, Close, Return, StorageFails,
                 Crash, Child, Answering
  <2> QED BY <2>1, <2>2, <1>11 DEF Harness
<1>14. CASE UNCHANGED vars
  BY <1>14 DEF vars
<1> QED BY <1>1, <1>2, <1>3, <1>4, <1>5, <1>6, <1>7, <1>8, <1>9, <1>10, <1>12, <1>13, <1>14 DEF Next, Step

\* Nothing has failed.
LEMMA FallenInit == Init => Fallen
BY DEF Init, Fallen, Harness

\* Every way out of the harness that is a failure takes its tools away.
LEMMA FallenStep ==
    ASSUME Fallen, [Next]_vars
    PROVE  Fallen'
<1> USE DEF Fallen, Harness, GraphNodes, Node, Same, Answering
<1>1. CASE Context \/ GuardTools \/ Plan \/ PlanFails \/ PlanUnsaved
  BY <1>1 DEF Context, GuardTools, Plan, PlanFails, PlanUnsaved, Fault
<1>2. CASE Tool \/ Observe \/ Reflect
  BY <1>2 DEF Tool, Observe, Reflect
<1>3. CASE Delegate
  BY <1>3 DEF Delegate
<1>4. CASE Final
  BY <1>4 DEF Final
<1>5. CASE Answer
  BY <1>5 DEF Answer
<1>6. CASE Llm
  BY <1>6 DEF Llm
<1>7. CASE LlmFails \/ ForcedFails \/ ChildRefused \/ StorageFails
  BY <1>7 DEF LlmFails, ForcedFails, ChildRefused, StorageFails, Throw, FallBack, Fail
<1>8. CASE DelegateCall
  BY <1>8 DEF DelegateCall
<1>9. CASE NextRound("calls")
  BY <1>9 DEF NextRound
<1>10. CASE Child
  BY <1>10 DEF Child, NextRound
<1>11. CASE Answered("forced", "final") \/ Answered("plain", "answer") \/ PlainFails \/ Memory \/ Close \/ Return \/ Crash
  BY <1>11 DEF Answered, PlainFails, Memory, Close, Return, Crash, Fail
<1>12. CASE UNCHANGED vars
  BY <1>12 DEF vars
<1> QED BY <1>1, <1>2, <1>3, <1>4, <1>5, <1>6, <1>7, <1>8, <1>9, <1>10, <1>11, <1>12 DEF Next, Step

\* Nothing is open.
LEMMA StepsInit == Init => StepsOpen
BY DEF Init, StepsOpen

\* Each place closes what it opened, on its error path too.
LEMMA StepsStep ==
    ASSUME StepsOpen, [Next]_vars
    PROVE  StepsOpen'
<1> USE DEF StepsOpen, Mine, Left, Node, Same, Answering, Opened, Closed
<1>1. CASE Context \/ GuardTools \/ Plan \/ PlanFails \/ PlanUnsaved
  BY <1>1 DEF Context, GuardTools, Plan, PlanFails, PlanUnsaved, Fault
<1>2. CASE Tool \/ Observe \/ Reflect \/ Final
  BY <1>2 DEF Tool, Observe, Reflect, Final
<1>3. CASE Delegate
  BY <1>3 DEF Delegate
<1>4. CASE Answer
  BY <1>4 DEF Answer
<1>5. CASE Llm
  BY <1>5 DEF Llm
<1>6. CASE LlmFails \/ ForcedFails
  BY <1>6 DEF LlmFails, ForcedFails, FallBack
<1>7. CASE ChildRefused
  BY <1>7 DEF ChildRefused, Throw, FallBack, Fail
<1>8. CASE DelegateCall
  BY <1>8 DEF DelegateCall
<1>9. CASE NextRound("calls")
  BY <1>9 DEF NextRound
<1>10. CASE Child
  BY <1>10 DEF Child, NextRound
<1>11. CASE Answered("forced", "final") \/ Answered("plain", "answer")
  BY <1>11 DEF Answered
<1>12. CASE PlainFails \/ Memory \/ Close \/ Return
  BY <1>12 DEF PlainFails, Memory, Close, Return, Fail
<1>13. CASE StorageFails \/ Crash
  BY <1>13 DEF StorageFails, Crash, Fault, Fail, FallBack, InHarness, Harness
<1>14. CASE UNCHANGED vars
  BY <1>14 DEF vars
<1> QED BY <1>1, <1>2, <1>3, <1>4, <1>5, <1>6, <1>7, <1>8, <1>9, <1>10, <1>11, <1>12, <1>13, <1>14 DEF Next, Step
-----------------------------------------------------------------------------
RunInv == Counts /\ Progress /\ Fallen /\ StepsOpen

\* Together, for one run.
LEMMA RunInvAlways == Spec => []RunInv
<1>1. Init => RunInv
  BY CountsInit, FallenInit, StepsInit DEF RunInv
<1>2. RunInv /\ [Next]_vars => RunInv'
  BY CountsStep, FallenStep, StepsStep DEF RunInv
<1> QED BY <1>1, <1>2, PTL DEF Spec

\* executeAgentRun: the graph never reaches the recursion limit it is given.
THEOREM LimitCorrect == Spec => []WithinRecursionLimit
<1>1. RunInv => WithinRecursionLimit
  BY ConfigBounds DEF RunInv, Counts, Progress, WithinRecursionLimit, Limit
<1> QED BY <1>1, RunInvAlways, PTL

\* generateFinalAgentOutput: the fall-back calls no tool and no agent.
THEOREM NothingCalledAgainCorrect == Spec => []NothingCalledAgain
<1>1. Init => Fallen
  BY FallenInit
<1>2. Fallen => NothingCalledAgain
  BY DEF Fallen, NothingCalledAgain
<1> QED BY <1>1, <1>2, FallenStep, PTL DEF Spec

\* A succeeded run has closed its steps, but for the two named exceptions.
THEOREM SucceededIsSettledCorrect == Spec => []SucceededIsSettled
<1>1. Init => StepsOpen
  BY StepsInit
<1>2. StepsOpen => SucceededIsSettled
  BY DEF StepsOpen, Mine, Left, SucceededIsSettled
<1> QED BY <1>1, <1>2, StepsStep, PTL DEF Spec

\* What there is beside the rounds: the flags, the counters and the open steps.
Flags == failing \in BOOLEAN /\ last \in BOOLEAN /\ fell \in BOOLEAN /\ again \in BOOLEAN
Places ==
    /\ at \in GraphNodes \cup Harness \cup {"child", "answer", "plain", "memory", "closing", "closed", "ended", "dead"}
    /\ usable \subseteq {"tools", "subs"} /\ open \subseteq {"decision", "answer", "final", "delegate"}
    /\ status \in {"running", "succeeded", "failed"}
Counters ==
    /\ attempts \in 0 .. 3 /\ retries \in 0 .. 3 /\ hround \in 0 .. 10
    /\ faults \in 0 .. MaxFaults

\* The flags stay flags.
LEMMA FlagsStep ==
    ASSUME Flags, [Next]_vars
    PROVE  Flags'
<1> USE DEF Flags, Node, Same, Answering
<1>1. CASE Context \/ GuardTools
  BY <1>1 DEF Context, GuardTools
<1>2. CASE Plan
  BY <1>2 DEF Plan, Silent, Exhausted
<1>3. CASE PlanFails \/ PlanUnsaved
  BY <1>3 DEF PlanFails, PlanUnsaved, Retries
<1>4. CASE Tool
  BY <1>4 DEF Tool, Observed
<1>5. CASE Delegate
  BY <1>5 DEF Delegate, Observed
<1>6. CASE Observe
  BY <1>6 DEF Observe
<1>7. CASE Reflect
  BY <1>7 DEF Reflect, Exhausted
<1>8. CASE Final
  BY <1>8 DEF Final
<1>9. CASE Answer
  BY <1>9 DEF Answer
<1>10. CASE Llm
  BY <1>10 DEF Llm
<1>11. CASE LlmFails \/ ForcedFails
  BY <1>11 DEF LlmFails, ForcedFails, FallBack
<1>12. CASE ChildRefused
  BY <1>12 DEF ChildRefused, Throw, FallBack, Fail
<1>13. CASE DelegateCall
  BY <1>13 DEF DelegateCall
<1>14. CASE NextRound("calls")
  BY <1>14 DEF NextRound
<1>15. CASE Child
  BY <1>15 DEF Child, NextRound, Observed
<1>16. CASE Answered("forced", "final") \/ Answered("plain", "answer")
  BY <1>16 DEF Answered
<1>17. CASE PlainFails \/ Memory \/ Close \/ Return
  BY <1>17 DEF PlainFails, Memory, Close, Return, Fail
<1>18. CASE StorageFails \/ Crash
  BY <1>18 DEF StorageFails, Crash, Fault, Fail, FallBack
<1>19. CASE UNCHANGED vars
  BY <1>19 DEF vars
<1> QED BY <1>1, <1>2, <1>3, <1>4, <1>5, <1>6, <1>7, <1>8, <1>9, <1>10, <1>11, <1>12, <1>13, <1>14, <1>15, <1>16, <1>17, <1>18, <1>19 DEF Next, Step

\* Every step ends at a known place.
LEMMA PlacesStep ==
    ASSUME Places, [Next]_vars
    PROVE  Places'
<1> USE DEF Places, Harness, GraphNodes, Node, Same, Answering, Opened, Closed
<1>1. CASE Context \/ GuardTools
  BY <1>1 DEF Context, GuardTools
<1>2. CASE Plan
  BY <1>2 DEF Plan, Silent, Exhausted
<1>3. CASE PlanFails \/ PlanUnsaved
  BY <1>3 DEF PlanFails, PlanUnsaved, Retries
<1>4. CASE Tool
  BY <1>4 DEF Tool, Observed
<1>5. CASE Delegate
  BY <1>5 DEF Delegate, Observed
<1>6. CASE Observe
  BY <1>6 DEF Observe
<1>7. CASE Reflect
  BY <1>7 DEF Reflect, Exhausted
<1>8. CASE Final
  BY <1>8 DEF Final
<1>9. CASE Answer
  BY <1>9 DEF Answer
<1>10. CASE Llm
  BY <1>10 DEF Llm
<1>11. CASE LlmFails \/ ForcedFails
  BY <1>11 DEF LlmFails, ForcedFails, FallBack
<1>12. CASE ChildRefused
  BY <1>12 DEF ChildRefused, Throw, FallBack, Fail
<1>13. CASE DelegateCall
  BY <1>13 DEF DelegateCall
<1>14. CASE NextRound("calls")
  BY <1>14 DEF NextRound
<1>15. CASE Child
  BY <1>15 DEF Child, NextRound, Observed
<1>16. CASE Answered("forced", "final") \/ Answered("plain", "answer")
  BY <1>16 DEF Answered
<1>17. CASE PlainFails \/ Memory \/ Close \/ Return
  BY <1>17 DEF PlainFails, Memory, Close, Return, Fail
<1>18. CASE StorageFails \/ Crash
  BY <1>18 DEF StorageFails, Crash, Fault, Fail, FallBack
<1>19. CASE UNCHANGED vars
  BY <1>19 DEF vars
<1> QED BY <1>1, <1>2, <1>3, <1>4, <1>5, <1>6, <1>7, <1>8, <1>9, <1>10, <1>11, <1>12, <1>13, <1>14, <1>15, <1>16, <1>17, <1>18, <1>19 DEF Next, Step

\* Attempts, replans and harness rounds stop at what the configuration allows.
LEMMA CountersStep ==
    ASSUME cfg \in Configs, Counters, [Next]_vars
    PROVE  Counters'
<1> USE DEF Counters, Node, Same, Answering
<1>0. cfg.maxSteps \in 1 .. 10 /\ cfg.budget \in 0 .. 3 /\ MaxFaults \in Nat
  BY ConfigBounds, AgentGraphAssumption
<1>1. CASE Context \/ GuardTools
  BY <1>0, <1>1 DEF Context, GuardTools
<1>2. CASE Plan
  BY <1>0, <1>2 DEF Plan, Silent, Exhausted
<1>3. CASE PlanFails \/ PlanUnsaved
  BY <1>0, <1>3 DEF PlanFails, PlanUnsaved, Fault, Retries
<1>4. CASE Tool
  BY <1>0, <1>4 DEF Tool, Observed
<1>5. CASE Delegate
  BY <1>0, <1>5 DEF Delegate, Observed
<1>6. CASE Observe
  BY <1>0, <1>6 DEF Observe
<1>7. CASE Reflect
  BY <1>0, <1>7 DEF Reflect, Exhausted
<1>8. CASE Final
  BY <1>0, <1>8 DEF Final
<1>9. CASE Answer
  BY <1>0, <1>9 DEF Answer
<1>10. CASE Llm
  BY <1>0, <1>10 DEF Llm
<1>11. CASE LlmFails \/ ForcedFails
  BY <1>0, <1>11 DEF LlmFails, ForcedFails, FallBack
<1>12. CASE ChildRefused
  BY <1>0, <1>12 DEF ChildRefused, Throw, FallBack, Fail
<1>13. CASE DelegateCall
  BY <1>0, <1>13 DEF DelegateCall
<1>14. CASE NextRound("calls")
  BY <1>0, <1>14 DEF NextRound
<1>15. CASE Child
  BY <1>0, <1>15 DEF Child, NextRound, Observed
<1>16. CASE Answered("forced", "final") \/ Answered("plain", "answer")
  BY <1>0, <1>16 DEF Answered
<1>17. CASE PlainFails \/ Memory \/ Close \/ Return
  BY <1>0, <1>17 DEF PlainFails, Memory, Close, Return, Fail
<1>18. CASE StorageFails \/ Crash
  BY <1>0, <1>18 DEF StorageFails, Crash, Fault, Fail, FallBack
<1>19. CASE UNCHANGED vars
  BY <1>19 DEF vars
<1> QED BY <1>1, <1>2, <1>3, <1>4, <1>5, <1>6, <1>7, <1>8, <1>9, <1>10, <1>11, <1>12, <1>13, <1>14, <1>15, <1>16, <1>17, <1>18, <1>19 DEF Next, Step

\* Rounds, attempts, replans, open steps and offers keep their types.
THEOREM RunTypeCorrect == Spec => []TypeOK
<1>1. Init => Flags /\ Places /\ Counters
  <2>1. Init => Flags
    BY DEF Init, Flags
  <2>2. Init => Places
    BY DEF Init, Places, GraphNodes
  <2>3. Init => Counters
    BY AgentGraphAssumption DEF Init, Counters
  <2> QED BY <2>1, <2>2, <2>3
<1>2. RunInv /\ Flags /\ Places /\ Counters /\ [Next]_vars => (Flags /\ Places /\ Counters)'
  BY FlagsStep, PlacesStep, CountersStep DEF RunInv, Counts
<1>3. RunInv /\ Flags /\ Places /\ Counters => TypeOK
  BY DEF RunInv, Counts, Flags, Places, Counters, TypeOK
<1> QED BY <1>1, <1>2, <1>3, RunInvAlways, PTL DEF Spec
-----------------------------------------------------------------------------
(* The versions of an agent.                                               *)

\* What holds of each state by itself: no two releases, no two trials.
AtMostOne(s) == \A v, w \in Number : version[v] = s /\ version[w] = s => v = w
Single == AtMostOne("released") /\ AtMostOne("canary")

\* A canary has a release beside it unless it was let in by an old view.
TrialHasRelease == With(version, "canary") # {} => With(version, "released") # {} \/ stale

\* A creation is not given a version.
CreatesNew == \A x \in Txn : txn[x].at = "lock" /\ txn[x].op = "create" => txn[x].target = 0

VersionInv == VersionTypeOK /\ CreatesNew /\ Single /\ TrialHasRelease /\ CallsAreServed
-----------------------------------------------------------------------------
\* A set in which any two elements are equal has at most one.
LEMMA AtMostOneCounts ==
    ASSUME NEW S, S \subseteq Number, \A v, w \in S : v = w
    PROVE  Cardinality(S) <= 1
<1>1. CASE S = {}
  BY <1>1, FS_EmptySet
<1>2. CASE S # {}
  <2>1. PICK v \in S : S = {v}
    BY <1>2
  <2> QED BY <2>1, FS_Singleton
<1> QED BY <1>1, <1>2

\* The same in the words of OneRelease.
LEMMA SingleCounts ==
    ASSUME Single
    PROVE  OneRelease
<1>1. Cardinality(With(version, "released")) <= 1
  BY AtMostOneCounts DEF Single, AtMostOne, With
<1>2. Cardinality(With(version, "canary")) <= 1
  BY AtMostOneCounts DEF Single, AtMostOne, With
<1> QED BY <1>1, <1>2 DEF OneRelease

\* What an idle transaction looks like.
LEMMA IdleType ==
    Idle \in [at : {"idle", "lock"}, op : Ops, target : 0 .. MaxVersion, view : [Number -> Status]]
BY AgentVersionsAssumption DEF Idle, Ops, Status

\* The initial state has no version and no call.
LEMMA InitHolds == VersionInit => VersionInv
<1> SUFFICES ASSUME VersionInit PROVE VersionInv
  OBVIOUS
<1>1. VersionTypeOK
  <2>1. version \in [Number -> Status]
    BY DEF VersionInit, Status
  <2>2. txn \in [Txn -> [at : {"idle", "lock"}, op : Ops, target : 0 .. MaxVersion, view : [Number -> Status]]]
    BY IdleType DEF VersionInit
  <2>3. requests \in 0 .. MaxRequests
    BY AgentVersionsAssumption DEF VersionInit
  <2>4. call \in [Caller -> {"idle", "live", "refused", "released", "canary"}] /\ clash \subseteq Ops /\ stale \in BOOLEAN
    BY DEF VersionInit
  <2> QED BY <2>1, <2>2, <2>3, <2>4 DEF VersionTypeOK
<1>2. Single /\ TrialHasRelease
  BY DEF VersionInit, Single, AtMostOne, TrialHasRelease, With
<1>3. CallsAreServed /\ CreatesNew
  BY DEF VersionInit, CallsAreServed, CreatesNew, Idle
<1> QED BY <1>1, <1>2, <1>3 DEF VersionInv

\* Every step keeps the types.
LEMMA TypeStep ==
    ASSUME VersionTypeOK, [VersionNext]_versionVars
    PROVE  VersionTypeOK'
<1> USE DEF VersionTypeOK, Status, Ops
<1>1. ASSUME NEW x \in Txn, Request(x) PROVE VersionTypeOK'
  <2>1. PICK op \in Ops, target \in Present(version) \cup {0} :
            txn' = [txn EXCEPT ![x] = [at |-> "lock", op |-> op, target |-> target, view |-> version]]
    BY <1>1 DEF Request
  <2>2. target \in 0 .. MaxVersion
    BY AgentVersionsAssumption DEF Present, Number
  <2>3. requests' \in 0 .. MaxRequests
    BY <1>1, AgentVersionsAssumption DEF Request
  <2> QED BY <1>1, <2>1, <2>2, <2>3 DEF Request
<1>2. ASSUME NEW x \in Txn, Clash(x) PROVE VersionTypeOK'
  BY <1>2, IdleType DEF Clash, Leaves, Does
<1>3. ASSUME NEW x \in Txn, CreateVersion(x) PROVE VersionTypeOK'
  BY <1>3, IdleType DEF CreateVersion, Does
<1>4. ASSUME NEW x \in Txn, PublishStable(x) PROVE VersionTypeOK'
  BY <1>4, IdleType DEF PublishStable, Does, Stable
<1>5. ASSUME NEW x \in Txn, PublishCanary(x) PROVE VersionTypeOK'
  <2>1. version' \in [Number -> Status]
    BY <1>5 DEF PublishCanary
  <2>2. stale' \in BOOLEAN
    BY <1>5 DEF PublishCanary
  <2> QED BY <1>5, IdleType, <2>1, <2>2 DEF PublishCanary, Does
<1>6. ASSUME NEW x \in Txn, RollBack(x) PROVE VersionTypeOK'
  BY <1>6, IdleType DEF RollBack, Does
<1>7. ASSUME NEW c \in Caller, Call(c) PROVE VersionTypeOK'
  BY <1>7 DEF Call
<1>8. CASE UNCHANGED versionVars
  BY <1>8 DEF versionVars
<1> QED BY <1>1, <1>2, <1>3, <1>4, <1>5, <1>6, <1>7, <1>8 DEF VersionNext

\* No step gives a creation under way a version.
LEMMA CreatesStep ==
    ASSUME VersionTypeOK, CreatesNew, [VersionNext]_versionVars
    PROVE  CreatesNew'
<1> USE DEF VersionTypeOK, CreatesNew
<1>1. ASSUME NEW x \in Txn, txn' = [txn EXCEPT ![x] = Idle] PROVE CreatesNew'
  BY <1>1 DEF Idle
<1>2. ASSUME NEW x \in Txn, Request(x) PROVE CreatesNew'
  <2>1. PICK op \in Ops, target \in Present(version) \cup {0} :
            /\ op = "create" => target = 0
            /\ txn' = [txn EXCEPT ![x] = [at |-> "lock", op |-> op, target |-> target, view |-> version]]
    BY <1>2 DEF Request
  <2> QED BY <2>1
<1>3. CASE UNCHANGED txn
  BY <1>3
<1> QED BY <1>1, <1>2, <1>3 DEF VersionNext, versionVars, Clash, Leaves, Does, CreateVersion, PublishStable, PublishCanary, RollBack, Call

\* No publication, roll back or creation, whatever view it works on, leaves two
\* releases or two trials: each clears the others on the rows as they are.
LEMMA SingleStep ==
    ASSUME VersionTypeOK, Single, [VersionNext]_versionVars
    PROVE  Single'
<1> USE DEF VersionTypeOK, Single, AtMostOne
<1>1. CASE UNCHANGED version
  BY <1>1
<1>2. ASSUME NEW x \in Txn, CreateVersion(x) PROVE Single'
  BY <1>2 DEF CreateVersion
<1>3. ASSUME NEW x \in Txn, PublishStable(x) PROVE Single'
  BY <1>3 DEF PublishStable, Stable
<1>4. ASSUME NEW x \in Txn, PublishCanary(x) PROVE Single'
  <2>1. CASE HasStable(x) /\ version' = [v \in Number |-> IF v = Own(x) THEN "canary"
                                 ELSE IF version[v] = "canary" THEN "superseded" ELSE version[v]]
    BY <2>1
  <2>2. CASE UNCHANGED version
    BY <2>2
  <2> QED BY <1>4, <2>1, <2>2 DEF PublishCanary
<1>5. ASSUME NEW x \in Txn, RollBack(x) PROVE Single'
  BY <1>5 DEF RollBack
<1>6. ASSUME NEW x \in Txn, Request(x) \/ Clash(x) PROVE UNCHANGED version
  BY <1>6 DEF Request, Clash, Leaves
<1>7. ASSUME NEW c \in Caller, Call(c) PROVE UNCHANGED version
  BY <1>7 DEF Call
<1> QED BY <1>1, <1>2, <1>3, <1>4, <1>5, <1>6, <1>7 DEF VersionNext, versionVars

\* The record of a stale view is never taken back.
LEMMA StaleStays ==
    ASSUME VersionTypeOK, [VersionNext]_versionVars, stale
    PROVE  stale'
<1>1. ASSUME NEW x \in Txn, PublishCanary(x) PROVE stale'
  BY <1>1 DEF PublishCanary
<1>2. ASSUME NEW x \in Txn, Request(x) \/ Clash(x) \/ CreateVersion(x) \/ PublishStable(x) \/ RollBack(x)
      PROVE  stale'
  BY <1>2 DEF Request, Clash, Leaves, CreateVersion, PublishStable, RollBack
<1>3. ASSUME NEW c \in Caller, Call(c) PROVE stale'
  BY <1>3 DEF Call
<1> QED BY <1>1, <1>2, <1>3 DEF VersionNext, versionVars

\* A trial begins beside a release that is still there, if the view was right, and
\* what ends the release ends the trial too.
LEMMA TrialStep ==
    ASSUME VersionTypeOK, CreatesNew, TrialHasRelease, [VersionNext]_versionVars
    PROVE  TrialHasRelease'
<1> SUFFICES ASSUME ~stale', With(version, "canary")' # {} PROVE With(version, "released")' # {}
  BY DEF TrialHasRelease
<1>s. ~stale
  BY StaleStays
<1>1. CASE UNCHANGED version
  BY <1>1, <1>s DEF TrialHasRelease, With
<1>2. ASSUME NEW x \in Txn, CreateVersion(x) PROVE With(version, "released")' # {}
  <2>1. \A v \in Number : version'[v] = version[v] \/ (version[v] = "absent" /\ version'[v] = "draft")
    <3>1. CASE Own(x) \in Number /\ txn[x].target = 0
      BY <1>2, <3>1 DEF CreateVersion, Fits, VersionTypeOK
    <3>2. CASE Own(x) \notin Number
      BY <1>2, <3>2 DEF CreateVersion, VersionTypeOK
    <3>3. txn[x].target = 0
      BY <1>2 DEF CreateVersion, Does, CreatesNew
    <3> QED BY <3>1, <3>2, <3>3
  <2> QED BY <2>1, <1>s DEF TrialHasRelease, With
<1>3. ASSUME NEW x \in Txn, PublishStable(x) PROVE With(version, "released")' # {}
  BY <1>3 DEF PublishStable, Stable, With, VersionTypeOK
<1>4. ASSUME NEW x \in Txn, PublishCanary(x) PROVE With(version, "released")' # {}
  <2>1. CASE UNCHANGED version
    BY <2>1, <1>1
  <2>2. CASE /\ HasStable(x)
             /\ version' = [v \in Number |-> IF v = Own(x) THEN "canary"
                             ELSE IF version[v] = "canary" THEN "superseded" ELSE version[v]]
             /\ stale' = (stale \/ With(version, "released") # With(View(x), "released"))
    <3>1. PICK v \in With(View(x), "released") : v # Own(x)
      BY <2>2 DEF HasStable
    <3>2. v \in With(version, "released")
      BY <2>2, <3>1
    <3>3. v \in With(version, "released")'
      BY <2>2, <3>1, <3>2 DEF With
    <3> QED BY <3>3
  <2> QED BY <1>4, <2>1, <2>2 DEF PublishCanary
<1>5. ASSUME NEW x \in Txn, RollBack(x) PROVE With(version, "released")' # {}
  BY <1>5 DEF RollBack, With, VersionTypeOK
<1>6. ASSUME NEW x \in Txn, Request(x) \/ Clash(x) PROVE UNCHANGED version
  BY <1>6 DEF Request, Clash, Leaves
<1>7. ASSUME NEW c \in Caller, Call(c) PROVE UNCHANGED version
  BY <1>7 DEF Call
<1> QED BY <1>1, <1>2, <1>3, <1>4, <1>5, <1>6, <1>7 DEF VersionNext, versionVars

\* A refusal needs a trial without a release.
LEMMA ServedStep ==
    ASSUME VersionTypeOK, TrialHasRelease, CallsAreServed, [VersionNext]_versionVars
    PROVE  CallsAreServed'
<1> SUFFICES ASSUME NEW d \in Caller, call'[d] = "refused" PROVE stale'
  BY DEF CallsAreServed
<1>1. CASE call[d] = "refused"
  BY <1>1, StaleStays DEF CallsAreServed
<1>2. CASE call[d] # "refused"
  <2>1. PICK c \in Caller : Call(c)
    BY <1>2 DEF VersionNext, versionVars, Request, Clash, Leaves, CreateVersion, PublishStable, PublishCanary, RollBack
  <2>2. c = d
    BY <1>2, <2>1 DEF Call, VersionTypeOK
  <2>3. With(version, "released") = {} /\ With(version, "canary") # {}
    BY <2>1, <2>2 DEF Call, VersionTypeOK
  <2> QED BY <2>1, <2>3, StaleStays DEF TrialHasRelease
<1> QED BY <1>1, <1>2

\* The steps of the parts together.
LEMMA StepHolds ==
    ASSUME VersionInv, [VersionNext]_versionVars
    PROVE  VersionInv'
BY TypeStep, CreatesStep, SingleStep, TrialStep, ServedStep DEF VersionInv

THEOREM VersionInvHolds == VersionSpec => []VersionInv
<1>1. VersionInit => VersionInv
  BY InitHolds
<1>2. VersionInv /\ [VersionNext]_versionVars => VersionInv'
  BY StepHolds
<1> QED BY <1>1, <1>2, PTL DEF VersionSpec
-----------------------------------------------------------------------------
\* Versions, transactions and calls keep their types.
THEOREM VersionTypeCorrect == VersionSpec => []VersionTypeOK
<1>1. VersionInv => VersionTypeOK
  BY DEF VersionInv
<1> QED BY <1>1, VersionInvHolds, PTL

\* publishVersion, rollbackToVersion: at most one version is released and one on trial.
THEOREM OneReleaseCorrect == VersionSpec => []OneRelease
<1>1. VersionInv => OneRelease
  BY SingleCounts DEF VersionInv
<1> QED BY <1>1, VersionInvHolds, PTL

\* runPublished: a call is refused only after a publication on a stale view.
THEOREM CallsAreServedCorrect == VersionSpec => []CallsAreServed
<1>1. VersionInv => CallsAreServed
  BY DEF VersionInv
<1> QED BY <1>1, VersionInvHolds, PTL
-----------------------------------------------------------------------------
(* Creations wait for each other.                                          *)

\* The versions of a view are numbered from 1 without gaps.
Numbered(view, k) == Present(view) = 1 .. k

\* Requests that will create a version.
Pending == {y \in Txn : Creating(y)}

\* Version numbers have no gaps, in the rows and in every view; no view has a
\* version that is gone; there is room for the versions that are on their way.
SerialInv ==
    /\ \E k \in 0 .. MaxVersion : Numbered(version, k)
    /\ \A x \in Txn : txn[x].at = "lock" =>
         /\ \E k \in 0 .. MaxVersion : Numbered(txn[x].view, k)
         /\ Present(txn[x].view) \subseteq Present(version)
         /\ txn[x].target # 0 => txn[x].target \in Present(version)
    /\ Cardinality(Present(version)) + Cardinality(Pending) <= MaxVersion
    /\ CreationSerial

\* The largest number of versions without gaps is their count.
LEMMA NumberedCount ==
    ASSUME NEW view, NEW k \in 0 .. MaxVersion, Numbered(view, k)
    PROVE  /\ Cardinality(Present(view)) = k /\ NextVersion(view) = k + 1
           /\ IsFiniteSet(Present(view))
<1>1. k \in Int /\ k >= 0 /\ k \in Nat
  BY AgentVersionsAssumption
<1>2. IsFiniteSet(1 .. k) /\ Cardinality(1 .. k) = k
  BY <1>1, FS_Interval
<1>3. Max(0 .. k) = k
  BY <1>1 DEF Max
<1>4. (1 .. k) \cup {0} = 0 .. k
  BY <1>1
<1> QED BY <1>1, <1>2, <1>3, <1>4 DEF Numbered, NextVersion

\* The creations under way are finitely many.
LEMMA PendingCount ==
    ASSUME NEW x \in Txn
    PROVE  /\ IsFiniteSet(Pending) /\ Cardinality(Pending) \in Nat
           /\ IsFiniteSet(Pending \ {x}) /\ Cardinality(Pending \ {x}) \in Nat
           /\ x \in Pending => Cardinality(Pending) = Cardinality(Pending \ {x}) + 1
           /\ x \notin Pending => Pending \ {x} = Pending
<1>1. IsFiniteSet(Pending) /\ IsFiniteSet(Pending \ {x})
  <2>1. Pending \subseteq Txn /\ Pending \ {x} \subseteq Txn
    BY DEF Pending
  <2> QED BY <2>1, FS_Subset, AgentVersionsAssumption
<1>2. Cardinality(Pending) \in Nat /\ Cardinality(Pending \ {x}) \in Nat
  BY <1>1, FS_CardinalityType
<1>3. x \in Pending => Cardinality(Pending \ {x}) = Cardinality(Pending) - 1
  BY <1>1, FS_RemoveElement
<1> QED BY <1>1, <1>2, <1>3

\* A request whose number is free adds the next number, also when it read
\* the largest one in an old view; and the number of a creation is always free.
LEMMA OwnIsNext ==
    ASSUME VersionTypeOK, SerialInv, NEW x \in Txn, Creating(x), NEW k \in 0 .. MaxVersion,
           Numbered(version, k)
    PROVE  /\ k + 1 \in Number /\ version[k + 1] = "absent"
           /\ txn[x].op = "create" => Own(x) = k + 1
           /\ Fits(x) => Own(x) = k + 1
<1>1. k \in Nat /\ MaxVersion \in Nat /\ Cardinality(Present(version)) = k
  BY NumberedCount, AgentVersionsAssumption
<1>2. Cardinality(Pending) >= 1 /\ Cardinality(Pending) \in Nat
  <2>1. x \in Pending
    BY DEF Pending
  <2>2. /\ Cardinality(Pending) \in Nat /\ Cardinality(Pending \ {x}) \in Nat
        /\ Cardinality(Pending) = Cardinality(Pending \ {x}) + 1
    BY <2>1, PendingCount
  <2> QED BY <2>2
<1>3. k + 1 \in Number
  BY <1>1, <1>2 DEF SerialInv, Number
<1>4. version[k + 1] = "absent"
  BY <1>1, <1>3 DEF Numbered, Present, With
<1>5. txn[x].op = "create" => Own(x) = k + 1
  BY NumberedCount DEF Creating, Own, View
<1>6. ASSUME txn[x].op # "create", Fits(x) PROVE Own(x) = k + 1
  <2>1. PICK j \in 0 .. MaxVersion : Numbered(txn[x].view, j)
    BY DEF SerialInv, Creating
  <2>2. j \in Nat /\ Own(x) = j + 1
    BY <1>6, <2>1, NumberedCount, AgentVersionsAssumption DEF Creating, Own, View
  <2>3. 1 .. j \subseteq 1 .. k
    BY <2>1 DEF Numbered, SerialInv, Creating
  <2>4. j <= k
    BY <1>1, <2>2, <2>3
  <2>5. version[j + 1] = "absent" /\ j + 1 \in Number
    BY <1>1, <1>3, <1>6, <2>2, <2>4 DEF Fits, Creating, Number
  <2>6. j + 1 \notin 1 .. k
    BY <2>5 DEF Numbered, Present, With
  <2> QED BY <1>1, <2>2, <2>4, <2>6
<1> QED BY <1>3, <1>4, <1>5, <1>6

\* What a transaction does to the numbers when it gets the row of the agent.
LEMMA CommitNumbers ==
    ASSUME VersionTypeOK, CreatesNew, SerialInv, NEW x \in Txn, NEW k \in 0 .. MaxVersion,
           Numbered(version, k),
           CreateVersion(x) \/ PublishStable(x) \/ PublishCanary(x) \/ RollBack(x)
    PROVE  \/ Present(version)' = Present(version)
           \/ Creating(x) /\ k + 1 \in Number /\ Numbered(version, k + 1)'
<1> USE DEF VersionTypeOK
<1>1. txn[x].at = "lock" /\ txn[x].target \in 0 .. MaxVersion
  BY DEF CreateVersion, PublishStable, PublishCanary, RollBack, Does
<1>2. k \in Nat
  BY AgentVersionsAssumption
<1>3. CASE \A v \in Number : version'[v] = "absent" <=> version[v] = "absent"
  BY <1>3 DEF Present, With
<1>4. ASSUME NEW n \in Number, \A v \in Number : version'[v] = "absent" <=> (v # n /\ version[v] = "absent"),
             n = Own(x), Fits(x)
      PROVE  \/ Present(version)' = Present(version)
             \/ Creating(x) /\ k + 1 \in Number /\ Numbered(version, k + 1)'
  <2>1. Present(version)' = Present(version) \cup {n}
    BY <1>4 DEF Present, With
  <2>2. CASE txn[x].target # 0
    <3>1. n \in Present(version)
      BY <1>1, <1>4, <2>2 DEF Own, SerialInv
    <3> QED BY <2>1, <3>1
  <2>3. CASE txn[x].target = 0
    <3>1. Creating(x) /\ k + 1 \in Number /\ n = k + 1
      BY <1>1, <1>4, <2>3, OwnIsNext DEF Creating
    <3>2. (1 .. k) \cup {k + 1} = 1 .. (k + 1)
      BY <1>2
    <3> QED BY <2>1, <3>1, <3>2 DEF Numbered
  <2> QED BY <2>2, <2>3
<1>5. ASSUME Fits(x) PROVE Own(x) \in Number
  <2>1. CASE txn[x].target = 0
    BY <1>1, <1>5, <2>1, OwnIsNext DEF Creating
  <2>2. CASE txn[x].target # 0
    BY <1>1, <2>2, AgentVersionsAssumption DEF Own, Number
  <2> QED BY <2>1, <2>2
<1>6. CASE CreateVersion(x)
  BY <1>4, <1>5, <1>6 DEF CreateVersion
<1>7. CASE PublishStable(x)
  <2>1. \A v \in Number : version'[v] = "absent" <=> (v # Own(x) /\ version[v] = "absent")
    BY <1>7 DEF PublishStable, Stable
  <2>2. Fits(x)
    BY <1>7 DEF PublishStable
  <2> QED BY <1>4, <1>5, <2>1, <2>2
<1>8. CASE PublishCanary(x)
  <2>1. Fits(x)
    BY <1>8 DEF PublishCanary
  <2>2. CASE version' = version
    BY <1>3, <2>2
  <2>3. CASE version' = [v \in Number |-> IF v = Own(x) THEN "canary"
                                          ELSE IF version[v] = "canary" THEN "superseded" ELSE version[v]]
    <3>1. \A v \in Number : version'[v] = "absent" <=> (v # Own(x) /\ version[v] = "absent")
      BY <2>3
    <3> QED BY <1>4, <1>5, <2>1, <3>1
  <2> QED BY <1>8, <2>2, <2>3 DEF PublishCanary
<1>9. CASE RollBack(x)
  <2>1. txn[x].target # 0 => txn[x].target \in Present(version)
    BY <1>1 DEF SerialInv
  <2>2. \A v \in Number : version'[v] = "absent" <=> version[v] = "absent"
    BY <1>9, <2>1 DEF RollBack, Present, With, Number
  <2> QED BY <1>3, <2>2
<1> QED BY <1>6, <1>7, <1>8, <1>9

\* The invariant is kept when transaction x ends and the numbers move as they do.
LEMMA CommitSerial ==
    ASSUME VersionTypeOK, VersionTypeOK', SerialInv, NEW x \in Txn, NEW k \in 0 .. MaxVersion,
           Numbered(version, k), txn' = [txn EXCEPT ![x] = Idle],
           \/ Present(version)' = Present(version)
           \/ Creating(x) /\ k + 1 \in Number /\ Numbered(version, k + 1)',
           clash' = clash
    PROVE  SerialInv'
<1>1. \A y \in Txn : txn'[y] = IF y = x THEN Idle ELSE txn[y]
  BY DEF VersionTypeOK
<1>2. Pending' = Pending \ {x}
  BY <1>1 DEF Pending, Creating, Idle
<1>3. k \in Nat /\ Cardinality(Present(version)) = k /\ MaxVersion \in Nat
  BY NumberedCount, AgentVersionsAssumption
<1>4. PICK m \in 0 .. MaxVersion : Numbered(version, m)' /\ (m = k \/ (Creating(x) /\ m = k + 1))
  BY <1>3 DEF Numbered, Number
<1>5. Cardinality(Present(version'))  = m
  BY <1>4, NumberedCount DEF Numbered
<1>6. Cardinality(Present(version))' + Cardinality(Pending)' <= MaxVersion
  <2>1. Cardinality(Pending') = Cardinality(Pending \ {x})
    BY <1>2
  <2>2. k + Cardinality(Pending) <= MaxVersion
    BY <1>3 DEF SerialInv
  <2>3. /\ Cardinality(Pending) \in Nat /\ Cardinality(Pending \ {x}) \in Nat
        /\ x \in Pending => Cardinality(Pending) = Cardinality(Pending \ {x}) + 1
        /\ x \notin Pending => Cardinality(Pending) = Cardinality(Pending \ {x})
    BY PendingCount
  <2>4. x \in Pending <=> Creating(x)
    BY DEF Pending
  <2> QED BY <1>3, <1>4, <1>5, <2>1, <2>2, <2>3, <2>4
<1>7. Present(version) \subseteq Present(version')
  BY <1>3, <1>4 DEF Numbered
<1>8. ASSUME NEW y \in Txn, txn'[y].at = "lock"
      PROVE  /\ \E j \in 0 .. MaxVersion : Numbered(txn'[y].view, j)
             /\ Present(txn'[y].view) \subseteq Present(version')
             /\ txn'[y].target # 0 => txn'[y].target \in Present(version')
  <2>1. txn'[y] = txn[y]
    BY <1>1, <1>8 DEF Idle
  <2> QED BY <1>7, <1>8, <2>1 DEF SerialInv
<1>9. CreationSerial'
  BY DEF SerialInv, CreationSerial
<1>10. \E j \in 0 .. MaxVersion : Numbered(version, j)'
  BY <1>4
<1> QED BY <1>6, <1>8, <1>9, <1>10 DEF SerialInv

\* A request takes its view, and its place if it will create a version.
LEMMA RequestSerial ==
    ASSUME VersionTypeOK, SerialInv, NEW x \in Txn, Request(x)
    PROVE  SerialInv'
<1>1. PICK op \in Ops, target \in Present(version) \cup {0} :
        /\ target = 0 => Cardinality(Present(version)) + Cardinality(Pending) < MaxVersion
        /\ txn' = [txn EXCEPT ![x] = [at |-> "lock", op |-> op, target |-> target, view |-> version]]
  BY DEF Request, Pending
<1>2. \A y \in Txn : txn'[y] = IF y = x THEN [at |-> "lock", op |-> op, target |-> target, view |-> version]
                               ELSE txn[y]
  BY <1>1 DEF VersionTypeOK
<1>3. txn[x].at = "idle" /\ UNCHANGED <<version, clash>>
  BY DEF Request
<1>4. Pending' = IF target = 0 THEN Pending \cup {x} ELSE Pending
  BY <1>2, <1>3 DEF Pending, Creating
<1>5. Cardinality(Pending)' <= Cardinality(Pending) + (IF target = 0 THEN 1 ELSE 0)
  <2>1. IsFiniteSet(Pending) /\ Cardinality(Pending) \in Nat
    BY PendingCount
  <2>2. Cardinality(Pending \cup {x}) <= Cardinality(Pending) + 1
    <3>1. Cardinality(Pending \cup {x}) \in {Cardinality(Pending), Cardinality(Pending) + 1}
      BY <2>1, FS_AddElement
    <3> QED BY <2>1, <3>1
  <2> QED BY <1>4, <2>1, <2>2
<1>6. PICK k \in 0 .. MaxVersion : Numbered(version, k)
  BY DEF SerialInv
<1>7. Cardinality(Present(version)) = k /\ k \in Nat /\ MaxVersion \in Nat
  BY <1>6, NumberedCount, AgentVersionsAssumption
<1>8. IsFiniteSet(Pending') /\ Cardinality(Pending)' \in Nat
  <2>1. IsFiniteSet(Pending \cup {x})
    BY PendingCount, FS_AddElement
  <2>2. IsFiniteSet(Pending')
    BY <1>4, <2>1, PendingCount
  <2> QED BY <2>2, FS_CardinalityType
<1>9. Cardinality(Present(version))' + Cardinality(Pending)' <= MaxVersion
  <2>1. Present(version)' = Present(version)
    BY <1>3
  <2>2. Cardinality(Present(version))' = k
    BY <1>7, <2>1
  <2>3. k + Cardinality(Pending) <= MaxVersion /\ (target = 0 => k + Cardinality(Pending) < MaxVersion)
    BY <1>1, <1>7 DEF SerialInv
  <2>4. Cardinality(Pending) \in Nat
    BY PendingCount
  <2> QED BY <1>5, <1>7, <1>8, <2>2, <2>3, <2>4
<1>10. ASSUME NEW y \in Txn, txn'[y].at = "lock"
       PROVE  /\ \E j \in 0 .. MaxVersion : Numbered(txn'[y].view, j)
              /\ Present(txn'[y].view) \subseteq Present(version)
              /\ txn'[y].target # 0 => txn'[y].target \in Present(version)
  BY <1>2, <1>6, <1>10 DEF SerialInv
<1> QED BY <1>3, <1>6, <1>9, <1>10 DEF SerialInv, CreationSerial

\* Requests, commits and roll backs of transactions keep the numbering.
LEMMA SerialStep ==
    ASSUME VersionTypeOK, VersionTypeOK', CreatesNew, SerialInv, [VersionNext]_versionVars
    PROVE  SerialInv'
<1>1. PICK k \in 0 .. MaxVersion : Numbered(version, k)
  BY DEF SerialInv
<1>2. ASSUME NEW x \in Txn, CreateVersion(x) \/ PublishStable(x) \/ PublishCanary(x) \/ RollBack(x)
      PROVE  SerialInv'
  <2>1. txn' = [txn EXCEPT ![x] = Idle] /\ clash' = clash
    BY <1>2 DEF CreateVersion, PublishStable, PublishCanary, RollBack, Does
  <2> QED BY <1>1, <1>2, <2>1, CommitNumbers, CommitSerial
<1>3. ASSUME NEW x \in Txn, Clash(x) PROVE SerialInv'
  <2>1. txn[x].op # "create"
    <3>1. SUFFICES ASSUME txn[x].op = "create" PROVE Fits(x)
      BY <1>3 DEF Clash
    <3>2. Creating(x)
      BY <1>3, <3>1 DEF Clash, CreatesNew, Creating
    <3> QED BY <1>1, <3>1, <3>2, OwnIsNext DEF Fits
  <2>2. txn' = [txn EXCEPT ![x] = Idle] /\ version' = version /\ clash' = clash \cup {txn[x].op}
    BY <1>3 DEF Clash, Leaves, Does
  <2>3. "create" \notin clash'
    BY <2>1, <2>2 DEF SerialInv, CreationSerial
  <2>4. \A y \in Txn : txn'[y] = IF y = x THEN Idle ELSE txn[y]
    BY <2>2 DEF VersionTypeOK
  <2>5. Pending' = Pending \ {x}
    BY <2>4 DEF Pending, Creating, Idle
  <2>6. /\ Cardinality(Pending)' <= Cardinality(Pending)
        /\ Cardinality(Pending)' \in Nat /\ Cardinality(Pending) \in Nat
    <3>1. /\ Cardinality(Pending) \in Nat /\ Cardinality(Pending \ {x}) \in Nat
          /\ x \in Pending => Cardinality(Pending) = Cardinality(Pending \ {x}) + 1
          /\ x \notin Pending => Pending \ {x} = Pending
      BY PendingCount
    <3>2. Cardinality(Pending)' = Cardinality(Pending \ {x})
      BY <2>5
    <3> QED BY <3>1, <3>2
  <2>7. Cardinality(Present(version)) = k /\ k \in Nat /\ MaxVersion \in Nat
    BY <1>1, NumberedCount, AgentVersionsAssumption
  <2>8. Cardinality(Present(version))' + Cardinality(Pending)' <= MaxVersion
    <3>1. Cardinality(Present(version))' = k /\ k + Cardinality(Pending) <= MaxVersion
      BY <2>2, <2>7 DEF SerialInv
    <3> QED BY <2>6, <2>7, <3>1
  <2>9. \A y \in Txn : txn'[y].at = "lock" => txn'[y] = txn[y]
    BY <2>4 DEF Idle
  <2> QED BY <1>1, <2>2, <2>3, <2>8, <2>9 DEF SerialInv, CreationSerial
<1>4. CASE UNCHANGED <<version, txn, clash>>
  BY <1>4 DEF SerialInv, CreationSerial, Pending, Creating, Numbered
<1>5. ASSUME NEW c \in Caller, Call(c) PROVE SerialInv'
  BY <1>4, <1>5 DEF Call
<1> QED BY <1>2, <1>3, <1>4, <1>5, RequestSerial DEF VersionNext, versionVars

\* createVersion numbers under the row lock: no creation, beside any publication
\* and roll back, finds its number taken.
THEOREM CreationSerialCorrect == VersionSpec => []CreationSerial
<1>1. VersionInit => SerialInv
  <2> SUFFICES ASSUME VersionInit PROVE SerialInv
    OBVIOUS
  <2>1. Present(version) = {} /\ Pending = {}
    BY DEF VersionInit, Present, With, Pending, Creating, Idle
  <2>2. Numbered(version, 0) /\ 0 \in 0 .. MaxVersion
    BY <2>1, AgentVersionsAssumption DEF Numbered
  <2>3. Cardinality(Present(version)) + Cardinality(Pending) <= MaxVersion
    BY <2>1, FS_EmptySet, AgentVersionsAssumption
  <2>4. CreationSerial /\ \A x \in Txn : txn[x].at # "lock"
    BY DEF VersionInit, CreationSerial, Idle
  <2> QED BY <2>2, <2>3, <2>4 DEF SerialInv
<1>2. VersionInv /\ VersionInv' /\ SerialInv /\ [VersionNext]_versionVars => SerialInv'
  BY SerialStep DEF VersionInv
<1>3. SerialInv => CreationSerial
  BY DEF SerialInv
<1> QED BY <1>1, <1>2, <1>3, VersionInvHolds, PTL DEF VersionSpec
==============================================================================
