----------------------------- MODULE AgentVersions -----------------------------
(***************************************************************************)
(* Versions of one agent: creation, stable and canary publication, roll      *)
(* back, and the calls of the published agent.  A transaction reads from the *)
(* view its first plain SELECT took (InnoDB, REPEATABLE READ), waits for the *)
(* row of the agent, and then works on the rows as they are.                 *)
(***************************************************************************)
EXTENDS Naturals, FiniteSets, FiniteSetsExt

CONSTANTS
    Txn,          \* requests of the owner
    Caller,       \* calls of the published agent
    MaxVersion,   \* bound on versions
    MaxRequests   \* bound on requests
ASSUME AgentVersionsAssumption ==
    /\ IsFiniteSet(Txn) /\ IsFiniteSet(Caller) /\ MaxVersion \in Nat \ {0}
    /\ MaxRequests \in Nat

VARIABLES
    version,      \* status of each version number
    txn, call, requests,
    clash,        \* operations whose version number was taken
    stale         \* a canary was let in by a view that was out of date

versionVars == <<version, txn, call, requests, clash, stale>>

Number == 1 .. MaxVersion
Status == {"absent", "draft", "released", "canary", "superseded", "rolled_back"}
Ops == {"create", "stable", "canary", "rollback"}
VersionTypeOK ==
    /\ version \in [Number -> Status]
    /\ txn \in [Txn -> [at : {"idle", "lock"}, op : Ops, target : 0 .. MaxVersion, view : [Number -> Status]]]
    /\ call \in [Caller -> {"idle", "live", "refused", "released", "canary"}]
    /\ requests \in 0 .. MaxRequests /\ clash \subseteq Ops /\ stale \in BOOLEAN

With(view, s) == {v \in Number : view[v] = s}
Present(view) == Number \ With(view, "absent")
\* COALESCE(MAX(version_number), 0) + 1
NextVersion(view) == Max(Present(view) \cup {0}) + 1

Idle == [at |-> "idle", op |-> "create", target |-> 0, view |-> [v \in Number |-> "absent"]]
VersionInit ==
    /\ version = [v \in Number |-> "absent"]
    /\ txn = [x \in Txn |-> Idle]
    /\ call = [c \in Caller |-> "idle"]
    /\ requests = 0 /\ clash = {} /\ stale = FALSE
-----------------------------------------------------------------------------
Creating(y) == txn[y].at = "lock" /\ txn[y].target = 0
\* The first reads of a transaction.  A publication without a version creates one (target 0).
Request(x) ==
    /\ txn[x].at = "idle" /\ requests < MaxRequests /\ requests' = requests + 1
    /\ \E op \in Ops, target \in Present(version) \cup {0} :
           /\ op = "create" => target = 0
           /\ op = "rollback" => target # 0
           /\ target = 0 => Cardinality(Present(version)) + Cardinality({y \in Txn : Creating(y)}) < MaxVersion
           /\ txn' = [txn EXCEPT ![x] = [at |-> "lock", op |-> op, target |-> target, view |-> version]]
    /\ UNCHANGED <<version, call, clash, stale>>

\* The row of the agent is locked until the commit: the rest is one step.
Does(x, op) == txn[x].at = "lock" /\ txn[x].op = op /\ txn' = [txn EXCEPT ![x] = Idle]
Leaves(x, op) == Does(x, op) /\ UNCHANGED <<version, stale>>
\* createVersion takes its view after the lock, or inherits that of its publication.
ViewEarly(x) == txn[x].view      \* mutant: the view is taken before the lock
View(x) == IF txn[x].op = "create" THEN version ELSE txn[x].view
Own(x) == IF txn[x].target = 0 THEN NextVersion(View(x)) ELSE txn[x].target
\* uniq_agent_versions_number
Fits(x) == txn[x].target # 0 \/ version[Own(x)] = "absent"
Clash(x) ==
    /\ txn[x].at = "lock" /\ ~Fits(x)
    /\ Leaves(x, txn[x].op)
    /\ clash' = clash \cup {txn[x].op}
    /\ UNCHANGED <<call, requests>>
CreateVersion(x) ==
    /\ Does(x, "create") /\ Fits(x)
    /\ version' = [version EXCEPT ![Own(x)] = "draft"]
    /\ UNCHANGED <<call, requests, clash, stale>>

StableKeepsOld(x) ==      \* mutant: only the canary is superseded
    [v \in Number |-> IF v = Own(x) THEN "released" ELSE IF version[v] = "canary" THEN "superseded" ELSE version[v]]
Stable(x) ==
    [v \in Number |-> IF v = Own(x) THEN "released"
                      ELSE IF version[v] \in {"released", "canary"} THEN "superseded" ELSE version[v]]
PublishStable(x) ==
    /\ Does(x, "stable") /\ Fits(x)
    /\ version' = Stable(x)
    /\ UNCHANGED <<call, requests, clash, stale>>

\* There must be another version that is released, in the transaction's view.
HasStableAny(x) == With(View(x), "released") # {}      \* mutant: it may be the same one
HasStable(x) == With(View(x), "released") \ {Own(x)} # {}
PublishCanary(x) ==
    /\ Does(x, "canary") /\ Fits(x)
    /\ \/ /\ HasStable(x)
          /\ version' = [v \in Number |-> IF v = Own(x) THEN "canary"
                                          ELSE IF version[v] = "canary" THEN "superseded" ELSE version[v]]
          /\ stale' = (stale \/ With(version, "released") # With(View(x), "released"))
       \/ ~HasStable(x) /\ UNCHANGED <<version, stale>>
    /\ UNCHANGED <<call, requests, clash>>
RollBack(x) ==
    /\ Does(x, "rollback")
    /\ version' = [v \in Number |-> IF v = txn[x].target THEN "released"
                                    ELSE IF version[v] \in {"released", "canary"} THEN "rolled_back" ELSE version[v]]
    /\ UNCHANGED <<call, requests, clash, stale>>
-----------------------------------------------------------------------------
\* A call of the published agent; which share of them the canary gets is left open.
Call(c) ==
    LET released == With(version, "released") canary == With(version, "canary")
    IN /\ call[c] = "idle"
       /\ \E answer \in IF released \cup canary = {} THEN {"live"} ELSE IF released = {} THEN {"refused"}
                         ELSE {"released"} \cup (IF canary = {} THEN {} ELSE {"canary"}) :
              call' = [call EXCEPT ![c] = answer]
       /\ UNCHANGED <<version, txn, requests, clash, stale>>
VersionNext ==
    \/ \E x \in Txn : Request(x) \/ Clash(x) \/ CreateVersion(x) \/ PublishStable(x) \/ PublishCanary(x) \/ RollBack(x)
    \/ \E c \in Caller : Call(c)
VersionSpec == VersionInit /\ [][VersionNext]_versionVars
-----------------------------------------------------------------------------
\* However publications, roll backs and creations interleave, at most one version
\* is released and at most one is on trial.
OneRelease == Cardinality(With(version, "released")) <= 1 /\ Cardinality(With(version, "canary")) <= 1

\* No call of the published agent is refused for want of a released version.
\* Exception: a canary was let in by a view in which the released version was
\* another one than it is (publishVersion reads before it locks).
CallsAreServed == \A c \in Caller : call[c] = "refused" => stale

\* Creations wait for each other: none is refused because its number is taken.
CreationSerial == "create" \notin clash
=============================================================================
