----------------------------- MODULE ProviderCalls -----------------------------
(***************************************************************************)
(* Concurrent upstream calls that share an ApiKeyPool: chat completions     *)
(* (fetchWithRetry), embedding requests and speech synthesis.  A call picks *)
(* a key, awaits the upstream, and when it is answered reports to the pool  *)
(* and picks the next key in one synchronous stretch, by then the key may   *)
(* have been opened, probed or closed by other calls.                       *)
(***************************************************************************)
EXTENDS ApiKeyPool

CONSTANTS
    Call,         \* calls; each is made once
    RetryCount,   \* attempts after the first
    NoKey         \* no key was picked yet

ASSUME CallAssumption == RetryCount \in Nat /\ NoKey \notin Key

VARIABLES
    pool,         \* the ApiKeyPool
    call,         \* [at, key, attempt] of each call
    unreported    \* history: keys with an attempt that ended without a report

vars == <<pool, call, unreported>>

\* A call waits for the answer to an attempt: a chat completion, an embedding
\* batch before the last or the last, speech.  "examined": its error is being
\* read; "waiting": it will use the same key again.
Kinds == {"chat", "batch", "last", "tts"}
Places == {"new", "ended", "examined", "waiting"} \cup Kinds
TypeOK ==
    /\ pool \in Pools
    /\ call \in [Call -> [at : Places, key : Key \cup {NoKey}, attempt : 0 .. RetryCount]]
    /\ unreported \subseteq Key

Init ==
    /\ pool = NewPool
    /\ call = [c \in Call |-> [at |-> "new", key |-> NoKey, attempt |-> 0]]
    /\ unreported = {}

Running(c) == call[c].at \notin {"new", "ended"}
End(c) == call' = [call EXCEPT ![c].at = "ended"]

\* getKey on the pool p, or its exception when no key is selectable.
Pick(c, p, kind, attempt) ==
    \E k \in Selectable(p) :
        /\ pool' = Selected(p, k)
        /\ call' = [call EXCEPT ![c] = [at |-> kind, key |-> k, attempt |-> attempt]]
NoneSelectable(c, p) == Selectable(p) = {} /\ pool' = Refresh(p) /\ End(c)
PickOrEnd(c, p, kind, attempt) == Pick(c, p, kind, attempt) \/ NoneSelectable(c, p)

Begin(c) ==
    /\ call[c].at = "new"
    /\ \E kind \in Kinds : PickOrEnd(c, pool, kind, 0)
    /\ UNCHANGED unreported
-----------------------------------------------------------------------------
CanRetry(c) == call[c].attempt < RetryCount

\* How a call reports its key to the pool; or does not.
Report(c, p) == pool' = p /\ End(c) /\ UNCHANGED unreported
Unreported(c) ==
    End(c) /\ unreported' = unreported \cup {call[c].key} /\ UNCHANGED pool

\* fetchWithRetry picks again after the report that led to pool p.  When that
\* getRandomKey throws, the catch block of the same try reports a network
\* failure of the same key and asks once more.
Retry(c, p) ==
    /\ \/ Pick(c, p, "chat", call[c].attempt + 1)
       \/ Selectable(p) = {} /\ NoneSelectable(c, FailedMark(Refresh(p), call[c].key))
    /\ UNCHANGED unreported

\* Before the last attempt usableCount refreshes the pool for every answer but a
\* 429, and the body of an error is awaited.
Examine(c) ==
    /\ call[c].at = "chat" /\ CanRetry(c)
    /\ pool' = Refresh(pool)
    /\ call' = [call EXCEPT ![c].at = "examined"]
    /\ UNCHANGED unreported
Answered(c) == call[c].at = "examined" \/ (call[c].at = "chat" /\ ~CanRetry(c))

Ok(c) == Answered(c) /\ Report(c, Succeeded(pool, call[c].key))
RateLimited(c) == call[c].at = "chat" /\ CanRetry(c) /\ Retry(c, Opened(pool, call[c].key))

\* An exhausted balance, or 401/403, when there is another key.
KeyRefused(c) ==
    /\ call[c].at = "examined" /\ Cardinality(Key) > 1
    /\ Retry(c, Opened(pool, call[c].key))

\* 401/403 on the last attempt or with a single key.
AuthRefused(c) ==
    /\ Answered(c) /\ (~CanRetry(c) \/ Cardinality(Key) = 1)
    /\ Report(c, Opened(pool, call[c].key))
ServerFails(c) == call[c].at = "examined" /\ Retry(c, FailedMark(pool, call[c].key))

\* No answer before the timeout, or no connection: the catch block.
NetworkFailsFree(c) ==      \* mutant: the attempt is not counted
    /\ call[c].at = "chat" /\ CanRetry(c)
    /\ PickOrEnd(c, FailedMark(pool, call[c].key), "chat", call[c].attempt)
    /\ UNCHANGED unreported
NetworkFails(c) ==
    /\ call[c].at = "chat" /\ CanRetry(c)
    /\ PickOrEnd(c, FailedMark(pool, call[c].key), "chat", call[c].attempt + 1)
    /\ UNCHANGED unreported

\* The Gemini provider keeps the key when a 503 speaks of high demand.
HighDemand(c) ==
    /\ call[c].at = "examined"
    /\ call' = [call EXCEPT ![c].at = "waiting", ![c].attempt = @ + 1]
    /\ UNCHANGED <<pool, unreported>>
SendAgain(c) ==
    /\ call[c].at = "waiting"
    /\ call' = [call EXCEPT ![c].at = "chat"]
    /\ UNCHANGED <<pool, unreported>>

\* Another 4xx; 429, 5xx, a timeout or an exhausted balance on the last attempt.
EndsUnreported(c) == Answered(c) /\ Unreported(c)

ChatStep(c) ==
    \/ Examine(c) \/ Ok(c) \/ RateLimited(c) \/ KeyRefused(c) \/ AuthRefused(c)
    \/ ServerFails(c) \/ NetworkFails(c) \/ HighDemand(c) \/ SendAgain(c) \/ EndsUnreported(c)
-----------------------------------------------------------------------------
\* EmbeddingService picks one key for all the batches of a request and reports
\* every batch that succeeds.
EmbedBatch(c) ==
    /\ call[c].at \in {"batch", "last"}
    /\ pool' = Succeeded(pool, call[c].key)
    /\ IF call[c].at = "last" THEN End(c)
       ELSE call' = [call EXCEPT ![c] = [at |-> "last", key |-> @.key, attempt |-> 0]]
    /\ UNCHANGED unreported

\* Only an HTTP failure is reported; 429, 5xx and the network are retried.
EmbedRetry(c) ==
    /\ call[c].at \in {"batch", "last"} /\ CanRetry(c)
    /\ \/ \E p \in {Opened(pool, call[c].key), FailedMark(pool, call[c].key)} :
             PickOrEnd(c, p, call[c].at, call[c].attempt + 1) /\ UNCHANGED unreported
       \/ /\ PickOrEnd(c, pool, call[c].at, call[c].attempt + 1)
          /\ unreported' = unreported \cup {call[c].key}
EmbedFails(c) ==
    /\ call[c].at \in {"batch", "last"}
    /\ \/ \E p \in {Opened(pool, call[c].key), FailedMark(pool, call[c].key)} : Report(c, p)
       \/ Unreported(c)

\* TtsController takes a key and never reports.
TtsEnds(c) == call[c].at = "tts" /\ Unreported(c)

\* The time circuitOpenUntil of k passes.
Cool(k) ==
    /\ pool[k].status = "circuit_open" /\ ~pool[k].cooled
    /\ pool' = [pool EXCEPT ![k].cooled = TRUE]
    /\ UNCHANGED <<call, unreported>>

\* getMetrics: an administrator looks at the pool, which refreshes it.
Inspect == pool' = Refresh(pool) /\ UNCHANGED <<call, unreported>>

Answer(c) == ChatStep(c) \/ EmbedBatch(c) \/ EmbedRetry(c) \/ EmbedFails(c) \/ TtsEnds(c)

Next ==
    \/ \E c \in Call : Begin(c) \/ Answer(c)
    \/ \E k \in Key : Cool(k)
    \/ Inspect

\* Timeouts answer every attempt, and time passes.
Spec ==
    /\ Init /\ [][Next]_vars
    /\ \A c \in Call : WF_vars(Answer(c))
    /\ \A k \in Key : WF_vars(Cool(k))
-----------------------------------------------------------------------------
\* The breaker of a key that is in service is closed: it has fewer consecutive
\* failures than the threshold, whatever late answers arrived for it.
ServesBelowThreshold ==
    \A k \in Key : pool[k].status = "available" => pool[k].failures < FailureThreshold

\* A key is never picked while its circuit is open, and a half-open key only as
\* one of at most ProbeCount probes, even when the pick follows at once on the
\* report that opened it: with no usable key left getRandomKey throws.  (The comment
\* of fetchWithRetry, openai-compatible.provider.ts:185, says "All keys exhausted:
\* fall back to the earliest-expiring key and retry anyway"; the code does not, and
\* a call that meets this ends although it has attempts left.)
PickIsUsable(c) ==
    LET k == call'[c].key IN
    (call'[c].at \in Kinds /\ (call[c].at = "new" \/ call'[c].attempt > call[c].attempt))
    => /\ pool[k].status = "circuit_open" => pool[k].cooled
       /\ pool'[k].status # "circuit_open"
       /\ pool'[k].status = "half_open" => pool'[k].probes \in 1 .. ProbeCount
PicksOnlyUsable == [][\A c \in Call : PickIsUsable(c)]_vars

\* Every probe a half-open key counts belongs to a call that is still running
\* on it, unless some attempt on the key ended without a report to the pool.
ProbesAccounted ==
    \A k \in Key \ unreported :
        pool[k].status = "half_open" =>
            pool[k].probes <= Cardinality({c \in Call : call[c].key = k /\ Running(c)})

\* A call ends after at most RetryCount + 1 attempts for a completion or a
\* batch, whatever the upstream does.
CallsEnd == \A c \in Call : Running(c) ~> call[c].at = "ended"

\* No key is lost for ever: once the calls are over every key is selectable
\* again, except one with an attempt that nobody reported.
KeysComeBack == <>[](\A k \in Key : k \in Selectable(pool) \cup unreported)
=============================================================================
