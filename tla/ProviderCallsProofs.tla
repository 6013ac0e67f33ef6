-------------------------- MODULE ProviderCallsProofs --------------------------
(***************************************************************************)
(* For every number of keys and calls, every threshold and every number of  *)
(* retries: the breaker of a key in service is closed, and a key is picked  *)
(* only when it is usable.  The lemmas say what the pool's operations keep. *)
(***************************************************************************)
EXTENDS ProviderCalls, FiniteSetTheorems, TLAPS

USE OptionsAssumption, CallAssumption

\* What every operation of the pool preserves.
GoodEntry(e) ==
    /\ e.status = "available" => e.failures < FailureThreshold
    /\ e.status = "half_open" => e.probes <= ProbeCount
GoodPool(p) == p \in Pools /\ \A k \in Key : GoodEntry(p[k])

\* An open circuit whose time is not over.
Shut(p, k) == p[k].status = "circuit_open" /\ ~p[k].cooled

\* Changing one counter of an entry leaves an entry with the same status.
LEMMA CounterChange ==
    ASSUME NEW e \in Entries, NEW n \in Nat
    PROVE  /\ [e EXCEPT !.failures = n] \in Entries
           /\ [e EXCEPT !.failures = n].status = e.status
           /\ [e EXCEPT !.failures = n].cooled = e.cooled
           /\ [e EXCEPT !.failures = n].failures = n
           /\ [e EXCEPT !.failures = n].probes = e.probes
           /\ [e EXCEPT !.failures = n].successes = e.successes
           /\ [e EXCEPT !.probes = n] \in Entries
           /\ [e EXCEPT !.probes = n].status = e.status
           /\ [e EXCEPT !.probes = n].cooled = e.cooled
           /\ [e EXCEPT !.probes = n].failures = e.failures
           /\ [e EXCEPT !.probes = n].probes = n
           /\ [e EXCEPT !.probes = n].successes = e.successes
           /\ [e EXCEPT !.successes = n] \in Entries
           /\ [e EXCEPT !.successes = n].status = e.status
           /\ [e EXCEPT !.successes = n].failures = e.failures
           /\ [e EXCEPT !.successes = n].probes = e.probes
BY DEF Entries

\* refreshStates keeps a good pool good.
LEMMA RefreshGood ==
    ASSUME NEW p, GoodPool(p)
    PROVE  GoodPool(Refresh(p))
<1>1. ASSUME NEW k \in Key
      PROVE  /\ p[k] \in Entries /\ GoodEntry(p[k])
             /\ HalfOpened(p[k]) \in Entries /\ GoodEntry(HalfOpened(p[k]))
    BY <1>1 DEF GoodPool, GoodEntry, Pools, Entries, HalfOpened
<1> QED  BY <1>1 DEF GoodPool, Pools, Refresh

\* getKey keeps a good pool good, and the key it returns is usable.
LEMMA SelectedGood ==
    ASSUME NEW p, GoodPool(p), NEW k \in Selectable(p)
    PROVE  /\ k \in Key
           /\ GoodPool(Selected(p, k))
           /\ ~Shut(p, k)
           /\ Selected(p, k)[k].status # "circuit_open"
           /\ Selected(p, k)[k].status = "half_open" => Selected(p, k)[k].probes \in 1 .. ProbeCount
<1> DEFINE r == Refresh(p)
<1>1. GoodPool(r) /\ k \in Key
    BY RefreshGood DEF Selectable
<1>2. r[k].status = "available" \/ (r[k].status = "half_open" /\ r[k].probes < ProbeCount)
    BY DEF Selectable
<1>3. ~Shut(p, k)
    BY <1>1, <1>2 DEF Shut, Refresh, GoodPool, Pools, Entries
<1> HIDE DEF r
<1>4. CASE r[k].status = "half_open"
    <2>1. Selected(p, k) = [r EXCEPT ![k].probes = @ + 1]
        BY <1>4 DEF Selected, r
    <2>2. [r EXCEPT ![k].probes = @ + 1] \in Pools
        BY <1>1 DEF GoodPool, Pools, Entries
    <2> QED  BY <1>1, <1>2, <1>3, <1>4, <2>1, <2>2 DEF GoodPool, GoodEntry, Pools, Entries
<1>5. CASE r[k].status # "half_open"
    <2>1. Selected(p, k) = r
        BY <1>5 DEF Selected, r
    <2> QED  BY <1>1, <1>2, <1>3, <1>5, <2>1
<1> QED  BY <1>4, <1>5

\* Opening a circuit keeps a good pool good and every shut circuit shut.
LEMMA OpenedGood ==
    ASSUME NEW p, GoodPool(p), NEW k \in Key
    PROVE  GoodPool(Opened(p, k)) /\ \A j \in Key : Shut(p, j) => Shut(Opened(p, k), j)
BY DEF GoodPool, GoodEntry, Pools, Entries, Opened, OpenEntry, Shut

\* A recorded failure keeps a good pool good and every shut circuit shut.
LEMMA FailedMarkGood ==
    ASSUME NEW p, GoodPool(p), NEW k \in Key
    PROVE  GoodPool(FailedMark(p, k)) /\ \A j \in Key : Shut(p, j) => Shut(FailedMark(p, k), j)
<1> DEFINE n == IF p[k].status = "half_open" THEN Less(p[k].probes) ELSE p[k].probes
           e == [p[k] EXCEPT !.failures = @ + 1,
                             !.probes = IF p[k].status = "half_open" THEN Less(@) ELSE @]
<1>1. p \in Pools /\ p[k] \in Entries
    BY DEF GoodPool, Pools
<1>2. e \in Entries /\ e.status = p[k].status /\ e.cooled = p[k].cooled
    <2>1. n \in Nat
        BY <1>1 DEF Entries, Less
    <2> DEFINE f == [p[k] EXCEPT !.failures = p[k].failures + 1]
    <2>2. e = [f EXCEPT !.probes = n]
        OBVIOUS
    <2>3. p[k].failures + 1 \in Nat
        BY <1>1 DEF Entries
    <2>4. f \in Entries /\ f.status = p[k].status /\ f.cooled = p[k].cooled
        BY <1>1, <2>3, CounterChange
    <2> HIDE DEF f, n, e
    <2> QED  BY <2>1, <2>2, <2>4, CounterChange
<1> HIDE DEF e
<1>3. CASE e.status = "half_open" \/ e.failures >= FailureThreshold
    BY <1>3, OpenedGood DEF FailedMark, e
<1>4. CASE ~(e.status = "half_open" \/ e.failures >= FailureThreshold)
    <2>1. FailedMark(p, k) = [p EXCEPT ![k] = e]
        BY <1>4 DEF FailedMark, e
    <2>2. [p EXCEPT ![k] = e] \in Pools
        BY <1>1, <1>2 DEF Pools
    <2>3. GoodEntry(e)
        BY <1>2, <1>4 DEF GoodEntry, Entries
    <2>4. \A j \in Key : [p EXCEPT ![k] = e][j] = IF j = k THEN e ELSE p[j]
        BY <1>1 DEF Pools
    <2>5. GoodPool([p EXCEPT ![k] = e])
        BY <2>2, <2>3, <2>4 DEF GoodPool
    <2>6. \A j \in Key : Shut(p, j) => Shut([p EXCEPT ![k] = e], j)
        BY <2>4, <1>2 DEF Shut
    <2> QED  BY <2>1, <2>5, <2>6
<1> QED  BY <1>3, <1>4

\* A recorded success keeps a good pool good.
LEMMA SucceededGood ==
    ASSUME NEW p, GoodPool(p), NEW k \in Key
    PROVE  GoodPool(Succeeded(p, k))
<1> DEFINE closed == [p EXCEPT ![k] = NewEntry]
           probed == [p EXCEPT ![k].failures = 0, ![k].probes = Less(@), ![k].successes = @ + 1]
           healthy == [p EXCEPT ![k].failures = 0]
<1>1. GoodPool(closed)
    BY DEF GoodPool, GoodEntry, Pools, Entries, NewEntry
<1>2. GoodPool(probed)
    <2> DEFINE f == [p[k] EXCEPT !.failures = 0]
               g == [f EXCEPT !.probes = Less(p[k].probes)]
               h == [g EXCEPT !.successes = p[k].successes + 1]
    <2>1. p \in Pools /\ p[k] \in Entries /\ GoodEntry(p[k])
        BY DEF GoodPool, Pools
    <2>2. Less(p[k].probes) \in Nat /\ Less(p[k].probes) <= p[k].probes /\ p[k].successes + 1 \in Nat
        BY <2>1 DEF Entries, Less
    <2>3. f \in Entries /\ f.status = p[k].status /\ f.failures = 0
        BY <2>1 DEF Entries
    <2> HIDE DEF f
    <2>4. g \in Entries /\ g.status = p[k].status /\ g.failures = 0 /\ g.probes = Less(p[k].probes)
        BY <2>2, <2>3, CounterChange
    <2> HIDE DEF g
    <2>5. h \in Entries /\ h.status = p[k].status /\ h.failures = 0 /\ h.probes = Less(p[k].probes)
        BY <2>2, <2>4, CounterChange
    <2>6. probed = [p EXCEPT ![k] = h]
        BY <2>1 DEF f, g, h, Pools
    <2> HIDE DEF h, probed
    <2>7. GoodEntry(h)
        BY <2>1, <2>2, <2>5 DEF GoodEntry, Entries
    <2> QED  BY <2>1, <2>5, <2>6, <2>7 DEF GoodPool, Pools
<1>3. GoodPool(healthy)
    BY DEF GoodPool, GoodEntry, Pools, Entries
<1>4. Succeeded(p, k) \in {closed, probed, healthy}
    BY DEF Succeeded
<1> QED  BY <1>1, <1>2, <1>3, <1>4
-----------------------------------------------------------------------------
\* The inductive invariant: the calls have their types, and the pool is good.
CallOK ==
    /\ call \in [Call -> [at : Places, key : Key \cup {NoKey}, attempt : 0 .. RetryCount]]
    /\ \A c \in Call : call[c].at = "examined" => CanRetry(c)
    /\ \A c \in Call : Running(c) => call[c].key \in Key
    /\ unreported \subseteq Key
Inv == GoodPool(pool) /\ CallOK

\* A step that makes r of call c keeps CallOK when r is well formed.
LEMMA CallChange ==
    ASSUME CallOK, NEW c \in Call, NEW r,
           r \in [at : Places, key : Key \cup {NoKey}, attempt : 0 .. RetryCount],
           r.at = "examined" => r.attempt < RetryCount,
           r.at \notin {"new", "ended"} => r.key \in Key,
           call' = [call EXCEPT ![c] = r], unreported' \subseteq Key
    PROVE  CallOK'
<1>1. call' \in [Call -> [at : Places, key : Key \cup {NoKey}, attempt : 0 .. RetryCount]]
    BY DEF CallOK
<1>2. \A d \in Call : call'[d] = IF d = c THEN r ELSE call[d]
    BY DEF CallOK
<1> QED  BY <1>1, <1>2 DEF CallOK, CanRetry, Running

\* What each step has to establish.
Kept == GoodPool(pool') /\ CallOK' /\ \A c \in Call : PickIsUsable(c)

\* A call that ends, or goes on without a further attempt, picks no key.
LEMMA NoPick ==
    ASSUME CallOK, NEW c \in Call, NEW r, call' = [call EXCEPT ![c] = r],
           r.at \in Kinds => (call[c].at # "new" /\ r.attempt \in 0 .. call[c].attempt)
    PROVE  \A d \in Call : PickIsUsable(d)
<1>1. \A d \in Call : call'[d] = IF d = c THEN r ELSE call[d]
    BY DEF CallOK
<1>2. \A d \in Call : call[d].attempt \in Nat
    BY DEF CallOK
<1>3. \A d \in Call : call'[d].at \in Kinds =>
          call[d].at # "new" /\ ~(call'[d].attempt > call[d].attempt)
    BY <1>1, <1>2 DEF Kinds
<1> QED  BY <1>3 DEF PickIsUsable

\* The call ends.
LEMMA EndKeeps ==
    ASSUME CallOK, NEW c \in Call, End(c), unreported' \subseteq Key
    PROVE  CallOK' /\ \A d \in Call : PickIsUsable(d)
<1> DEFINE r == [call[c] EXCEPT !.at = "ended"]
<1>1. r \in [at : Places, key : Key \cup {NoKey}, attempt : 0 .. RetryCount] /\ r.at = "ended"
    BY DEF CallOK, Places
<1>2. call' = [call EXCEPT ![c] = r]
    BY DEF End
<1>3. "ended" \notin Kinds
    BY DEF Kinds
<1> HIDE DEF r
<1> QED  BY <1>1, <1>2, <1>3, CallChange, NoPick

\* The call picks a key of a pool p in which no shut circuit was opened.
LEMMA PickKeeps ==
    ASSUME CallOK, NEW c \in Call, NEW p, GoodPool(p), NEW kind \in Kinds,
           NEW attempt \in 0 .. RetryCount, Pick(c, p, kind, attempt),
           unreported' \subseteq Key, \A k \in Key : Shut(pool, k) => Shut(p, k)
    PROVE  Kept
<1>1. PICK k \in Selectable(p) :
          /\ pool' = Selected(p, k)
          /\ call' = [call EXCEPT ![c] = [at |-> kind, key |-> k, attempt |-> attempt]]
    BY DEF Pick
<1> DEFINE r == [at |-> kind, key |-> k, attempt |-> attempt]
<1>2. /\ k \in Key /\ GoodPool(pool') /\ ~Shut(pool, k)
      /\ pool'[k].status # "circuit_open"
      /\ pool'[k].status = "half_open" => pool'[k].probes \in 1 .. ProbeCount
    BY <1>1, SelectedGood
<1>3. /\ r \in [at : Places, key : Key \cup {NoKey}, attempt : 0 .. RetryCount]
      /\ r.at # "examined" /\ r.key = k
    <2>1. kind \in Places /\ kind # "examined"
        BY DEF Kinds, Places
    <2> QED  BY <1>2, <2>1
<1>4. CallOK'
    <2>1. call' = [call EXCEPT ![c] = r]
        BY <1>1
    <2> HIDE DEF r
    <2> QED  BY <1>2, <1>3, <2>1, CallChange
<1>5. \A d \in Call : call'[d] = IF d = c THEN r ELSE call[d]
    BY <1>1 DEF CallOK
<1>6. ASSUME NEW d \in Call PROVE PickIsUsable(d)
    <2>1. CASE d = c
        BY <1>2, <1>3, <1>5, <2>1 DEF PickIsUsable, Shut
    <2>2. CASE d # c
        <3>1. call[d].attempt \in Nat /\ call'[d] = call[d] /\ "new" \notin Kinds
            BY <1>5, <2>2 DEF CallOK, Kinds
        <3> QED  BY <3>1 DEF PickIsUsable
    <2> QED  BY <2>1, <2>2
<1> QED  BY <1>2, <1>4, <1>6 DEF Kept

\* The call picks a key of p, or ends because there is none.
LEMMA PickOrEndKeeps ==
    ASSUME CallOK, NEW c \in Call, NEW p, GoodPool(p), NEW kind \in Kinds,
           NEW attempt \in 0 .. RetryCount, PickOrEnd(c, p, kind, attempt),
           unreported' \subseteq Key, \A k \in Key : Shut(pool, k) => Shut(p, k)
    PROVE  Kept
<1>1. CASE Pick(c, p, kind, attempt)
    BY <1>1, PickKeeps
<1>2. CASE NoneSelectable(c, p)
    BY <1>2, RefreshGood, EndKeeps DEF NoneSelectable, Kept
<1> QED  BY <1>1, <1>2 DEF PickOrEnd

\* fetchWithRetry picks again, or ends after the second report.
LEMMA RetryKeeps ==
    ASSUME Inv, NEW c \in Call, Running(c), CanRetry(c), NEW p, GoodPool(p), Retry(c, p),
           \A k \in Key : Shut(pool, k) => Shut(p, k)
    PROVE  Kept
<1>1. call[c].key \in Key /\ call[c].attempt + 1 \in 0 .. RetryCount
      /\ unreported' \subseteq Key /\ CallOK /\ "chat" \in Kinds
    BY DEF Inv, CallOK, CanRetry, Retry, Kinds
<1>2. CASE Pick(c, p, "chat", call[c].attempt + 1)
    BY <1>1, <1>2, PickKeeps
<1>3. CASE NoneSelectable(c, FailedMark(Refresh(p), call[c].key))
    <2>1. GoodPool(FailedMark(Refresh(p), call[c].key))
        BY <1>1, RefreshGood, FailedMarkGood
    <2> QED  BY <1>1, <1>3, <2>1, RefreshGood, EndKeeps DEF NoneSelectable, Kept
<1> QED  BY <1>2, <1>3 DEF Retry

\* Begin and the steps of fetchWithRetry.
LEMMA ChatKeeps ==
    ASSUME Inv, NEW c \in Call, Begin(c) \/ ChatStep(c)
    PROVE  Kept
<1>1. /\ CallOK /\ GoodPool(pool) /\ 0 \in 0 .. RetryCount /\ "chat" \in Kinds
      /\ unreported \subseteq Key /\ \A k \in Key : Shut(pool, k) => Shut(pool, k)
    BY DEF Inv, CallOK, Kinds
<1>2. CASE Begin(c)
    BY <1>1, <1>2, PickOrEndKeeps DEF Begin
<1> DEFINE key == call[c].key
<1>3. Running(c) => key \in Key
    BY <1>1 DEF CallOK
<1>4. call[c].at \in {"chat", "examined", "waiting"} => Running(c)
    BY DEF Running
<1>5. call[c].at = "examined" => CanRetry(c)
    BY <1>1 DEF CallOK
<1>6. key \in Key => /\ GoodPool(Opened(pool, key)) /\ GoodPool(FailedMark(pool, key))
                     /\ GoodPool(Succeeded(pool, key))
                     /\ \A k \in Key : Shut(pool, k) =>
                           Shut(Opened(pool, key), k) /\ Shut(FailedMark(pool, key), k)
    BY <1>1, OpenedGood, FailedMarkGood, SucceededGood
<1> HIDE DEF key
<1>7. CASE Ok(c) \/ AuthRefused(c)
    <2>1. Answered(c) /\ End(c) /\ unreported' = unreported
          /\ pool' \in {Succeeded(pool, key), Opened(pool, key)}
        BY <1>7 DEF Ok, AuthRefused, Report, key
    <2> QED  BY <1>1, <1>3, <1>4, <1>6, <2>1, EndKeeps DEF Answered, Kept
<1>8. CASE RateLimited(c) \/ KeyRefused(c)
    <2>1. CanRetry(c) /\ Running(c) /\ Retry(c, Opened(pool, key))
        BY <1>4, <1>5, <1>8 DEF RateLimited, KeyRefused, key
    <2> QED  BY <1>3, <1>6, <2>1, RetryKeeps
<1>9. CASE ServerFails(c)
    <2>1. CanRetry(c) /\ Running(c) /\ Retry(c, FailedMark(pool, key))
        BY <1>4, <1>5, <1>9 DEF ServerFails, key
    <2> QED  BY <1>3, <1>6, <2>1, RetryKeeps
<1>10. CASE NetworkFails(c)
    <2>1. Running(c) /\ PickOrEnd(c, FailedMark(pool, key), "chat", call[c].attempt + 1)
          /\ unreported' = unreported /\ call[c].attempt + 1 \in 0 .. RetryCount
        BY <1>1, <1>4, <1>10 DEF NetworkFails, CanRetry, CallOK, key
    <2> QED  BY <1>1, <1>3, <1>6, <2>1, PickOrEndKeeps
<1>11. CASE EndsUnreported(c)
    <2>1. Running(c) /\ End(c) /\ unreported' = unreported \cup {key} /\ pool' = pool
        BY <1>4, <1>11 DEF EndsUnreported, Unreported, Answered, key
    <2> QED  BY <1>1, <1>3, <2>1, EndKeeps DEF Kept
<1>12. CASE Examine(c)
    <2> DEFINE r == [call[c] EXCEPT !.at = "examined"]
    <2>1. /\ r \in [at : Places, key : Key \cup {NoKey}, attempt : 0 .. RetryCount]
          /\ r.at = "examined" /\ r.key = key /\ r.attempt < RetryCount
        BY <1>1, <1>12 DEF Examine, CallOK, Places, CanRetry, key
    <2>2. call' = [call EXCEPT ![c] = r] /\ unreported' = unreported /\ pool' = Refresh(pool)
          /\ key \in Key /\ "examined" \notin Kinds
        BY <1>3, <1>4, <1>12 DEF Examine, Kinds
    <2> HIDE DEF r
    <2> QED  BY <1>1, <2>1, <2>2, CallChange, NoPick, RefreshGood DEF Kept
<1>13. CASE HighDemand(c)
    <2> DEFINE f == [call[c] EXCEPT !.at = "waiting"]
               r == [f EXCEPT !.attempt = call[c].attempt + 1]
    <2>1. f \in [at : Places, key : Key \cup {NoKey}, attempt : 0 .. RetryCount]
          /\ f.at = "waiting" /\ f.key = key
        BY <1>1 DEF CallOK, Places, key
    <2>2. call[c].attempt + 1 \in 0 .. RetryCount /\ key \in Key /\ "waiting" \notin Kinds
          /\ call' = [call EXCEPT ![c] = r] /\ unreported' = unreported /\ pool' = pool
        BY <1>1, <1>3, <1>4, <1>5, <1>13 DEF HighDemand, CallOK, CanRetry, Kinds
    <2> HIDE DEF f
    <2>3. r \in [at : Places, key : Key \cup {NoKey}, attempt : 0 .. RetryCount]
          /\ r.at = "waiting" /\ r.key = key
        BY <2>1, <2>2
    <2> HIDE DEF r
    <2> QED  BY <1>1, <2>2, <2>3, CallChange, NoPick DEF Kept
<1>14. CASE SendAgain(c)
    <2> DEFINE r == [call[c] EXCEPT !.at = "chat"]
    <2>1. /\ r \in [at : Places, key : Key \cup {NoKey}, attempt : 0 .. RetryCount]
          /\ r.at = "chat" /\ r.key = key /\ r.attempt \in 0 .. call[c].attempt
        BY <1>1 DEF CallOK, Places, Kinds, key
    <2>2. call' = [call EXCEPT ![c] = r] /\ unreported' = unreported /\ pool' = pool
          /\ key \in Key /\ call[c].at # "new"
        BY <1>3, <1>4, <1>14 DEF SendAgain
    <2> HIDE DEF r
    <2> QED  BY <1>1, <2>1, <2>2, CallChange, NoPick DEF Kept
<1> QED  BY <1>2, <1>7, <1>8, <1>9, <1>10, <1>11, <1>12, <1>13, <1>14 DEF ChatStep

\* The steps of an embedding request and of speech synthesis.
LEMMA EmbedKeeps ==
    ASSUME Inv, NEW c \in Call, EmbedBatch(c) \/ EmbedRetry(c) \/ EmbedFails(c) \/ TtsEnds(c)
    PROVE  Kept
<1> DEFINE key == call[c].key
<1>1. /\ CallOK /\ GoodPool(pool) /\ key \in Key /\ unreported \subseteq Key
      /\ \A k \in Key : Shut(pool, k) => Shut(pool, k)
    BY DEF Inv, CallOK, Running, EmbedBatch, EmbedRetry, EmbedFails, TtsEnds
<1>2. /\ GoodPool(Opened(pool, key)) /\ GoodPool(FailedMark(pool, key))
      /\ GoodPool(Succeeded(pool, key))
      /\ \A k \in Key : Shut(pool, k) => Shut(Opened(pool, key), k) /\ Shut(FailedMark(pool, key), k)
    BY <1>1, OpenedGood, FailedMarkGood, SucceededGood
<1> HIDE DEF key
<1>3. CASE EmbedBatch(c)
    <2>1. pool' = Succeeded(pool, key) /\ unreported' = unreported
        BY <1>3 DEF EmbedBatch, key
    <2>2. CASE call[c].at = "last"
        <3>1. End(c)
            BY <1>3, <2>2 DEF EmbedBatch
        <3> QED  BY <1>1, <1>2, <2>1, <3>1, EndKeeps DEF Kept
    <2>3. CASE call[c].at # "last"
        <3> DEFINE r == [at |-> "last", key |-> key, attempt |-> 0]
        <3>1. call' = [call EXCEPT ![c] = r] /\ call[c].at # "new"
            BY <1>1, <1>3, <2>3 DEF EmbedBatch, CallOK, key
        <3>2. call[c].attempt \in Nat /\ "last" \in Places
            BY <1>1 DEF CallOK, Places, Kinds
        <3>3. /\ r \in [at : Places, key : Key \cup {NoKey}, attempt : 0 .. RetryCount]
              /\ r.at = "last" /\ r.key = key /\ r.attempt \in 0 .. call[c].attempt
            BY <1>1, <3>2
        <3> HIDE DEF r
        <3> QED  BY <1>1, <1>2, <2>1, <3>1, <3>3, CallChange, NoPick DEF Kept
    <2> QED  BY <2>2, <2>3
<1>4. CASE EmbedRetry(c)
    <2>1. call[c].at \in Kinds /\ call[c].attempt + 1 \in 0 .. RetryCount
        BY <1>1, <1>4 DEF EmbedRetry, Kinds, CanRetry, CallOK
    <2>2. unreported' \subseteq Key
        BY <1>1, <1>4 DEF EmbedRetry, key
    <2>3. PICK p \in {Opened(pool, key), FailedMark(pool, key), pool} :
             PickOrEnd(c, p, call[c].at, call[c].attempt + 1)
        BY <1>4 DEF EmbedRetry, key
    <2>4. GoodPool(p) /\ \A k \in Key : Shut(pool, k) => Shut(p, k)
        BY <1>1, <1>2
    <2> QED  BY <1>1, <2>1, <2>2, <2>3, <2>4, PickOrEndKeeps
<1>5. CASE EmbedFails(c)
    <2>1. End(c) /\ unreported' \subseteq Key
          /\ pool' \in {Opened(pool, key), FailedMark(pool, key), pool}
        BY <1>1, <1>5 DEF EmbedFails, Report, Unreported, key
    <2> QED  BY <1>1, <1>2, <2>1, EndKeeps DEF Kept
<1>6. CASE TtsEnds(c)
    <2>1. End(c) /\ unreported' \subseteq Key /\ pool' = pool
        BY <1>1, <1>6 DEF TtsEnds, Unreported, key
    <2> QED  BY <1>1, <2>1, EndKeeps DEF Kept
<1> QED  BY <1>3, <1>4, <1>5, <1>6

\* A step that changes no call keeps CallOK and picks no key.
LEMMA CallsStay ==
    ASSUME CallOK, UNCHANGED <<call, unreported>>
    PROVE  CallOK' /\ \A c \in Call : PickIsUsable(c)
<1>1. CallOK'
    BY DEF CallOK, CanRetry, Running
<1>2. \A c \in Call : call[c].attempt \in Nat /\ "new" \notin Kinds
    BY DEF CallOK, Kinds
<1> QED  BY <1>1, <1>2 DEF PickIsUsable

\* Every step of the system.
LEMMA NextKeeps == Inv /\ [Next]_vars => GoodPool(pool') /\ CallOK' /\ [\A c \in Call : PickIsUsable(c)]_vars
<1> SUFFICES ASSUME Inv, [Next]_vars
             PROVE  GoodPool(pool') /\ CallOK' /\ [\A c \in Call : PickIsUsable(c)]_vars
    OBVIOUS
<1>1. CASE \E c \in Call : Begin(c) \/ Answer(c)
    BY <1>1, ChatKeeps, EmbedKeeps DEF Answer, Kept
<1>2. ASSUME NEW k \in Key, Cool(k)
      PROVE  Kept
    <2>1. GoodPool(pool')
        BY <1>2 DEF Cool, Inv, GoodPool, GoodEntry, Pools, Entries
    <2> QED  BY <1>2, <2>1, CallsStay DEF Cool, Inv, Kept
<1>3. CASE Inspect
    BY <1>3, RefreshGood, CallsStay DEF Inspect, Inv, Kept
<1>4. CASE UNCHANGED vars
    BY <1>4, CallsStay DEF vars, Inv
<1> QED  BY <1>1, <1>2, <1>3, <1>4 DEF Next, Kept

LEMMA InitInv == Init => Inv
BY DEF Init, Inv, GoodPool, GoodEntry, NewPool, NewEntry, Pools, Entries, CallOK, Places, Kinds,
       CanRetry, Running

LEMMA AlwaysInv == Spec => []Inv
<1>1. Inv /\ [Next]_vars => Inv'
    BY NextKeeps DEF Inv
<1> QED  BY <1>1, InitInv, PTL DEF Spec

\* The pool and the calls always have their types, for any pool and any calls.
THEOREM TypeCorrect == Spec => []TypeOK
<1>1. Inv => TypeOK
    BY DEF Inv, CallOK, GoodPool, TypeOK
<1> QED  BY <1>1, AlwaysInv, PTL

\* A key in service always has fewer consecutive failures than the threshold.
THEOREM BreakerCorrect == Spec => []ServesBelowThreshold
<1>1. Inv => ServesBelowThreshold
    BY DEF Inv, GoodPool, GoodEntry, ServesBelowThreshold
<1> QED  BY <1>1, AlwaysInv, PTL

\* No call ever picks a key whose circuit is open, or a half-open key beyond
\* its probes.
THEOREM PickCorrect == Spec => PicksOnlyUsable
<1>1. Inv /\ [Next]_vars => [\A c \in Call : PickIsUsable(c)]_vars
    BY NextKeeps
<1> QED  BY <1>1, AlwaysInv, PTL DEF Spec, PicksOnlyUsable
-----------------------------------------------------------------------------
(* The probes of a half-open key.                                          *)

\* The probes that a half-open key counts, 0 for any other key.
Probing(p, k) == IF p[k].status = "half_open" THEN p[k].probes ELSE 0

\* The calls that are running on key k.
Users(k) == {c \in Call : call[c].key = k /\ Running(c)}

\* Only finitely many calls are running, however many will be made, and every
\* probe of a key with no unreported attempt belongs to one that runs on it.
Accounted ==
    /\ IsFiniteSet({c \in Call : Running(c)})
    /\ \A k \in Key \ unreported : Probing(pool, k) <= Cardinality(Users(k))

\* refreshStates counts no probe and forgets none.
LEMMA RefreshProbing ==
    ASSUME NEW p \in Pools, NEW k \in Key
    PROVE  Probing(Refresh(p), k) = Probing(p, k)
BY DEF Pools, Entries, Refresh, HalfOpened, Probing

\* getKey counts at most one probe, of the key it returns.
LEMMA SelectedProbing ==
    ASSUME NEW p, GoodPool(p), NEW j \in Selectable(p), NEW k \in Key
    PROVE  Probing(Selected(p, j), k) <= Probing(p, k) + (IF k = j THEN 1 ELSE 0)
<1> DEFINE r == Refresh(p)
<1>1. r \in Pools /\ p \in Pools
    BY RefreshGood DEF GoodPool
<1>2. Probing(r, k) = Probing(p, k) /\ Probing(r, k) \in Nat
    BY <1>1, RefreshProbing DEF Probing, Pools, Entries
<1> HIDE DEF r
<1>3. CASE r[j].status = "half_open"
    <2> DEFINE e == [r[j] EXCEPT !.probes = r[j].probes + 1]
    <2>1. j \in Key /\ r[j] \in Entries
        BY <1>1 DEF Selectable, Pools
    <2>2. e.status = "half_open" /\ e.probes = r[j].probes + 1
        BY <1>3, <2>1 DEF Entries
    <2>3. Selected(p, j) = [r EXCEPT ![j] = e]
        BY <1>3 DEF Selected, r
    <2> HIDE DEF e
    <2>4. Selected(p, j)[k] = IF k = j THEN e ELSE r[k]
        BY <1>1, <2>3 DEF Pools
    <2> QED  BY <1>2, <1>3, <2>1, <2>2, <2>4 DEF Probing, Entries
<1>4. CASE r[j].status # "half_open"
    BY <1>2, <1>4 DEF Selected, r
<1> QED  BY <1>3, <1>4

\* A pool after a report on key j: its probes went down by one, or all of them
\* are forgotten, and no other key's went up.
Reported(p, j) ==
    /\ GoodPool(p)
    /\ \A k \in Key : Probing(p, k) <= IF k = j THEN Less(Probing(pool, k)) ELSE Probing(pool, k)

\* A failure forgets all the probes of its key: a half-open one is opened.
LEMMA FailedMarkProbing ==
    ASSUME NEW p, GoodPool(p), NEW j \in Key, NEW k \in Key
    PROVE  Probing(FailedMark(p, j), k) = IF k = j THEN 0 ELSE Probing(p, k)
<1> DEFINE e == [p[j] EXCEPT !.failures = @ + 1,
                             !.probes = IF p[j].status = "half_open" THEN Less(@) ELSE @]
<1>1. CASE e.status = "half_open" \/ e.failures >= FailureThreshold
    BY <1>1 DEF FailedMark, GoodPool, Pools, Opened, OpenEntry, Probing
<1>2. CASE ~(e.status = "half_open" \/ e.failures >= FailureThreshold)
    <2>1. FailedMark(p, j) = [p EXCEPT ![j] = e]
        BY <1>2 DEF FailedMark
    <2> HIDE DEF e
    <2>2. FailedMark(p, j)[k] = IF k = j THEN e ELSE p[k]
        BY <2>1 DEF GoodPool, Pools
    <2> QED  BY <1>2, <2>2 DEF Probing
<1> QED  BY <1>1, <1>2

\* Every report gives a probe back: an opened circuit has none.
LEMMA ReportsGiveBack ==
    ASSUME GoodPool(pool), NEW j \in Key
    PROVE  /\ Reported(Opened(pool, j), j)
           /\ Reported(FailedMark(pool, j), j)
           /\ Reported(Succeeded(pool, j), j)
<1>1. \A k \in Key : pool[k] \in Entries /\ Probing(pool, k) \in Nat /\ Less(Probing(pool, k)) \in Nat
    BY DEF GoodPool, Pools, Entries, Probing, Less
<1>2. Reported(Opened(pool, j), j)
    <2>1. \A k \in Key : Probing(Opened(pool, j), k) = IF k = j THEN 0 ELSE Probing(pool, k)
        BY DEF GoodPool, Pools, Opened, OpenEntry, Probing
    <2> QED  BY <1>1, <2>1, OpenedGood DEF Reported
<1>3. Reported(FailedMark(pool, j), j)
    BY <1>1, FailedMarkProbing, FailedMarkGood DEF Reported
<1>4. Reported(Succeeded(pool, j), j)
    <2>1. \A k \in Key \ {j} : Succeeded(pool, j)[k] = pool[k]
        BY DEF Succeeded, GoodPool, Pools
    <2>2. Probing(Succeeded(pool, j), j) <= Less(Probing(pool, j))
        <3> DEFINE s == pool[j].successes + 1
        <3>1. s >= SuccessThreshold \/ s < SuccessThreshold
            BY <1>1 DEF Entries
        <3>2. CASE pool[j].status = "half_open" /\ s < SuccessThreshold
            <4>1. Succeeded(pool, j) =
                    [pool EXCEPT ![j].failures = 0, ![j].probes = Less(@), ![j].successes = @ + 1]
                BY <1>1, <3>2 DEF Succeeded, Entries
            <4>2. Succeeded(pool, j)[j].probes = Less(pool[j].probes)
                BY <1>1, <4>1 DEF GoodPool, Pools, Entries
            <4>3. Succeeded(pool, j)[j].status = "half_open"
                BY <1>1, <3>2, <4>1 DEF GoodPool, Pools, Entries
            <4> QED  BY <1>1, <3>2, <4>2, <4>3 DEF Probing
        <3>3. CASE ~(pool[j].status = "half_open" /\ s < SuccessThreshold)
            <4>1. \/ Succeeded(pool, j) = [pool EXCEPT ![j] = NewEntry]
                  \/ pool[j].status # "half_open" /\ Succeeded(pool, j) = [pool EXCEPT ![j].failures = 0]
                BY <3>1, <3>3 DEF Succeeded
            <4>2. Succeeded(pool, j)[j].status # "half_open"
                BY <1>1, <4>1 DEF GoodPool, Pools, Entries, NewEntry
            <4> QED  BY <1>1, <4>2 DEF Probing
        <3> QED  BY <3>2, <3>3
    <2> QED  BY <1>1, <2>1, <2>2, SucceededGood DEF Reported, Probing
<1> QED  BY <1>2, <1>3, <1>4

\* How many calls run on key k, with call c and without it.
LEMMA UsersCount ==
    ASSUME Accounted, NEW c \in Call, NEW k \in Key
    PROVE  /\ IsFiniteSet(Users(k) \ {c})
           /\ Cardinality(Users(k)) \in Nat
           /\ Cardinality(Users(k) \ {c}) \in Nat
           /\ c \in Users(k) => Cardinality(Users(k)) = Cardinality(Users(k) \ {c}) + 1
           /\ c \notin Users(k) => Users(k) \ {c} = Users(k)
<1>1. IsFiniteSet(Users(k)) /\ IsFiniteSet(Users(k) \ {c})
    <2> DEFINE R == {d \in Call : Running(d)}
    <2>1. Users(k) \subseteq R /\ Users(k) \ {c} \subseteq R
        BY DEF Users
    <2> QED  BY <2>1, FS_Subset DEF Accounted
<1>2. Cardinality(Users(k)) \in Nat /\ Cardinality(Users(k) \ {c}) \in Nat
    BY <1>1, FS_CardinalityType
<1>3. c \in Users(k) => Cardinality(Users(k) \ {c}) = Cardinality(Users(k)) - 1
    BY <1>1, FS_RemoveElement
<1> QED  BY <1>1, <1>2, <1>3

\* The running calls when only c changes.
LEMMA UsersChange ==
    ASSUME CallOK, Accounted, NEW c \in Call, NEW r, call' = [call EXCEPT ![c] = r]
    PROVE  /\ IsFiniteSet({d \in Call : Running(d)})'
           /\ \A k \in Key :
                Cardinality(Users(k))' =
                  Cardinality(Users(k) \ {c}) +
                  (IF r.key = k /\ r.at \notin {"new", "ended"} THEN 1 ELSE 0)
<1> DEFINE R == {d \in Call : Running(d)}
<1>1. \A d \in Call : call'[d] = IF d = c THEN r ELSE call[d]
    BY DEF CallOK
<1>2. IsFiniteSet(R')
    <2>1. R' \subseteq R \cup {c}
        BY <1>1 DEF Running
    <2>2. IsFiniteSet(R \cup {c})
        BY FS_AddElement DEF Accounted
    <2> QED  BY <2>1, <2>2, FS_Subset
<1>3. ASSUME NEW k \in Key
      PROVE  Cardinality(Users(k)') = Cardinality(Users(k) \ {c}) +
                                      (IF r.key = k /\ r.at \notin {"new", "ended"} THEN 1 ELSE 0)
    <2> DEFINE V == Users(k) \ {c}
    <2>1. IsFiniteSet(V) /\ Cardinality(V) \in Nat
        BY UsersCount
    <2>2. CASE r.key = k /\ r.at \notin {"new", "ended"}
        <3>1. Users(k)' = V \cup {c} /\ c \notin V
            BY <1>1, <2>2 DEF Users, Running
        <3>2. Cardinality(V \cup {c}) = Cardinality(V) + 1
            BY <2>1, <3>1, FS_AddElement
        <3> QED  BY <2>2, <3>1, <3>2
    <2>3. CASE ~(r.key = k /\ r.at \notin {"new", "ended"})
        <3>1. Users(k)' = V
            BY <1>1, <2>3 DEF Users, Running
        <3> QED  BY <2>1, <2>3, <3>1
    <2> QED  BY <2>2, <2>3
<1> QED  BY <1>2, <1>3

\* What call c leaves behind when it goes: pool p accounts for the others.
Leaves(c, p) ==
    /\ GoodPool(p)
    /\ \A k \in Key \ unreported' : Probing(p, k) <= Cardinality(Users(k) \ {c})

\* A call that is new leaves the pool as it is; one that reports its key, or
\* whose key is unreported, leaves what the others account for.
LEMMA LeavesPool ==
    ASSUME Inv, Accounted, NEW c \in Call, NEW p, unreported \subseteq unreported',
           \/ p = pool /\ (call[c].at = "new" \/ call[c].key \in unreported')
           \/ Running(c) /\ Reported(p, call[c].key)
    PROVE  Leaves(c, p)
<1>1. GoodPool(p)
    BY DEF Inv, Reported
<1>2. ASSUME NEW k \in Key \ unreported' PROVE Probing(p, k) <= Cardinality(Users(k) \ {c})
    <2>1. /\ Cardinality(Users(k)) \in Nat /\ Cardinality(Users(k) \ {c}) \in Nat
          /\ c \in Users(k) => Cardinality(Users(k)) = Cardinality(Users(k) \ {c}) + 1
          /\ c \notin Users(k) => Users(k) \ {c} = Users(k)
        BY UsersCount
    <2>2. Probing(pool, k) <= Cardinality(Users(k)) /\ Probing(pool, k) \in Nat /\ Probing(p, k) \in Nat
        BY <1>1 DEF Accounted, Inv, GoodPool, Pools, Entries, Probing
    <2>3. c \in Users(k) => call[c].key = k /\ Running(c)
        BY DEF Users
    <2>4. CASE p = pool /\ (call[c].at = "new" \/ call[c].key \in unreported')
        BY <2>1, <2>2, <2>3, <2>4 DEF Running
    <2>5. CASE Running(c) /\ Reported(p, call[c].key)
        <3>1. CASE call[c].key = k
            <4>1. c \in Users(k) /\ Probing(p, k) <= Less(Probing(pool, k))
                BY <2>5, <3>1 DEF Users, Reported
            <4> QED  BY <2>1, <2>2, <4>1 DEF Less
        <3>2. CASE call[c].key # k
            <4>1. Probing(p, k) <= Probing(pool, k)
                BY <2>5, <3>2 DEF Reported
            <4> QED  BY <2>1, <2>2, <2>3, <3>2, <4>1
        <3> QED  BY <3>1, <3>2
    <2> QED  BY <2>4, <2>5
<1> QED  BY <1>1, <1>2 DEF Leaves

\* The call ends on the pool it leaves, or on that pool refreshed.
LEMMA EndAccounted ==
    ASSUME CallOK, Accounted, NEW c \in Call, NEW p, Leaves(c, p), End(c),
           pool' = p \/ pool' = Refresh(p)
    PROVE  Accounted'
<1> DEFINE r == [call[c] EXCEPT !.at = "ended"]
<1>1. r.at = "ended" /\ call' = [call EXCEPT ![c] = r]
    BY DEF CallOK, End
<1> HIDE DEF r
<1>2. /\ IsFiniteSet({d \in Call : Running(d)})'
      /\ \A k \in Key : Cardinality(Users(k))' = Cardinality(Users(k) \ {c}) + 0
    BY <1>1, UsersChange
<1>3. \A k \in Key : Probing(pool', k) = Probing(p, k) /\ Cardinality(Users(k) \ {c}) \in Nat
    BY RefreshProbing, UsersCount DEF Leaves, GoodPool
<1>4. ASSUME NEW k \in Key, k \notin unreported'
      PROVE  Probing(pool', k) <= Cardinality(Users(k))'
    <2>1. Probing(p, k) <= Cardinality(Users(k) \ {c})
        BY <1>4 DEF Leaves
    <2>2. Cardinality(Users(k))' = Cardinality(Users(k) \ {c}) + 0
        BY <1>2
    <2> QED  BY <1>3, <2>1, <2>2
<1> QED  BY <1>2, <1>4 DEF Accounted

\* The call picks a key of the pool it leaves.
LEMMA PickAccounted ==
    ASSUME CallOK, Accounted, NEW c \in Call, NEW p, Leaves(c, p), NEW kind \in Kinds,
           NEW attempt, Pick(c, p, kind, attempt)
    PROVE  Accounted'
<1>1. PICK j \in Selectable(p) :
          /\ pool' = Selected(p, j)
          /\ call' = [call EXCEPT ![c] = [at |-> kind, key |-> j, attempt |-> attempt]]
    BY DEF Pick
<1> DEFINE r == [at |-> kind, key |-> j, attempt |-> attempt]
<1>2. r.key = j /\ r.at \notin {"new", "ended"} /\ call' = [call EXCEPT ![c] = r]
    BY <1>1 DEF Kinds
<1> HIDE DEF r
<1>3. /\ IsFiniteSet({d \in Call : Running(d)})'
      /\ \A k \in Key : Cardinality(Users(k))' =
                        Cardinality(Users(k) \ {c}) + (IF k = j THEN 1 ELSE 0)
    BY <1>2, UsersChange
<1>4. GoodPool(p) /\ GoodPool(pool')
    BY <1>1, SelectedGood DEF Leaves
<1>5. ASSUME NEW k \in Key, k \notin unreported'
      PROVE  Probing(pool', k) <= Cardinality(Users(k))'
    <2>1. Probing(pool', k) <= Probing(p, k) + (IF k = j THEN 1 ELSE 0)
        BY <1>1, <1>4, SelectedProbing
    <2>2. Probing(p, k) \in Nat /\ Probing(pool', k) \in Nat
        BY <1>4 DEF GoodPool, Pools, Entries, Probing
    <2>3. Cardinality(Users(k) \ {c}) \in Nat
        BY UsersCount
    <2>4. Probing(p, k) <= Cardinality(Users(k) \ {c})
        BY <1>5 DEF Leaves
    <2>5. Cardinality(Users(k))' = Cardinality(Users(k) \ {c}) + (IF k = j THEN 1 ELSE 0)
        BY <1>3
    <2> QED  BY <2>1, <2>2, <2>3, <2>4, <2>5
<1> QED  BY <1>3, <1>5 DEF Accounted

LEMMA PickOrEndAccounted ==
    ASSUME CallOK, Accounted, NEW c \in Call, NEW p, Leaves(c, p), NEW kind \in Kinds,
           NEW attempt, PickOrEnd(c, p, kind, attempt)
    PROVE  Accounted'
BY PickAccounted, EndAccounted DEF PickOrEnd, NoneSelectable

\* fetchWithRetry picks again after its report, or ends after a second one.
LEMMA RetryAccounted ==
    ASSUME Inv, Accounted, NEW c \in Call, Running(c), NEW p, Reported(p, call[c].key), Retry(c, p)
    PROVE  Accounted'
<1> DEFINE key == call[c].key
<1>1. CallOK /\ key \in Key /\ unreported' = unreported
    BY DEF Inv, CallOK, Retry
<1>2. CASE Pick(c, p, "chat", call[c].attempt + 1)
    <2>1. Leaves(c, p) /\ "chat" \in Kinds
        BY <1>1, LeavesPool DEF Kinds
    <2> QED  BY <1>1, <1>2, <2>1, PickAccounted
<1>3. CASE NoneSelectable(c, FailedMark(Refresh(p), key))
    <2>1. GoodPool(Refresh(p)) /\ GoodPool(FailedMark(Refresh(p), key))
        BY <1>1, RefreshGood, FailedMarkGood DEF Reported
    <2>2. \A k \in Key : Probing(Refresh(p), k) = Probing(p, k)
        BY RefreshProbing DEF Reported, GoodPool
    <2>3. \A k \in Key : Probing(FailedMark(Refresh(p), key), k) =
                         IF k = key THEN 0 ELSE Probing(Refresh(p), k)
        BY <1>1, <2>1, FailedMarkProbing
    <2>4. Reported(FailedMark(Refresh(p), key), key)
        <3>1. \A k \in Key : Less(Probing(pool, k)) \in Nat
            BY DEF Inv, GoodPool, Pools, Entries, Probing, Less
        <3> QED  BY <2>1, <2>2, <2>3, <3>1 DEF Reported
    <2>5. Leaves(c, FailedMark(Refresh(p), key))
        BY <1>1, <2>4, LeavesPool
    <2> QED  BY <1>1, <1>3, <2>5, EndAccounted DEF NoneSelectable
<1> QED  BY <1>2, <1>3 DEF Retry

\* The call goes on with its key, and the pool counts no further probe.
LEMMA StayAccounted ==
    ASSUME Inv, Accounted, NEW c \in Call, NEW r, call' = [call EXCEPT ![c] = r], Running(c),
           r.key = call[c].key, r.at \notin {"new", "ended"}, unreported' = unreported,
           GoodPool(pool'), \A k \in Key : Probing(pool', k) <= Probing(pool, k)
    PROVE  Accounted'
<1>1. CallOK
    BY DEF Inv
<1>2. /\ IsFiniteSet({d \in Call : Running(d)})'
      /\ \A k \in Key : Cardinality(Users(k))' =
                        Cardinality(Users(k) \ {c}) + (IF r.key = k THEN 1 ELSE 0)
    BY <1>1, UsersChange
<1>3. ASSUME NEW k \in Key, k \notin unreported'
      PROVE  Probing(pool', k) <= Cardinality(Users(k))'
    <2>1. c \in Users(k) <=> r.key = k
        BY DEF Users
    <2>2. /\ Cardinality(Users(k)) \in Nat /\ Cardinality(Users(k) \ {c}) \in Nat
          /\ c \in Users(k) => Cardinality(Users(k)) = Cardinality(Users(k) \ {c}) + 1
          /\ c \notin Users(k) => Users(k) \ {c} = Users(k)
        BY UsersCount
    <2>3. Cardinality(Users(k))' = Cardinality(Users(k))
        BY <1>2, <2>1, <2>2
    <2>4. Probing(pool', k) <= Probing(pool, k) /\ Probing(pool, k) <= Cardinality(Users(k))
        BY <1>3 DEF Accounted
    <2>5. Probing(pool', k) \in Nat /\ Probing(pool, k) \in Nat
        BY DEF Inv, GoodPool, Pools, Entries, Probing
    <2> QED  BY <2>2, <2>3, <2>4, <2>5
<1> QED  BY <1>2, <1>3 DEF Accounted

\* Begin and the steps of fetchWithRetry keep the account of the probes.
LEMMA ChatAccounted ==
    ASSUME Inv, Accounted, NEW c \in Call, Begin(c) \/ ChatStep(c)
    PROVE  Accounted'
<1> DEFINE key == call[c].key
<1>1. CallOK /\ GoodPool(pool) /\ "chat" \in Kinds
    BY DEF Inv, Kinds
<1>2. call[c].at \in {"chat", "examined", "waiting"} => Running(c)
    BY DEF Running
<1>3. Running(c) => /\ key \in Key
                    /\ Reported(Opened(pool, key), key) /\ Reported(FailedMark(pool, key), key)
                    /\ Reported(Succeeded(pool, key), key)
    BY <1>1, ReportsGiveBack DEF CallOK
<1> HIDE DEF key
<1>4. CASE Begin(c)
    <2>1. Leaves(c, pool)
        BY <1>4, LeavesPool DEF Begin
    <2> QED  BY <1>1, <1>4, <2>1, PickOrEndAccounted DEF Begin
<1>5. CASE Ok(c) \/ AuthRefused(c)
    <2>1. Running(c) /\ End(c) /\ unreported' = unreported
          /\ pool' \in {Succeeded(pool, key), Opened(pool, key)}
        BY <1>2, <1>5 DEF Ok, AuthRefused, Answered, Report, key
    <2>2. Leaves(c, pool')
        BY <1>3, <2>1, LeavesPool DEF key
    <2> QED  BY <1>1, <2>1, <2>2, EndAccounted
<1>6. CASE RateLimited(c) \/ KeyRefused(c) \/ ServerFails(c)
    <2>1. /\ Running(c)
          /\ Retry(c, Opened(pool, key)) \/ Retry(c, FailedMark(pool, key))
        BY <1>2, <1>6 DEF RateLimited, KeyRefused, ServerFails, key
    <2> QED  BY <1>3, <2>1, RetryAccounted DEF key
<1>7. CASE NetworkFails(c)
    <2>1. Running(c) /\ PickOrEnd(c, FailedMark(pool, key), "chat", call[c].attempt + 1)
          /\ unreported' = unreported
        BY <1>2, <1>7 DEF NetworkFails, key
    <2>2. Leaves(c, FailedMark(pool, key))
        BY <1>3, <2>1, LeavesPool DEF key
    <2> QED  BY <1>1, <2>1, <2>2, PickOrEndAccounted
<1>8. CASE EndsUnreported(c)
    <2>1. End(c) /\ unreported' = unreported \cup {key} /\ pool' = pool
        BY <1>8 DEF EndsUnreported, Unreported, key
    <2>2. Leaves(c, pool)
        BY <2>1, LeavesPool DEF key
    <2> QED  BY <1>1, <2>1, <2>2, EndAccounted
<1>9. CASE Examine(c) \/ HighDemand(c) \/ SendAgain(c)
    <2>1. /\ Running(c) /\ unreported' = unreported
          /\ pool' = pool \/ pool' = Refresh(pool)
        BY <1>2, <1>9 DEF Examine, HighDemand, SendAgain
    <2>2. GoodPool(pool') /\ \A k \in Key : Probing(pool', k) <= Probing(pool, k)
        <3>1. \A k \in Key : Probing(pool, k) \in Nat /\ Probing(Refresh(pool), k) = Probing(pool, k)
            BY <1>1, RefreshProbing DEF GoodPool, Pools, Entries, Probing
        <3> QED  BY <1>1, <2>1, <3>1, RefreshGood
    <2>3. PICK r : /\ call' = [call EXCEPT ![c] = r]
                   /\ r.key = key /\ r.at \in {"examined", "waiting", "chat"}
        <3>1. CASE Examine(c) \/ SendAgain(c)
            <4>1. PICK place \in {"examined", "chat"} : call' = [call EXCEPT ![c].at = place]
                BY <3>1 DEF Examine, SendAgain
            <4>2. [call[c] EXCEPT !.at = place].key = key /\ [call[c] EXCEPT !.at = place].at = place
                BY <1>1 DEF CallOK, key
            <4> QED  BY <4>1, <4>2
        <3>2. CASE HighDemand(c)
            <4> DEFINE f == [call[c] EXCEPT !.at = "waiting"]
                       g == [f EXCEPT !.attempt = call[c].attempt + 1]
            <4>1. call' = [call EXCEPT ![c] = g]
                BY <1>1, <3>2 DEF HighDemand, CallOK
            <4>2. g.key = key /\ g.at = "waiting"
                BY <1>1 DEF CallOK, key
            <4> QED  BY <4>1, <4>2
        <3> QED  BY <1>9, <3>1, <3>2
    <2> QED  BY <2>1, <2>2, <2>3, StayAccounted DEF key
<1> QED  BY <1>4, <1>5, <1>6, <1>7, <1>8, <1>9 DEF ChatStep

\* So do the steps of an embedding request and of speech synthesis.
LEMMA EmbedAccounted ==
    ASSUME Inv, Accounted, NEW c \in Call,
           EmbedBatch(c) \/ EmbedRetry(c) \/ EmbedFails(c) \/ TtsEnds(c)
    PROVE  Accounted'
<1> DEFINE key == call[c].key
<1>1. CallOK /\ GoodPool(pool) /\ Running(c)
    BY DEF Inv, Running, EmbedBatch, EmbedRetry, EmbedFails, TtsEnds
<1>2. /\ key \in Key
      /\ Reported(Opened(pool, key), key) /\ Reported(FailedMark(pool, key), key)
      /\ Reported(Succeeded(pool, key), key)
    BY <1>1, ReportsGiveBack DEF CallOK
<1> HIDE DEF key
<1>3. CASE EmbedBatch(c)
    <2>1. pool' = Succeeded(pool, key) /\ unreported' = unreported
        BY <1>3 DEF EmbedBatch, key
    <2>2. CASE call[c].at = "last"
        <3>1. Leaves(c, pool') /\ End(c)
            BY <1>1, <1>2, <1>3, <2>1, <2>2, LeavesPool DEF EmbedBatch, key
        <3> QED  BY <1>1, <3>1, EndAccounted
    <2>3. CASE call[c].at # "last"
        <3> DEFINE r == [at |-> "last", key |-> key, attempt |-> 0]
        <3>1. call' = [call EXCEPT ![c] = r]
            BY <1>1, <1>3, <2>3 DEF EmbedBatch, CallOK, key
        <3>2. r.key = key /\ r.at = "last"
            OBVIOUS
        <3> HIDE DEF r
        <3>3. \A k \in Key : Probing(pool', k) <= Probing(pool, k)
            <4>1. \A k \in Key : Probing(pool, k) \in Nat
                BY <1>1 DEF GoodPool, Pools, Entries, Probing
            <4>2. \A k \in Key : Probing(pool', k) <= IF k = key THEN Less(Probing(pool, k))
                                                                ELSE Probing(pool, k)
                BY <1>2, <2>1 DEF Reported
            <4>3. \A k \in Key : Probing(pool', k) \in Nat
                BY <1>2, <2>1 DEF Reported, GoodPool, Pools, Entries, Probing
            <4> QED  BY <4>1, <4>2, <4>3 DEF Less
        <3>4. GoodPool(pool')
            BY <1>2, <2>1 DEF Reported
        <3> QED  BY <1>1, <2>1, <3>1, <3>2, <3>3, <3>4, StayAccounted DEF key
    <2> QED  BY <2>2, <2>3
<1>4. CASE EmbedRetry(c)
    <2>1. PICK p : /\ PickOrEnd(c, p, call[c].at, call[c].attempt + 1)
                   /\ \/ Reported(p, key) /\ unreported' = unreported
                      \/ p = pool /\ unreported' = unreported \cup {key}
        BY <1>2, <1>4 DEF EmbedRetry, key
    <2>2. Leaves(c, p)
        BY <1>1, <2>1, LeavesPool DEF key
    <2>3. call[c].at \in Kinds
        BY <1>4 DEF EmbedRetry, Kinds
    <2> QED  BY <1>1, <2>1, <2>2, <2>3, PickOrEndAccounted
<1>5. CASE EmbedFails(c) \/ TtsEnds(c)
    <2>1. /\ End(c)
          /\ \/ Reported(pool', key) /\ unreported' = unreported
             \/ pool' = pool /\ unreported' = unreported \cup {key}
        BY <1>2, <1>5 DEF EmbedFails, TtsEnds, Report, Unreported, key
    <2>2. Leaves(c, pool')
        BY <1>1, <2>1, LeavesPool DEF key
    <2> QED  BY <1>1, <2>1, <2>2, EndAccounted
<1> QED  BY <1>3, <1>4, <1>5

LEMMA AccountedNext == Inv /\ Inv' /\ Accounted /\ [Next]_vars => Accounted'
<1> SUFFICES ASSUME Inv, Inv', Accounted, [Next]_vars PROVE Accounted'
    OBVIOUS
<1>1. CASE \E c \in Call : Begin(c) \/ Answer(c)
    BY <1>1, ChatAccounted, EmbedAccounted DEF Answer
<1>2. ASSUME UNCHANGED <<call, unreported>>, \A k \in Key : Probing(pool', k) = Probing(pool, k)
      PROVE  Accounted'
    <2>1. \A k \in Key : Users(k)' = Users(k)
        BY <1>2 DEF Users, Running
    <2>2. {c \in Call : Running(c)}' = {c \in Call : Running(c)}
        BY <1>2 DEF Running
    <2>3. \A k \in Key : Cardinality(Users(k))' = Cardinality(Users(k))
        BY <2>1
    <2> QED  BY <1>2, <2>2, <2>3 DEF Accounted
<1>3. ASSUME NEW k \in Key, Cool(k) PROVE Accounted'
    <2>1. \A j \in Key : Probing(pool', j) = Probing(pool, j)
        BY <1>3 DEF Cool, Inv, GoodPool, Pools, Entries, Probing
    <2> QED  BY <1>2, <1>3, <2>1 DEF Cool
<1>4. CASE Inspect
    <2>1. \A j \in Key : Probing(pool', j) = Probing(pool, j)
        BY <1>4, RefreshProbing DEF Inspect, Inv, GoodPool
    <2> QED  BY <1>2, <1>4, <2>1 DEF Inspect
<1>5. CASE UNCHANGED vars
    BY <1>2, <1>5 DEF vars
<1> QED  BY <1>1, <1>3, <1>4, <1>5 DEF Next

\* However answers, timeouts and picks interleave, a half-open key never counts
\* a probe that no running call can give back, unless an attempt on it ended
\* without a report.
THEOREM ProbesAccountedCorrect == Spec => []ProbesAccounted
<1>1. Init => Accounted
    <2> SUFFICES ASSUME Init PROVE Accounted
        OBVIOUS
    <2>1. {c \in Call : Running(c)} = {} /\ \A k \in Key : Users(k) = {}
        BY DEF Init, Users, Running
    <2>2. \A k \in Key : Probing(pool, k) = 0
        BY DEF Init, NewPool, NewEntry, Probing
    <2> QED  BY <2>1, <2>2, FS_EmptySet DEF Accounted
<1>2. Accounted => ProbesAccounted
    BY DEF Accounted, ProbesAccounted, Probing, Users
<1> QED  BY <1>1, <1>2, AccountedNext, AlwaysInv, PTL DEF Spec
=============================================================================
