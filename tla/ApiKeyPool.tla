------------------------------ MODULE ApiKeyPool -------------------------------
(***************************************************************************)
(* The key pool of one provider in one process: the circuit breaker of each *)
(* key.  Every operation is synchronous, so it is one atomic change of the  *)
(* pool; it is written as an operator from a pool to the pool after it, and *)
(* ProviderCalls composes the operations between two awaits into actions.   *)
(* disableKey, enableKey, addKey and removeKey have no caller: an edited    *)
(* key list makes a new pool (ProviderApiKeyStore.reloadPool).              *)
(***************************************************************************)
EXTENDS Naturals, FiniteSets

CONSTANTS
    Key,                \* the keys of the pool
    FailureThreshold,   \* failureThreshold
    ProbeCount,         \* halfOpenProbeCount
    SuccessThreshold    \* halfOpenSuccessThreshold

ASSUME OptionsAssumption ==
    /\ FailureThreshold \in Nat \ {0}
    /\ ProbeCount \in Nat \ {0}
    /\ SuccessThreshold \in Nat \ {0}

\* An entry of the pool; cooled says that circuitOpenUntil has passed.
Entries == [status : {"available", "circuit_open", "half_open"}, cooled : BOOLEAN,
            failures : Nat, probes : Nat, successes : Nat]
Pools == [Key -> Entries]

NewEntry == [status |-> "available", cooled |-> FALSE,
             failures |-> 0, probes |-> 0, successes |-> 0]
NewPool == [k \in Key |-> NewEntry]
HalfOpened(e) == [status |-> "half_open", cooled |-> FALSE,
                  failures |-> e.failures, probes |-> 0, successes |-> 0]
OpenEntry == [status |-> "circuit_open", cooled |-> FALSE,
              failures |-> 0, probes |-> 0, successes |-> 0]

\* refreshStates: an open circuit whose time is over becomes half open.
RefreshEarly(p) ==      \* mutant: the time is not looked at
    [k \in Key |-> IF p[k].status = "circuit_open" THEN HalfOpened(p[k]) ELSE p[k]]
Refresh(p) ==
    [k \in Key |-> IF p[k].status = "circuit_open" /\ p[k].cooled
                   THEN HalfOpened(p[k]) ELSE p[k]]

\* selectableEntries, and getKey for a key the strategy may pick (getRandomKey
\* may pick any; the rotations only narrow the choice).
Selectable(p) ==
    {k \in Key : \/ Refresh(p)[k].status = "available"
                 \/ Refresh(p)[k].status = "half_open" /\ Refresh(p)[k].probes < ProbeCount}
Selected(p, k) ==
    IF Refresh(p)[k].status = "half_open" THEN [Refresh(p) EXCEPT ![k].probes = @ + 1]
    ELSE Refresh(p)

\* Math.max(0, n - 1)
Less(n) == IF n = 0 THEN 0 ELSE n - 1

\* openCircuitEntry and openCircuit: rate limit, exhausted balance, authentication.
Opened(p, k) == [p EXCEPT ![k] = OpenEntry]

\* markRetryableFailure and markNetworkFailure: recordFailure, then the circuit
\* opens for a half-open key or at the threshold.
FailedMarkLate(p, k) ==      \* mutant: one failure too many
    LET e == [p[k] EXCEPT !.failures = @ + 1,
                          !.probes = IF p[k].status = "half_open" THEN Less(@) ELSE @]
    IN  IF e.status = "half_open" \/ e.failures > FailureThreshold
        THEN Opened(p, k) ELSE [p EXCEPT ![k] = e]
FailedMark(p, k) ==
    LET e == [p[k] EXCEPT !.failures = @ + 1,
                          !.probes = IF p[k].status = "half_open" THEN Less(@) ELSE @]
    IN  IF e.status = "half_open" \/ e.failures >= FailureThreshold
        THEN Opened(p, k) ELSE [p EXCEPT ![k] = e]

\* markSuccess.
SucceededOnlyCloses(p, k) ==      \* mutant: a probe that succeeds is not given back
    IF p[k].status # "half_open" THEN [p EXCEPT ![k].failures = 0]
    ELSE IF p[k].successes + 1 >= SuccessThreshold THEN [p EXCEPT ![k] = NewEntry]
    ELSE [p EXCEPT ![k].failures = 0, ![k].successes = @ + 1]
Succeeded(p, k) ==
    CASE p[k].status = "half_open" /\ p[k].successes + 1 >= SuccessThreshold ->
           [p EXCEPT ![k] = NewEntry]
      [] p[k].status = "half_open" /\ p[k].successes + 1 < SuccessThreshold ->
           [p EXCEPT ![k].failures = 0, ![k].probes = Less(@), ![k].successes = @ + 1]
      [] p[k].status = "circuit_open" /\ p[k].cooled -> [p EXCEPT ![k] = NewEntry]
      [] OTHER -> [p EXCEPT ![k].failures = 0]
=============================================================================
