------------------------------ MODULE MemoryIndex ------------------------------
(***************************************************************************)
(* The semantic index of long-term memory: one memory row of MySQL, which   *)
(* is its own outbox, its points in the Qdrant collection of every vector   *)
(* space, and the workers of several processes that bring the points up to  *)
(* date.  Every step is one awaited statement or request.  A statement      *)
(* names one row, so the rows of a batch do not touch each other and one    *)
(* row stands for all.                                                      *)
(***************************************************************************)
EXTENDS Naturals, FiniteSets

CONSTANTS
    Worker,        \* the backend processes
    Space,         \* the embedding descriptors (fingerprints)
    FirstSpace,    \* the one configured at the start
    None,          \* no owner, no fingerprint
    MaxRevision,   \* bound on index_revision
    MaxFaults      \* bound on failures, crashes, stalls and reconfigurations

ASSUME IndexAssumption ==
    /\ FirstSpace \in Space /\ None \notin Worker \cup Space
    /\ MaxRevision \in Nat \ {0} /\ MaxFaults \in Nat

VARIABLES
    row,       \* the memory: index_revision, deleted_at, index_pending, ...
    scan,      \* memory_index_spaces: the backfill of each registered space
    points,    \* Qdrant: the revision of the point in each space, 0 for none
    config,    \* the descriptor a worker that starts a batch reads
    job,       \* what each worker is doing
    faults,    \* bounded by MaxFaults
    spoilt     \* history: a late write that no requeue repairs (see Spoils)

vars == <<row, scan, points, config, job, faults, spoilt>>

Revisions == 1 .. MaxRevision
Rows == [rev : Revisions, deleted : BOOLEAN, pending : BOOLEAN, fp : Space \cup {None},
         owner : Worker \cup {None}, leased : BOOLEAN, due : BOOLEAN]
Places == {"idle", "prepare", "mark", "cursor", "finish", "claim", "read", "list", "erase", "write", "ack",
           "requeue", "backoff", "release"}
Jobs == [at : Places, space : Space, rev : Revisions, todo : SUBSET Space]

TypeOK ==
    /\ row \in Rows
    /\ scan \in [Space -> {"absent", "start", "end", "complete"}]
    /\ points \in [Space -> 0 .. MaxRevision]
    /\ config \in Space
    /\ job \in [Worker -> Jobs]
    /\ faults \in 0 .. MaxFaults
    /\ spoilt \in BOOLEAN

NoJob == [at |-> "idle", space |-> FirstSpace, rev |-> 1, todo |-> {}]

\* A memory that was just created; its columns have their defaults.
Init ==
    /\ row = [rev |-> 1, deleted |-> FALSE, pending |-> TRUE, fp |-> None,
              owner |-> None, leased |-> FALSE, due |-> TRUE]
    /\ scan = [s \in Space |-> "absent"]
    /\ points = [s \in Space |-> 0]
    /\ config = FirstSpace
    /\ job = [w \in Worker |-> NoJob]
    /\ faults = 0 /\ spoilt = FALSE

At(w, place) == job[w].at = place
Go(w, place) == job' = [job EXCEPT ![w].at = place]
Owns(w) == row.owner = w
-----------------------------------------------------------------------------
\* What users do.  Business fields, revision and dirty mark change together.
Dirty(r) == [r EXCEPT !.rev = @ + 1, !.pending = TRUE, !.due = TRUE]

Update ==
    /\ ~row.deleted /\ row.rev < MaxRevision
    /\ row' = Dirty(row)
    /\ UNCHANGED <<scan, points, config, job, faults, spoilt>>
Remove ==
    /\ ~row.deleted /\ row.rev < MaxRevision
    /\ row' = [Dirty(row) EXCEPT !.deleted = TRUE]
    /\ UNCHANGED <<scan, points, config, job, faults, spoilt>>
\* rebuild queues removed memories as well.
Rebuild ==
    /\ row.rev < MaxRevision
    /\ row' = Dirty(row)
    /\ UNCHANGED <<scan, points, config, job, faults, spoilt>>
-----------------------------------------------------------------------------
\* processBatch reads the descriptor; prepareSpace registers its collection.
Register(w) ==
    /\ At(w, "idle")
    /\ scan' = [scan EXCEPT ![config] = IF @ = "absent" THEN "start" ELSE @]
    /\ job' = [job EXCEPT ![w].at = "prepare", ![w].space = config]
    /\ UNCHANGED <<row, points, config, faults, spoilt>>

\* The scan of the space is read, then moved on: the rows are marked before the
\* cursor moves, and the cursor moves only from where it was read.
Scan(w) ==
    /\ At(w, "prepare")
    /\ Go(w, CASE scan[job[w].space] = "start" -> "mark"
               [] scan[job[w].space] = "end" -> "finish"
               [] OTHER -> "claim")
    /\ UNCHANGED <<row, scan, points, config, faults, spoilt>>
Backfill(w) ==
    /\ At(w, "mark")
    /\ row' = [row EXCEPT !.pending = TRUE, !.due = TRUE]
    /\ Go(w, "cursor")
    /\ UNCHANGED <<scan, points, config, faults, spoilt>>
MoveCursor(w) ==
    /\ At(w, "cursor")
    /\ scan' = [scan EXCEPT ![job[w].space] = IF @ = "start" THEN "end" ELSE @]
    /\ Go(w, "claim")
    /\ UNCHANGED <<row, points, config, faults, spoilt>>
Prepared(w) ==
    /\ At(w, "finish")
    /\ scan' = [scan EXCEPT ![job[w].space] = "complete"]
    /\ Go(w, "claim")
    /\ UNCHANGED <<row, points, config, faults, spoilt>>

\* The condition of the candidates and of the claim.
Claimable(s) ==
    /\ row.pending \/ (~row.deleted /\ row.fp # s)
    /\ row.due
    /\ row.owner = None \/ ~row.leased

Claim(w) ==
    /\ At(w, "claim")
    /\ IF Claimable(job[w].space)
       THEN row' = [row EXCEPT !.pending = TRUE, !.owner = w, !.leased = TRUE] /\ Go(w, "read")
       ELSE Go(w, "idle") /\ UNCHANGED row
    /\ UNCHANGED <<scan, points, config, faults, spoilt>>

Read(w) ==
    /\ At(w, "read")
    /\ IF ~Owns(w) THEN Go(w, "release")
       ELSE job' = [job EXCEPT ![w].rev = row.rev,
                               ![w].at = IF row.deleted THEN "list" ELSE "write"]
    /\ UNCHANGED <<row, scan, points, config, faults, spoilt>>

\* A removed memory is erased from every registered space, one after the other.
List(w) ==
    /\ At(w, "list")
    /\ job' = [job EXCEPT ![w].at = "erase", ![w].todo = {s \in Space : scan[s] # "absent"}]
    /\ UNCHANGED <<row, scan, points, config, faults, spoilt>>
EraseOwnSpace(w) ==      \* mutant: only the worker's space is erased
    /\ At(w, "erase")
    /\ points' = [points EXCEPT ![job[w].space] = 0]
    /\ Go(w, "ack")
    /\ UNCHANGED <<row, scan, config, faults, spoilt>>
Erase(w) ==
    /\ At(w, "erase")
    /\ \/ \E s \in job[w].todo :
             /\ points' = [points EXCEPT ![s] = 0]
             /\ job' = [job EXCEPT ![w].todo = @ \ {s}]
       \/ job[w].todo = {} /\ Go(w, "ack") /\ UNCHANGED points
    /\ UNCHANGED <<row, scan, config, faults, spoilt>>

\* embed and upsertMemory; QdrantService.retry repeats a request whose answer
\* was lost.
Upsert(w) ==
    /\ At(w, "write")
    /\ points' = [points EXCEPT ![job[w].space] = job[w].rev]
    /\ Go(w, "ack") \/ UNCHANGED job
    /\ UNCHANGED <<row, scan, config, faults, spoilt>>

Acknowledges(w) == Owns(w) /\ row.rev = job[w].rev
AckUnfenced(w) ==      \* mutant: the revision is not compared
    /\ At(w, "ack")
    /\ IF Owns(w)
       THEN row' = [row EXCEPT !.pending = FALSE, !.fp = job[w].space, !.due = TRUE] /\ Go(w, "release")
       ELSE Go(w, "requeue") /\ UNCHANGED row
    /\ UNCHANGED <<scan, points, config, faults, spoilt>>
Ack(w) ==
    /\ At(w, "ack")
    /\ IF Acknowledges(w)
       THEN row' = [row EXCEPT !.pending = FALSE, !.fp = job[w].space, !.due = TRUE] /\ Go(w, "release")
       ELSE Go(w, "requeue") /\ UNCHANGED row
    /\ UNCHANGED <<scan, points, config, faults, spoilt>>

\* A worker that lost the row may have overwritten a newer point.  Its mark is
\* cleared when the newer worker, done with that space and still to acknowledge,
\* acknowledges afterwards: that one is recorded in spoilt.
AckPending(s) ==
    \E v \in Worker :
        /\ Acknowledges(v)
        /\ At(v, "ack") \/ (At(v, "erase") /\ s \notin job[v].todo)
RequeueOwned(w) ==      \* mutant: only the owner requeues
    /\ At(w, "requeue")
    /\ row' = [row EXCEPT !.pending = @ \/ Owns(w), !.due = @ \/ Owns(w)]
    /\ Go(w, "release")
    /\ UNCHANGED <<scan, points, config, faults, spoilt>>
Requeue(w) ==
    /\ At(w, "requeue")
    /\ row' = [row EXCEPT !.pending = TRUE, !.due = TRUE]
    /\ Go(w, "release")
    /\ spoilt' = (spoilt \/ AckPending(job[w].space))
    /\ UNCHANGED <<scan, points, config, faults>>

\* The catch block delays the next attempt of the row, if it is still its own.
Backoff(w) ==
    /\ At(w, "backoff")
    /\ row' = [row EXCEPT !.due = @ /\ ~Acknowledges(w)]
    /\ Go(w, "release")
    /\ UNCHANGED <<scan, points, config, faults, spoilt>>
Release(w) ==
    /\ At(w, "release")
    /\ row' = IF Owns(w) THEN [row EXCEPT !.owner = None, !.leased = FALSE] ELSE row
    /\ Go(w, "idle")
    /\ UNCHANGED <<scan, points, config, faults, spoilt>>
-----------------------------------------------------------------------------
\* Between the claim and the release; from the read to the verdict on a write.
Working(w) == job[w].at \notin {"idle", "prepare", "mark", "cursor", "finish", "claim"}
Writing(w) == job[w].at \in {"write", "ack", "requeue"}

Fault == faults < MaxFaults /\ faults' = faults + 1
\* A worker that stops before it requeues leaves a late write when the row is
\* not its own.
Spoils(w) == spoilt' = (spoilt \/ (Writing(w) /\ ~Owns(w)))

\* A request or a statement fails: the catch block.  A failed upsert may have
\* been applied.  Before the claim the batch ends; an unread row is released.
Fail(w) ==
    /\ Fault /\ Spoils(w)
    /\ Go(w, CASE job[w].at \in {"list", "erase", "write", "ack", "requeue"} -> "backoff"
               [] job[w].at \in {"read", "backoff"} -> "release"
               [] OTHER -> "idle")
    /\ points' \in {points} \cup
                   (IF At(w, "write") THEN {[points EXCEPT ![job[w].space] = job[w].rev]} ELSE {})
    /\ UNCHANGED <<row, scan, config>>

\* The process dies and starts again; its row keeps the owner.
Crash(w) ==
    /\ Fault /\ Spoils(w)
    /\ job' = [job EXCEPT ![w] = NoJob]
    /\ UNCHANGED <<row, scan, points, config>>

\* Rows of a live worker are renewed; a stall of its process lets the lease of
\* the row lapse, the end of the process as well.
Heartbeat(w) ==
    /\ Working(w) /\ Owns(w) /\ ~row.leased
    /\ row' = [row EXCEPT !.leased = TRUE]
    /\ UNCHANGED <<scan, points, config, job, faults, spoilt>>
Stall(w) ==
    /\ Working(w) /\ Owns(w) /\ row.leased
    /\ Fault
    /\ row' = [row EXCEPT !.leased = FALSE]
    /\ UNCHANGED <<scan, points, config, job, spoilt>>
Lapse ==
    /\ row.leased /\ \A w \in Worker : Owns(w) => ~Working(w)
    /\ row' = [row EXCEPT !.leased = FALSE]
    /\ UNCHANGED <<scan, points, config, job, faults, spoilt>>

\* index_next_attempt_at passes; the administrator configures another model.
Due ==
    /\ ~row.due
    /\ row' = [row EXCEPT !.due = TRUE]
    /\ UNCHANGED <<scan, points, config, job, faults, spoilt>>
Reconfigure ==
    /\ Fault
    /\ config' \in Space \ {config}
    /\ UNCHANGED <<row, scan, points, job, spoilt>>

Step(w) ==
    \/ Register(w) \/ Scan(w) \/ Backfill(w) \/ MoveCursor(w) \/ Prepared(w) \/ Claim(w) \/ Read(w)
    \/ List(w) \/ Erase(w) \/ Upsert(w) \/ Ack(w) \/ Requeue(w) \/ Backoff(w) \/ Release(w)
User == Update \/ Remove \/ Rebuild
Time == Lapse \/ Due
Next ==
    \/ User \/ Time \/ Reconfigure
    \/ \E w \in Worker : Step(w) \/ Fail(w) \/ Crash(w) \/ Heartbeat(w) \/ Stall(w)

\* The timer drains for ever and every request is answered; leases and delays end.
Spec ==
    /\ Init /\ [][Next]_vars
    /\ \A w \in Worker : WF_vars(Step(w) /\ job'[w] # job[w])
    /\ WF_vars(Lapse) /\ WF_vars(Due)
-----------------------------------------------------------------------------
\* The index holds what the row says: the last revision, or nothing.
Indexed ==
    IF row.deleted THEN \A s \in Space : points[s] = 0
    ELSE row.fp \in Space /\ points[row.fp] = row.rev

\* A row is acknowledged only with its last revision indexed (or erased from
\* every space), also when stale workers wrote after newer ones: once none of
\* them is between its write and its verdict, the acknowledgement is true.  This
\* is what docs/MEMORY-ARCHITECTURE.md:43 says of the requeue of a stale worker.
\* Exception (spoilt): a late write that the requeue of the code does not repair.
AcknowledgedIsIndexed ==
    (~row.pending /\ \A w \in Worker : ~Writing(w)) => Indexed
SettledIsIndexed == spoilt \/ AcknowledgedIsIndexed

\* A dirty mark is never lost: it ends only by an acknowledgement of the last
\* revision, while the index is right or another worker is still to judge.
DirtyUntilIndexed ==
    [][(row.pending /\ ~row'.pending) =>
         \/ spoilt
         \/ Indexed'
         \/ \E w \in Worker : Writing(w)' /\ ~Acknowledges(w)]_vars

\* When the edits and the faults are over the index of the configured space
\* catches up and stays right.
Converges == <>[](spoilt \/ (~row.pending /\ Indexed /\ (row.deleted \/ row.fp = config)))
=============================================================================
