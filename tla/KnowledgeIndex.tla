----------------------------- MODULE KnowledgeIndex -----------------------------
(***************************************************************************)
(* The vector index of one native knowledge base: document operations and    *)
(* reindexing under a lease on the row of the knowledge base, the build in   *)
(* batches with its cursor, and the test a search makes before it trusts     *)
(* the index.  A document has one chunk; chunk ids are random, so a new one  *)
(* may sort anywhere.                                                        *)
(***************************************************************************)
EXTENDS Naturals, FiniteSets

CONSTANTS
    Worker, None,
    Chunk,           \* ids of chunks, in their order
    Old,             \* the chunks there are at first, indexed
    Fingerprint,     \* embedding configurations
    MaxMutations,    \* bound on document operations
    MaxFaults        \* bound on failures, crashes, lapses and reconfigurations
ASSUME KnowledgeIndexAssumption ==
    /\ None \notin Worker /\ Chunk \subseteq Nat \ {0} /\ IsFiniteSet(Chunk) /\ Old \subseteq Chunk
    /\ Fingerprint # {} /\ MaxMutations \in Nat /\ MaxFaults \in Nat

VARIABLES
    chunks, ever,    \* rows of knowledge_chunks; ids that were given out
    vectors,         \* the points of each collection
    index,           \* rows of knowledge_indexes
    backend,         \* knowledge_bases.retrieval_backend
    owner, leased,   \* rag_owner; rag_lease_until >= NOW(3)
    config,          \* the configured embedding
    job, mutations, faults,
    late             \* what was written by a job that had lost its lease

vars == <<chunks, ever, vectors, index, backend, owner, leased, config, job, mutations, faults, late>>

Kinds == {"add", "delete", "reparse", "reindex", "reset"}
Places == {"idle", "dead", "demote", "invalidate", "act", "rows", "describe", "clear", "next", "upsert",
           "save", "verify", "ready", "switch", "documents", "catch", "release"}
Last == IF Old = {} THEN 0 ELSE CHOOSE c \in Old : \A d \in Old : d <= c
TypeOK ==
    /\ chunks \subseteq ever /\ ever \subseteq Chunk /\ vectors \in [Fingerprint -> SUBSET Chunk]
    /\ index \in [Fingerprint -> [status : {"none", "pending", "building", "ready", "failed"},
                                  cursor : Chunk \cup {0}, count : 0 .. Cardinality(Chunk)]]
    /\ backend \in {"legacy", "qdrant"} /\ owner \in Worker \cup {None} /\ leased \in BOOLEAN
    /\ config \in Fingerprint /\ mutations \in 0 .. MaxMutations /\ faults \in 0 .. MaxFaults
    /\ job \in [Worker -> [at : Places, kind : Kinds, f : Fingerprint, doc : Chunk \cup {0},
                           cursor : Chunk \cup {0}, count : Nat, guarded : BOOLEAN]]
    /\ late \subseteq {"rows", "vectors", "cursor", "ready"}

Idle == [at |-> "idle", kind |-> "reindex", f |-> CHOOSE f \in Fingerprint : TRUE, doc |-> 0, cursor |-> 0, count |-> 0,
         guarded |-> FALSE]
Init ==
    /\ chunks = Old /\ ever = Old
    /\ config \in Fingerprint
    /\ vectors = [f \in Fingerprint |-> IF f = config THEN Old ELSE {}]
    /\ index = [f \in Fingerprint |-> IF f = config THEN [status |-> "ready", cursor |-> Last, count |-> Cardinality(Old)]
                                                    ELSE [status |-> "none", cursor |-> 0, count |-> 0]]
    /\ backend = "qdrant" /\ owner = None /\ leased = FALSE
    /\ job = [w \in Worker |-> Idle]
    /\ mutations = 0 /\ faults = 0 /\ late = {}

Held(w) == owner = w /\ leased
Late(w, what) == late' = IF Held(w) THEN late ELSE late \cup {what}
At(w, place) == job' = [job EXCEPT ![w].at = place, ![w].guarded = FALSE]
Rows == <<chunks, ever>>
Index == <<vectors, index, backend>>
Lease == <<owner, leased>>
Rest == <<config, mutations, faults>>
\* A statement of the job; guards are steps of their own.
Do(w, from, to) == job[w].at = from /\ At(w, to)
-----------------------------------------------------------------------------
Claim(w, kind, doc) ==
    /\ job[w].at = "idle" /\ (owner = None \/ ~leased)
    /\ owner' = w /\ leased' = TRUE
    /\ job' = [job EXCEPT ![w] = [at |-> IF kind = "reindex" THEN "describe" ELSE IF kind = "reset" THEN "invalidate" ELSE "demote",
                                  kind |-> kind, f |-> config, doc |-> doc, cursor |-> 0, count |-> 0, guarded |-> FALSE]]
    /\ UNCHANGED <<Rows, Index, config, faults, late>>
\* addDocument, deleteDocument and reparseDocument.
Mutate(w) ==
    /\ mutations < MaxMutations /\ mutations' = mutations + 1
    /\ \/ Claim(w, "add", 0)
       \/ \E c \in chunks, kind \in {"delete", "reparse"} : Claim(w, kind, c)
Reindex(w) == (\E kind \in {"reindex", "reset"} : Claim(w, kind, 0)) /\ UNCHANGED mutations

Demote(w) ==
    /\ Do(w, "demote", "invalidate")
    /\ backend' = "legacy"
    /\ UNCHANGED <<Rows, vectors, index, Lease, Rest, late>>
Reset(f) == [index[f] EXCEPT !.status = IF @ = "none" THEN @ ELSE "pending", !.cursor = 0, !.count = 0]
InvalidateConfigured(w) ==      \* mutant: only the configured model's index
    /\ Do(w, "invalidate", IF job[w].kind = "reset" THEN "describe" ELSE "act")
    /\ index' = [index EXCEPT ![config] = Reset(config)]
    /\ backend' = "legacy"
    /\ UNCHANGED <<Rows, vectors, Lease, Rest, late>>
Invalidate(w) ==
    /\ Do(w, "invalidate", IF job[w].kind = "reset" THEN "describe" ELSE "act")
    /\ index' = [f \in Fingerprint |-> Reset(f)]
    /\ backend' = "legacy"
    /\ UNCHANGED <<Rows, vectors, Lease, Rest, late>>
\* KnowledgeIndexService.deleteDocument.
Act(w) ==
    /\ Do(w, "act", "rows")
    /\ vectors' = [f \in Fingerprint |-> IF index[f].status = "none" THEN vectors[f] ELSE vectors[f] \ {job[w].doc}]
    /\ IF job[w].kind = "add" THEN UNCHANGED late ELSE Late(w, "vectors")
    /\ UNCHANGED <<Rows, index, backend, Lease, Rest>>
Write(w) ==
    /\ Do(w, "rows", "describe")
    /\ LET gone == {job[w].doc}
       IN IF job[w].kind = "delete" THEN chunks' = chunks \ gone /\ UNCHANGED ever
          ELSE \E c \in Chunk \ ever : chunks' = (chunks \ gone) \cup {c} /\ ever' = ever \cup {c}
    /\ Late(w, "rows")
    /\ UNCHANGED <<Index, Lease, Rest>>
-----------------------------------------------------------------------------
\* build.
Describe(w) ==
    /\ job[w].at = "describe"
    /\ job' = [job EXCEPT ![w] = [@ EXCEPT !.at = "clear", !.f = config, !.cursor = index[config].cursor,
                                           !.count = index[config].count]]
    /\ index' = [index EXCEPT ![config].status = "building"]
    /\ UNCHANGED <<Rows, vectors, backend, Lease, Rest, late>>
\* The lease is still there, or the job gives up.
Guard(w) ==
    /\ job[w].at \in {"clear", "next", "upsert", "save", "ready"} /\ ~job[w].guarded
    /\ job' = IF Held(w) THEN [job EXCEPT ![w].guarded = TRUE] ELSE [job EXCEPT ![w].at = "release"]
    /\ UNCHANGED <<Rows, Index, Lease, Rest, late>>
Guarded(w, from, to) == job[w].guarded /\ Do(w, from, to)
ClearNothing(w) ==      \* mutant: old points stay
    Guarded(w, "clear", "next") /\ UNCHANGED <<Rows, Index, Lease, Rest, late>>
Clear(w) ==
    /\ Guarded(w, "clear", "next")
    /\ IF job[w].cursor = 0 THEN vectors' = [vectors EXCEPT ![job[w].f] = {}] /\ Late(w, "vectors")
                            ELSE UNCHANGED <<vectors, late>>
    /\ UNCHANGED <<Rows, index, backend, Lease, Rest>>
\* Bound: batches of one chunk.
Batch(w) == LET after == {c \in chunks : c > job[w].cursor} IN {c \in after : \A d \in after : c <= d}
Fetch(w) ==
    /\ job[w].at = "next" /\ job[w].guarded
    /\ job' = [job EXCEPT ![w] = [@ EXCEPT !.guarded = FALSE, !.at = IF Batch(w) = {} THEN "verify" ELSE "upsert",
                                           !.doc = IF Batch(w) = {} THEN 0 ELSE CHOOSE c \in Batch(w) : TRUE]]
    /\ UNCHANGED <<Rows, Index, Lease, Rest, late>>
Upsert(w) ==
    /\ Guarded(w, "upsert", "save")
    /\ vectors' = [vectors EXCEPT ![job[w].f] = @ \cup {job[w].doc}]
    /\ Late(w, "vectors")
    /\ UNCHANGED <<Rows, index, backend, Lease, Rest>>
Save(w) ==
    /\ job[w].at = "save" /\ job[w].guarded
    /\ job' = [job EXCEPT ![w] = [@ EXCEPT !.at = "next", !.guarded = FALSE, !.cursor = job[w].doc,
                                           !.count = job[w].count + 1]]
    /\ index' = [index EXCEPT ![job[w].f].cursor = job[w].doc, ![job[w].f].count = job[w].count + 1]
    /\ Late(w, "cursor")
    /\ UNCHANGED <<Rows, vectors, backend, Lease, Rest>>
Counted(w) == Cardinality(vectors[job[w].f]) = Cardinality(chunks) /\ Cardinality(chunks) = job[w].count
Verify(w) ==
    /\ job[w].at = "verify"
    /\ At(w, IF Counted(w) THEN "ready" ELSE "catch")
    /\ UNCHANGED <<Rows, Index, Lease, Rest, late>>
Ready(w) ==
    /\ job[w].at = "ready" /\ job[w].guarded
    /\ IF job[w].f = config
       THEN At(w, "switch") /\ index' = [index EXCEPT ![job[w].f].status = "ready"] /\ Late(w, "ready")
       ELSE At(w, "catch") /\ UNCHANGED <<index, late>>
    /\ UNCHANGED <<Rows, vectors, backend, Lease, Rest>>
Switch(w) ==
    /\ Do(w, "switch", "documents")
    /\ backend' = "qdrant" /\ Late(w, "ready")
    /\ UNCHANGED <<Rows, vectors, index, Lease, Rest>>
\* The documents are marked; a failure here takes the ready index back.
Documents(w) == Do(w, "documents", "release") /\ UNCHANGED <<Rows, Index, Lease, Rest, late>>
\* The catch of build, and that of mutate, which marks every index.
Catch(w) ==
    /\ Do(w, "catch", "release")
    /\ LET failed == IF job[w].kind \in {"reindex", "reset"} THEN {job[w].f} ELSE {f \in Fingerprint : index[f].status # "none"}
       IN index' = IF Held(w) THEN [f \in Fingerprint |-> IF f \in failed THEN [index[f] EXCEPT !.status = "failed"] ELSE index[f]]
                              ELSE index
    /\ UNCHANGED <<Rows, vectors, backend, Lease, Rest, late>>
Release(w) ==
    /\ job[w].at = "release" /\ job' = [job EXCEPT ![w] = Idle]
    /\ owner' = IF owner = w THEN None ELSE owner
    /\ leased' = (leased /\ owner # w)
    /\ UNCHANGED <<Rows, Index, Rest, late>>
-----------------------------------------------------------------------------
Fault == faults < MaxFaults /\ faults' = faults + 1 /\ UNCHANGED <<Rows, Index, mutations, late>>
\* The embedding service, Qdrant or the database fails.
Fails(w) ==
    /\ Fault /\ job[w].at \in Places \ {"idle", "dead", "catch", "release"}
    /\ LET outside == job[w].at \in {"demote", "invalidate"} \/ (job[w].at = "describe" /\ job[w].kind \in {"reindex", "reset"})
       IN At(w, IF outside THEN "release" ELSE "catch")
    /\ UNCHANGED <<Lease, config>>
Crash(w) == Fault /\ job[w].at # "dead" /\ job' = [job EXCEPT ![w] = [Idle EXCEPT !.at = "dead"]] /\ UNCHANGED <<Lease, config>>
Reconfigure == Fault /\ config' \in Fingerprint \ {config} /\ UNCHANGED <<Lease, job>>
\* A live job is not renewed for 60 s.
Lapse == Fault /\ leased /\ leased' = FALSE /\ UNCHANGED <<owner, config, job>>
Expire ==
    /\ leased /\ job[owner].at = "dead" /\ leased' = FALSE
    /\ UNCHANGED <<Rows, Index, owner, Rest, job, late>>

Step(w) ==
    Demote(w) \/ Invalidate(w) \/ Act(w) \/ Write(w) \/ Describe(w) \/ Guard(w) \/ Clear(w) \/ Fetch(w) \/ Upsert(w)
      \/ Save(w) \/ Verify(w) \/ Ready(w) \/ Switch(w) \/ Documents(w) \/ Catch(w) \/ Release(w)
Next ==
    \/ Expire \/ Reconfigure \/ Lapse
    \/ \E w \in Worker : Step(w) \/ Mutate(w) \/ Reindex(w) \/ Fails(w) \/ Crash(w)
\* The owner of an index that is not served has it built again.
Served(f) == index[f].status = "ready" /\ backend = "qdrant"
Again(w) == ~Served(config) /\ Claim(w, "reset", 0) /\ UNCHANGED mutations
Spec ==
    /\ Init /\ [][Next]_vars /\ WF_vars(Expire)
    /\ \A w \in Worker : WF_vars(Step(w)) /\ SF_vars(Again(w))
-----------------------------------------------------------------------------
\* What requireReady lets a search trust has a point for every chunk of every
\* document, through additions, failures, crashes and changes of the model, and
\* even if a job saves its cursor after its lease has lapsed.  Exception: a job
\* writes rows, points or its verdict after that (mutate does not guard the rows,
\* and a guard comes before the write it is for).
ReadyIsComplete == \A f \in Fingerprint : Served(f) /\ late \subseteq {"cursor"} => chunks \subseteq vectors[f]

\* Whatever failed, half of it done or not, the owner who asks for a reset again
\* has an index that searches are let to.
Recovers == []<>(Served(config) \/ \A w \in Worker : job[w].at = "dead")
=============================================================================
