-------------------------- MODULE KnowledgeIndexProofs --------------------------
(***************************************************************************)
(* Proofs about KnowledgeIndex for any jobs, chunks, embedding              *)
(* configurations and bounds: types, and that an index which searches are   *)
(* let to is complete unless a job wrote rows, points or its verdict after  *)
(* its lease had lapsed.                                                    *)
(***************************************************************************)
EXTENDS KnowledgeIndex, FiniteSetTheorems, WellFoundedInduction, TLAPS

Statuses == {"none", "pending", "building", "ready", "failed"}
IndexRows == [status : Statuses, cursor : Chunk \cup {0}, count : 0 .. Cardinality(Chunk)]
Jobs == [at : Places, kind : Kinds, f : Fingerprint, doc : Chunk \cup {0},
         cursor : Chunk \cup {0}, count : Nat, guarded : BOOLEAN]

\* A count is a number of chunks up to the cursor beside it.
Upto(c) == {d \in Chunk : d <= c}
CountOk(row) == row.count <= Cardinality(Upto(row.cursor))

\* What a job has taken in: a chunk after its cursor, and nothing to remove when
\* a document is added.
RowOk(row) ==
    /\ CountOk(row)
    /\ row.at \in {"upsert", "save"} => row.doc \in Chunk /\ row.doc > row.cursor
    /\ row.kind = "add" /\ row.at \in {"demote", "invalidate", "act"} => row.doc = 0

Counts ==
    /\ \A f \in Fingerprint : CountOk(index[f])
    /\ \A w \in Worker : RowOk(job[w])
Typed == TypeOK /\ Counts
-----------------------------------------------------------------------------
(* Finite sets of chunks.                                                  *)

\* A non-empty finite set of numbers has a greatest element.
LEMMA GreatestExists ==
    ASSUME NEW S \in SUBSET Nat, IsFiniteSet(S), S # {}
    PROVE  \E c \in S : \A d \in S : d <= c
<1> DEFINE above(c) == {d \in S : d > c}
           T == {above(c) : c \in S}
<1>1. IsWellFoundedOn(StrictSubsetOrdering(S), SUBSET S)
  BY FS_StrictSubsetOrderingWellFounded, FS_FiniteSubsetsOfFinite
<1>2. T \subseteq SUBSET S /\ T # {}
  OBVIOUS
<1> HIDE DEF T
<1>3. PICK x \in T : \A y \in T : <<y, x>> \notin StrictSubsetOrdering(S)
  BY <1>1, <1>2, WFMin
<1>4. PICK c \in S : x = above(c)
  BY DEF T
<1>5. ASSUME NEW d \in S, ~(d <= c) PROVE FALSE
  <2>0. c \in Nat /\ d \in Nat /\ d > c /\ \A y \in S : y \in Nat
    BY <1>5
  <2>1. d \in above(c) /\ d \notin above(d) /\ above(d) \subseteq above(c)
    <3>1. d \in above(c) /\ d \notin above(d)
      BY <2>0
    <3>2. \A y \in above(d) : y \in S /\ y > c
      BY <2>0
    <3> QED BY <3>1, <3>2
  <2>2. above(d) \in T
    BY DEF T
  <2>3. <<above(d), above(c)>> \in StrictSubsetOrdering(S)
    BY <2>1 DEF StrictSubsetOrdering
  <2> QED BY <1>3, <1>4, <2>2, <2>3
<1> QED BY <1>5

\* There are no more chunks up to a cursor than there are.
LEMMA UptoBounded ==
    ASSUME NEW c
    PROVE  /\ IsFiniteSet(Upto(c))
           /\ Cardinality(Upto(c)) \in 0 .. Cardinality(Chunk)
<1>1. Upto(c) \in SUBSET Chunk
  BY DEF Upto
<1>2. IsFiniteSet(Upto(c)) /\ Cardinality(Upto(c)) <= Cardinality(Chunk)
  BY <1>1, FS_Subset, KnowledgeIndexAssumption
<1>3. Cardinality(Upto(c)) \in Nat /\ Cardinality(Chunk) \in Nat
  BY <1>2, FS_CardinalityType, KnowledgeIndexAssumption
<1> QED BY <1>2, <1>3

\* A greater chunk counts at least one more.
LEMMA UptoGrows ==
    ASSUME NEW c \in Chunk \cup {0}, NEW d \in Chunk, d > c
    PROVE  Cardinality(Upto(c)) + 1 <= Cardinality(Upto(d))
<1>1. Upto(c) \cup {d} \in SUBSET Upto(d) /\ d \notin Upto(c)
  <2>1. c \in Nat /\ d \in Nat /\ \A x \in Chunk : x \in Nat
    BY KnowledgeIndexAssumption
  <2>2. \A x \in Upto(c) : x \in Upto(d)
    BY <2>1 DEF Upto
  <2>3. d \in Upto(d) /\ d \notin Upto(c)
    BY <2>1 DEF Upto
  <2> QED BY <2>2, <2>3
<1>2. Cardinality(Upto(c) \cup {d}) = Cardinality(Upto(c)) + 1
  BY <1>1, UptoBounded, FS_AddElement
<1>3. Cardinality(Upto(c) \cup {d}) <= Cardinality(Upto(d))
  BY <1>1, UptoBounded, FS_Subset
<1> QED BY <1>2, <1>3

\* The index there is at first counts the chunks up to the last of them.
LEMMA LastCounts ==
    /\ Last \in Chunk \cup {0}
    /\ Cardinality(Old) \in 0 .. Cardinality(Chunk)
    /\ Cardinality(Old) <= Cardinality(Upto(Last))
<1>1. IsFiniteSet(Old) /\ Cardinality(Old) <= Cardinality(Chunk)
  BY FS_Subset, KnowledgeIndexAssumption
<1>2. Cardinality(Old) \in Nat /\ Cardinality(Chunk) \in Nat
  BY <1>1, FS_CardinalityType, KnowledgeIndexAssumption
<1>3. CASE Old = {}
  <2>1. Cardinality(Old) = 0 /\ Last = 0
    BY <1>3, FS_EmptySet DEF Last
  <2> QED BY <1>1, <1>2, <2>1, UptoBounded
<1>4. CASE Old # {}
  <2>1. \E c \in Old : \A d \in Old : d <= c
    BY <1>1, <1>4, GreatestExists, KnowledgeIndexAssumption
  <2>2. Last \in Old /\ \A d \in Old : d <= Last
    BY <1>4, <2>1 DEF Last
  <2>3. Old \in SUBSET Upto(Last)
    BY <2>2, KnowledgeIndexAssumption DEF Upto
  <2>4. Cardinality(Old) <= Cardinality(Upto(Last))
    BY <2>3, UptoBounded, FS_Subset
  <2> QED BY <1>1, <1>2, <2>2, <2>4, KnowledgeIndexAssumption
<1> QED BY <1>3, <1>4
-----------------------------------------------------------------------------
(* Type correctness.                                                       *)

\* An index row that is empty or counts rightly is one the table can hold.
LEMMA CountTyped ==
    ASSUME NEW row, row.count \in Nat, CountOk(row)
    PROVE  row.count \in 0 .. Cardinality(Chunk)
<1>1. Cardinality(Upto(row.cursor)) \in 0 .. Cardinality(Chunk) /\ Cardinality(Chunk) \in Nat
  BY UptoBounded, FS_CardinalityType, KnowledgeIndexAssumption
<1> QED BY <1>1 DEF CountOk

\* A step of one job to a good row leaves all of them good.
LEMMA JobStep ==
    ASSUME Typed, NEW w \in Worker, NEW row \in Jobs, RowOk(row),
           job' = [job EXCEPT ![w] = row]
    PROVE  /\ job' \in [Worker -> Jobs]
           /\ \A v \in Worker : RowOk(job'[v])
<1>1. job \in [Worker -> Jobs]
  BY DEF Typed, TypeOK, Jobs
<1>2. job' \in [Worker -> Jobs] /\ job'[w] = row /\ \A v \in Worker \ {w} : job'[v] = job[v]
  BY <1>1
<1>3. \A v \in Worker : RowOk(job[v])
  BY DEF Typed, Counts
<1> QED BY <1>2, <1>3

\* The row of a job that moves to another place.
Moved(w, place) == [job[w] EXCEPT !.at = place, !.guarded = FALSE]
LEMMA AtMoves ==
    ASSUME TypeOK, NEW w \in Worker, NEW place \in Places, At(w, place)
    PROVE  /\ job' = [job EXCEPT ![w] = Moved(w, place)]
           /\ Moved(w, place) \in Jobs
           /\ Moved(w, place).at = place /\ Moved(w, place).kind = job[w].kind
           /\ Moved(w, place).f = job[w].f /\ Moved(w, place).doc = job[w].doc
           /\ Moved(w, place).cursor = job[w].cursor /\ Moved(w, place).count = job[w].count
           /\ Moved(w, place).guarded = FALSE
<1>1. job \in [Worker -> Jobs] /\ job[w] \in Jobs
  BY DEF TypeOK, Jobs
<1>2. job' = [job EXCEPT ![w] = Moved(w, place)]
  BY <1>1 DEF At, Moved, Jobs
<1> QED BY <1>1, <1>2 DEF Moved, Jobs

\* A move is good wherever it does not lead to a place that needs more.
LEMMA AtGood ==
    ASSUME Typed, NEW w \in Worker, NEW place \in Places, At(w, place),
           place = "save" => job[w].at = "upsert",
           place \in {"demote", "invalidate", "act"} => job[w].at \in {"demote", "invalidate", "act"},
           place # "upsert"
    PROVE  /\ job' \in [Worker -> Jobs]
           /\ \A v \in Worker : RowOk(job'[v])
<1>1. RowOk(job[w]) /\ TypeOK
  BY DEF Typed, Counts
<1>2. RowOk(Moved(w, place)) /\ Moved(w, place) \in Jobs
  BY <1>1, AtMoves DEF RowOk, CountOk
<1> QED BY <1>1, <1>2, AtMoves, JobStep

\* An idle job is a good one, and so is a dead one.
LEMMA IdleGood ==
    /\ Idle \in Jobs /\ RowOk(Idle) /\ Idle.at = "idle"
    /\ [Idle EXCEPT !.at = "dead"] \in Jobs
    /\ RowOk([Idle EXCEPT !.at = "dead"])
    /\ [Idle EXCEPT !.at = "dead"].at = "dead"
<1>1. (CHOOSE f \in Fingerprint : TRUE) \in Fingerprint
  BY KnowledgeIndexAssumption
<1>2. Cardinality(Upto(0)) >= 0
  BY UptoBounded
<1>3. Idle \in Jobs /\ [Idle EXCEPT !.at = "dead"] \in Jobs
  BY <1>1 DEF Idle, Jobs, Places, Kinds
<1> QED BY <1>2, <1>3 DEF Idle, RowOk, CountOk

\* The first states are well typed.
LEMMA TypeInit == Init => Typed
<1> SUFFICES ASSUME Init PROVE Typed
  OBVIOUS
<1>1. job \in [Worker -> Jobs] /\ \A w \in Worker : RowOk(job[w])
  BY IdleGood DEF Init
<1>2. Cardinality(Upto(0)) >= 0 /\ Cardinality(Chunk) \in Nat
  BY UptoBounded, FS_CardinalityType, KnowledgeIndexAssumption
<1>3. /\ index \in [Fingerprint -> IndexRows]
      /\ \A f \in Fingerprint : CountOk(index[f])
  BY <1>2, LastCounts DEF Init, IndexRows, Statuses, CountOk
<1>4. vectors \in [Fingerprint -> SUBSET Chunk]
  BY KnowledgeIndexAssumption DEF Init
<1>5. /\ chunks \subseteq ever /\ ever \subseteq Chunk /\ backend \in {"legacy", "qdrant"}
      /\ owner \in Worker \cup {None} /\ leased \in BOOLEAN /\ config \in Fingerprint
      /\ mutations \in 0 .. MaxMutations /\ faults \in 0 .. MaxFaults
      /\ late \subseteq {"rows", "vectors", "cursor", "ready"}
  <2>1. mutations \in 0 .. MaxMutations /\ faults \in 0 .. MaxFaults
    BY KnowledgeIndexAssumption DEF Init
  <2>2. chunks \subseteq ever /\ ever \subseteq Chunk
    BY KnowledgeIndexAssumption DEF Init
  <2>3. owner \in Worker \cup {None} /\ leased \in BOOLEAN /\ config \in Fingerprint
    BY DEF Init
  <2> QED BY <2>1, <2>2, <2>3 DEF Init
<1> QED BY <1>1, <1>3, <1>4, <1>5 DEF Typed, TypeOK, Counts, Jobs, IndexRows, Statuses

\* Marking an index, as a reset, a failure or a build does.
LEMMA MarkGood ==
    ASSUME Typed, NEW f \in Fingerprint, NEW s \in Statuses
    PROVE  /\ [index[f] EXCEPT !.status = s] \in IndexRows /\ CountOk([index[f] EXCEPT !.status = s])
           /\ Reset(f) \in IndexRows /\ CountOk(Reset(f))
           /\ index[f] \in IndexRows /\ CountOk(index[f])
<1>1. index[f] \in IndexRows /\ CountOk(index[f])
  BY DEF Typed, TypeOK, Counts, IndexRows, Statuses
<1>2. Cardinality(Upto(0)) >= 0 /\ Cardinality(Chunk) \in Nat
  BY UptoBounded, FS_CardinalityType, KnowledgeIndexAssumption
<1>3. [index[f] EXCEPT !.status = s] \in IndexRows /\ CountOk([index[f] EXCEPT !.status = s])
  BY <1>1 DEF IndexRows, CountOk
<1>4. Reset(f) \in IndexRows /\ CountOk(Reset(f))
  <2> DEFINE s1 == IF index[f].status = "none" THEN "none" ELSE "pending"
  <2>1. s1 \in Statuses
    BY DEF Statuses
  <2>2. Reset(f) = [status |-> s1, cursor |-> 0, count |-> 0]
    <3> DEFINE r == index[f]
               r1 == [r EXCEPT !.status = IF @ = "none" THEN @ ELSE "pending"]
               r2 == [r1 EXCEPT !.cursor = 0]
    <3>1. r \in [status : Statuses, cursor : Chunk \cup {0}, count : 0 .. Cardinality(Chunk)]
      BY <1>1 DEF IndexRows
    <3>2. Reset(f) = [r2 EXCEPT !.count = 0]
      BY DEF Reset
    <3>3. r1 = [status |-> s1, cursor |-> r.cursor, count |-> r.count]
      BY <3>1
    <3> QED BY <3>2, <3>3
  <2> HIDE DEF s1
  <2> QED BY <1>2, <2>1, <2>2 DEF IndexRows, CountOk
<1> QED BY <1>1, <1>3, <1>4

\* What the type of the variables says about one job.
LEMMA JobTyped ==
    ASSUME Typed, NEW w \in Worker
    PROVE  /\ job[w] \in Jobs /\ RowOk(job[w])
           /\ job[w].at \in Places /\ job[w].kind \in Kinds /\ job[w].f \in Fingerprint
           /\ job[w].doc \in Chunk \cup {0} /\ job[w].cursor \in Chunk \cup {0} /\ job[w].count \in Nat
<1>1. job[w] \in Jobs /\ RowOk(job[w])
  BY DEF Typed, TypeOK, Counts, Jobs
<1> QED BY <1>1 DEF Jobs

\* Taking the lease starts a good job.
LEMMA ClaimGood ==
    ASSUME Typed, NEW w \in Worker, NEW kind \in Kinds, NEW doc \in Chunk \cup {0},
           kind = "add" => doc = 0, Claim(w, kind, doc)
    PROVE  /\ job' \in [Worker -> Jobs]
           /\ \A v \in Worker : RowOk(job'[v])
           /\ job'[w].at \in {"describe", "invalidate", "demote"}
           /\ \A v \in Worker \ {w} : job'[v] = job[v]
<1> DEFINE place == IF kind = "reindex" THEN "describe" ELSE IF kind = "reset" THEN "invalidate" ELSE "demote"
           row == [at |-> place, kind |-> kind, f |-> config, doc |-> doc, cursor |-> 0, count |-> 0, guarded |-> FALSE]
<1>1. place \in {"describe", "invalidate", "demote"} /\ place \in Places
  BY DEF Places
<1>2. job' = [job EXCEPT ![w] = row]
  BY DEF Claim
<1>3. config \in Fingerprint /\ job \in [Worker -> Jobs]
  BY DEF Typed, TypeOK, Jobs
<1>4. Cardinality(Upto(0)) >= 0
  BY UptoBounded
<1> HIDE DEF place
<1>5. row \in Jobs
  BY <1>1, <1>3 DEF Jobs
<1>6. RowOk(row)
  BY <1>1, <1>4 DEF RowOk, CountOk
<1>7. row.at = place
  OBVIOUS
<1> HIDE DEF row
<1> QED BY <1>1, <1>2, <1>3, <1>5, <1>6, <1>7, JobStep

\* Every step of a job leaves good jobs.
LEMMA StepJobs ==
    ASSUME Typed, NEW w \in Worker, Step(w)
    PROVE  /\ job' \in [Worker -> Jobs]
           /\ \A v \in Worker : RowOk(job'[v])
<1>0. /\ job[w] \in Jobs /\ RowOk(job[w]) /\ job[w].kind \in Kinds /\ config \in Fingerprint
      /\ job \in [Worker -> Jobs] /\ chunks \subseteq Chunk
  BY JobTyped DEF Typed, TypeOK, Jobs
<1>1. CASE Demote(w)
  BY <1>1, AtGood DEF Demote, Do, Places
<1>2. CASE Invalidate(w)
  <2>1. /\ job[w].at = "invalidate"
        /\ At(w, IF job[w].kind = "reset" THEN "describe" ELSE "act")
    BY <1>2 DEF Invalidate, Do
  <2>2. CASE job[w].kind = "reset"
    BY <2>1, <2>2, AtGood DEF Places
  <2>3. CASE job[w].kind # "reset"
    BY <2>1, <2>3, AtGood DEF Places
  <2> QED BY <2>2, <2>3
<1>3. CASE Act(w)
  BY <1>3, AtGood DEF Act, Do, Places
<1>4. CASE Write(w)
  BY <1>4, AtGood DEF Write, Do, Places
<1>5. CASE Describe(w)
  <2> DEFINE row == [at |-> "clear", kind |-> job[w].kind, f |-> config, doc |-> job[w].doc, cursor |-> index[config].cursor,
                     count |-> index[config].count, guarded |-> job[w].guarded]
  <2>1. job' = [job EXCEPT ![w] = row]
    <3> DEFINE r == job[w]
               r1 == [r EXCEPT !.at = "clear"]
               r2 == [r1 EXCEPT !.f = config]
               r3 == [r2 EXCEPT !.cursor = index[config].cursor]
               r4 == [r3 EXCEPT !.count = index[config].count]
    <3>0. job' = [job EXCEPT ![w] = r4]
      BY <1>5 DEF Describe
    <3>1. r1 = [at |-> "clear", kind |-> job[w].kind, f |-> job[w].f, doc |-> job[w].doc, cursor |-> job[w].cursor,
                count |-> job[w].count, guarded |-> job[w].guarded]
      BY <1>0 DEF Jobs
    <3> HIDE DEF r1
    <3>2. r2 = [at |-> "clear", kind |-> job[w].kind, f |-> config, doc |-> job[w].doc, cursor |-> job[w].cursor,
                count |-> job[w].count, guarded |-> job[w].guarded]
      BY <3>1
    <3> HIDE DEF r2
    <3>3. r3 = [at |-> "clear", kind |-> job[w].kind, f |-> config, doc |-> job[w].doc, cursor |-> index[config].cursor,
                count |-> job[w].count, guarded |-> job[w].guarded]
      BY <3>2
    <3> HIDE DEF r3
    <3>4. r4 = [at |-> "clear", kind |-> job[w].kind, f |-> config, doc |-> job[w].doc, cursor |-> index[config].cursor,
                count |-> index[config].count, guarded |-> job[w].guarded]
      BY <3>3
    <3> HIDE DEF r4
    <3> QED BY <3>0, <3>4
  <2>2. index[config] \in IndexRows /\ CountOk(index[config])
    BY <1>0, MarkGood DEF Statuses
  <2>3. row \in Jobs
    BY <1>0, <2>2, FS_CardinalityType, KnowledgeIndexAssumption DEF Jobs, IndexRows, Places
  <2>4. RowOk(row)
    BY <2>2 DEF RowOk, CountOk
  <2> HIDE DEF row
  <2> QED BY <2>1, <2>3, <2>4, JobStep
<1>6. CASE Guard(w)
  <2> DEFINE row == [job[w] EXCEPT !.guarded = TRUE]
  <2>1. CASE job' = [job EXCEPT ![w] = row]
    <3>1. row \in Jobs /\ RowOk(row)
      BY <1>0 DEF Jobs, RowOk, CountOk
    <3> HIDE DEF row
    <3> QED BY <2>1, <3>1, JobStep
  <2> DEFINE gone == [job[w] EXCEPT !.at = "release"]
  <2>2. CASE job' = [job EXCEPT ![w] = gone]
    <3>1. gone \in Jobs /\ RowOk(gone)
      BY <1>0 DEF Jobs, RowOk, CountOk, Places
    <3> HIDE DEF gone
    <3> QED BY <2>2, <3>1, JobStep
  <2>3. job' = [job EXCEPT ![w] = row] \/ job' = [job EXCEPT ![w] = gone]
    BY <1>0, <1>6 DEF Guard
  <2> QED BY <2>1, <2>2, <2>3
<1>7. CASE Clear(w)
  BY <1>7, AtGood DEF Clear, Guarded, Do, Places
<1>8. CASE Fetch(w)
  <2> DEFINE doc == IF Batch(w) = {} THEN 0 ELSE CHOOSE c \in Batch(w) : TRUE
             place == IF Batch(w) = {} THEN "verify" ELSE "upsert"
  <2> DEFINE r == job[w]
             r1 == [r EXCEPT !.guarded = FALSE]
             r2 == [r1 EXCEPT !.at = place]
             r3 == [r2 EXCEPT !.doc = doc]
  <2>1. job' = [job EXCEPT ![w] = r3]
    BY <1>8 DEF Fetch
  <2>2. Batch(w) # {} => doc \in chunks /\ doc > job[w].cursor
    BY DEF Batch
  <2>3. place \in Places /\ place \in {"verify", "upsert"} /\ (Batch(w) = {} => place = "verify" /\ doc = 0)
        /\ doc \in Chunk \cup {0}
    BY <1>0, <2>2 DEF Places
  <2> HIDE DEF doc, place
  <2>11. /\ r1 \in Jobs /\ r1.at = job[w].at /\ r1.kind = job[w].kind /\ r1.f = job[w].f /\ r1.doc = job[w].doc
         /\ r1.cursor = job[w].cursor /\ r1.count = job[w].count
    BY <1>0, <2>3 DEF Jobs
  <2> HIDE DEF r1
  <2>12. /\ r2 \in Jobs /\ r2.at = place /\ r2.kind = job[w].kind /\ r2.f = job[w].f /\ r2.doc = job[w].doc
         /\ r2.cursor = job[w].cursor /\ r2.count = job[w].count
    BY <2>11, <2>3 DEF Jobs
  <2> HIDE DEF r2
  <2>13. /\ r3 \in Jobs /\ r3.at = place /\ r3.kind = job[w].kind /\ r3.f = job[w].f /\ r3.doc = doc
         /\ r3.cursor = job[w].cursor /\ r3.count = job[w].count
    BY <2>12, <2>3 DEF Jobs
  <2> HIDE DEF r3
  <2>4. place = "upsert" => doc \in Chunk /\ doc > job[w].cursor
    BY <1>0, <2>2, <2>3
  <2>5. RowOk(r3)
    BY <1>0, <2>3, <2>4, <2>13 DEF RowOk, CountOk
  <2> QED BY <2>1, <2>5, <2>13, JobStep
<1>9. CASE Upsert(w)
  BY <1>9, AtGood DEF Upsert, Guarded, Do, Places
<1>10. CASE Save(w)
  <2> DEFINE r == job[w]
             r1 == [r EXCEPT !.at = "next"]
             r2 == [r1 EXCEPT !.guarded = FALSE]
             r3 == [r2 EXCEPT !.cursor = job[w].doc]
             r4 == [r3 EXCEPT !.count = r.count + 1]
  <2>1. job' = [job EXCEPT ![w] = r4]
    BY <1>10 DEF Save
  <2>2. job[w].doc \in Chunk /\ job[w].doc > job[w].cursor
    BY <1>0, <1>10 DEF Save, RowOk
  <2>3. Cardinality(Upto(job[w].cursor)) + 1 <= Cardinality(Upto(job[w].doc))
    BY <2>2, JobTyped, UptoGrows
  <2>4. /\ Cardinality(Upto(job[w].cursor)) \in 0 .. Cardinality(Chunk)
        /\ Cardinality(Upto(job[w].doc)) \in 0 .. Cardinality(Chunk)
        /\ Cardinality(Chunk) \in Nat /\ job[w].count \in Nat /\ job[w].count + 1 \in Nat
        /\ job[w].count <= Cardinality(Upto(job[w].cursor))
        /\ "next" \in Places /\ job[w].doc \in Chunk \cup {0}
    BY <1>0, <2>2, JobTyped, UptoBounded, FS_CardinalityType, KnowledgeIndexAssumption DEF RowOk, CountOk, Places
  <2>11. /\ r1 \in Jobs /\ r1.at = "next" /\ r1.kind = job[w].kind /\ r1.f = job[w].f /\ r1.doc = job[w].doc
         /\ r1.cursor = job[w].cursor /\ r1.count = job[w].count
    BY <1>0, <2>4 DEF Jobs
  <2> HIDE DEF r1
  <2>12. /\ r2 \in Jobs /\ r2.at = "next" /\ r2.kind = job[w].kind /\ r2.f = job[w].f /\ r2.doc = job[w].doc
         /\ r2.cursor = job[w].cursor /\ r2.count = job[w].count
    BY <2>11, <2>4 DEF Jobs
  <2> HIDE DEF r2
  <2>13. /\ r3 \in Jobs /\ r3.at = "next" /\ r3.kind = job[w].kind /\ r3.f = job[w].f /\ r3.doc = job[w].doc
         /\ r3.cursor = job[w].doc /\ r3.count = job[w].count
    BY <2>12, <2>4 DEF Jobs
  <2> HIDE DEF r3
  <2>14. /\ r4 \in Jobs /\ r4.at = "next" /\ r4.kind = job[w].kind /\ r4.f = job[w].f /\ r4.doc = job[w].doc
         /\ r4.cursor = job[w].doc /\ r4.count = job[w].count + 1
    BY <2>13, <2>4 DEF Jobs
  <2> HIDE DEF r4
  <2>5. job[w].count + 1 <= Cardinality(Upto(job[w].doc))
    BY <2>3, <2>4
  <2>6. RowOk(r4)
    BY <2>5, <2>14 DEF RowOk, CountOk
  <2> QED BY <2>1, <2>6, <2>14, JobStep
<1>11. CASE Verify(w)
  BY <1>11, AtGood DEF Verify, Places
<1>12. CASE Ready(w)
  BY <1>12, AtGood DEF Ready, Places
<1>13. CASE Switch(w)
  BY <1>13, AtGood DEF Switch, Do, Places
<1>16. CASE Documents(w)
  BY <1>16, AtGood DEF Documents, Do, Places
<1>14. CASE Catch(w)
  BY <1>14, AtGood DEF Catch, Do, Places
<1>15. CASE Release(w)
  BY <1>15, IdleGood, JobStep DEF Release
<1> QED BY <1>1, <1>2, <1>3, <1>4, <1>5, <1>6, <1>7, <1>8, <1>9, <1>10, <1>11, <1>12, <1>13, <1>14, <1>15, <1>16 DEF Step

\* One row of the index is set.
LEMMA IndexRowSet ==
    ASSUME Typed, NEW f \in Fingerprint, NEW row \in IndexRows, CountOk(row),
           index' = [index EXCEPT ![f] = row]
    PROVE  /\ index' \in [Fingerprint -> IndexRows]
           /\ \A g \in Fingerprint : CountOk(index'[g])
           /\ index'[f] = row /\ \A g \in Fingerprint \ {f} : index'[g] = index[g]
<1>1. index \in [Fingerprint -> IndexRows] /\ \A g \in Fingerprint : CountOk(index[g])
  BY DEF Typed, TypeOK, Counts, IndexRows, Statuses
<1>2. index' \in [Fingerprint -> IndexRows] /\ index'[f] = row /\ \A g \in Fingerprint \ {f} : index'[g] = index[g]
  BY <1>1
<1> QED BY <1>1, <1>2

\* What each step does to the rows of the index: only a cursor is saved beside
\* a reset, a failure, a build that begins and a verdict.
LEMMA StepIndex ==
    ASSUME Typed, NEW w \in Worker, Step(w)
    PROVE  /\ index' \in [Fingerprint -> IndexRows]
           /\ \A f \in Fingerprint : CountOk(index'[f])
           /\ \A f \in Fingerprint : index'[f].status = "none" => index[f].status = "none"
           /\ ~Ready(w) => \A f \in Fingerprint : index'[f].status = "ready" => index[f].status = "ready"
<1>0. /\ index \in [Fingerprint -> IndexRows] /\ \A f \in Fingerprint : CountOk(index[f])
      /\ job[w].f \in Fingerprint /\ config \in Fingerprint
  BY JobTyped DEF Typed, TypeOK, Counts, IndexRows, Statuses
<1>1. CASE index' = index
  BY <1>0, <1>1
<1>2. CASE Invalidate(w)
  <2>1. index' = [f \in Fingerprint |-> Reset(f)]
    BY <1>2 DEF Invalidate
  <2>2. \A f \in Fingerprint : Reset(f) \in IndexRows /\ CountOk(Reset(f))
    BY MarkGood DEF Statuses
  <2>3. \A f \in Fingerprint : Reset(f).status \in {"none", "pending"} /\ (Reset(f).status = "none" => index[f].status = "none")
    <3> TAKE f \in Fingerprint
    <3>1. Reset(f).status = IF index[f].status = "none" THEN index[f].status ELSE "pending"
      BY <1>0 DEF Reset, IndexRows
    <3> QED BY <3>1
  <2> QED BY <2>1, <2>2, <2>3
<1>3. CASE Describe(w)
  <2> DEFINE row == [index[config] EXCEPT !.status = "building"]
  <2>1. index' = [index EXCEPT ![config] = row]
    BY <1>3 DEF Describe
  <2>2. row \in IndexRows /\ CountOk(row)
    BY <1>0, MarkGood DEF Statuses
  <2>3. row.status = "building"
    BY <1>0 DEF IndexRows
  <2> HIDE DEF row
  <2>4. /\ index' \in [Fingerprint -> IndexRows]
        /\ \A g \in Fingerprint : CountOk(index'[g])
        /\ index'[config] = row /\ \A g \in Fingerprint \ {config} : index'[g] = index[g]
    BY <1>0, <2>1, <2>2, IndexRowSet
  <2> QED BY <2>3, <2>4
<1>4. CASE Save(w)
  <2> DEFINE f == job[w].f
             r1 == [index[f] EXCEPT !.cursor = job[w].doc]
             r2 == [r1 EXCEPT !.count = job[w].count + 1]
  <2>1. index' = [index EXCEPT ![f] = r2]
    BY <1>0, <1>4 DEF Save
  <2>2. job[w].doc \in Chunk /\ job[w].doc > job[w].cursor /\ job[w].count <= Cardinality(Upto(job[w].cursor))
    BY <1>4, JobTyped DEF Save, RowOk, CountOk
  <2>3. Cardinality(Upto(job[w].cursor)) + 1 <= Cardinality(Upto(job[w].doc))
    BY <2>2, JobTyped, UptoGrows
  <2>4. /\ Cardinality(Upto(job[w].cursor)) \in 0 .. Cardinality(Chunk)
        /\ Cardinality(Upto(job[w].doc)) \in 0 .. Cardinality(Chunk)
        /\ Cardinality(Chunk) \in Nat /\ job[w].count \in Nat
    BY JobTyped, UptoBounded, FS_CardinalityType, KnowledgeIndexAssumption
  <2>5. /\ job[w].count + 1 <= Cardinality(Upto(job[w].doc))
        /\ job[w].count + 1 \in 0 .. Cardinality(Chunk)
    BY <2>2, <2>3, <2>4
  <2>6. r1 \in IndexRows /\ r1.cursor = job[w].doc /\ r1.status = index[f].status
    BY <1>0, <2>2 DEF IndexRows
  <2> HIDE DEF r1
  <2>7. r2 \in IndexRows /\ r2.cursor = job[w].doc /\ r2.count = job[w].count + 1 /\ r2.status = index[f].status
    BY <2>5, <2>6 DEF IndexRows
  <2> HIDE DEF r2
  <2>8. CountOk(r2)
    BY <2>5, <2>7 DEF CountOk
  <2>9. /\ index' \in [Fingerprint -> IndexRows]
        /\ \A g \in Fingerprint : CountOk(index'[g])
        /\ index'[f] = r2 /\ \A g \in Fingerprint \ {f} : index'[g] = index[g]
    BY <1>0, <2>1, <2>7, <2>8, IndexRowSet
  <2> QED BY <2>7, <2>9
<1>5. CASE Ready(w) /\ index' # index
  <2> DEFINE row == [index[job[w].f] EXCEPT !.status = "ready"]
  <2>1. index' = [index EXCEPT ![job[w].f] = row]
    BY <1>5 DEF Ready
  <2>2. row \in IndexRows /\ CountOk(row)
    BY <1>0, MarkGood DEF Statuses
  <2>3. row.status = "ready"
    BY <1>0 DEF IndexRows
  <2> HIDE DEF row
  <2>4. /\ index' \in [Fingerprint -> IndexRows]
        /\ \A g \in Fingerprint : CountOk(index'[g])
        /\ index'[job[w].f] = row /\ \A g \in Fingerprint \ {job[w].f} : index'[g] = index[g]
    BY <1>0, <2>1, <2>2, IndexRowSet
  <2> QED BY <1>5, <2>3, <2>4
<1>6. CASE Catch(w) /\ index' # index
  <2>1. PICK failed : index' = [f \in Fingerprint |-> IF f \in failed THEN [index[f] EXCEPT !.status = "failed"] ELSE index[f]]
    BY <1>6 DEF Catch
  <2>2. \A f \in Fingerprint : /\ [index[f] EXCEPT !.status = "failed"] \in IndexRows
                               /\ CountOk([index[f] EXCEPT !.status = "failed"])
    BY MarkGood DEF Statuses
  <2>3. \A f \in Fingerprint : [index[f] EXCEPT !.status = "failed"].status = "failed"
    BY <1>0 DEF IndexRows
  <2>4. \A f \in Fingerprint : \/ index'[f] = [index[f] EXCEPT !.status = "failed"]
                               \/ index'[f] = index[f]
    BY <2>1
  <2>5. index' \in [Fingerprint -> IndexRows]
    BY <1>0, <2>1, <2>2
  <2> QED BY <1>0, <2>2, <2>3, <2>4, <2>5
<1>7. index' = index \/ Invalidate(w) \/ Describe(w) \/ Save(w) \/ (Ready(w) /\ index' # index) \/ (Catch(w) /\ index' # index)
  BY DEF Step, Demote, Act, Write, Guard, Clear, Fetch, Upsert, Verify, Switch, Documents, Release, Index
<1> QED BY <1>1, <1>2, <1>3, <1>4, <1>5, <1>6, <1>7

\* The other variables keep their types when a job takes a step.
LEMMA StepRest ==
    ASSUME Typed, NEW w \in Worker, Step(w)
    PROVE  /\ chunks' \subseteq ever' /\ ever' \subseteq Chunk /\ vectors' \in [Fingerprint -> SUBSET Chunk]
           /\ backend' \in {"legacy", "qdrant"} /\ owner' \in Worker \cup {None} /\ leased' \in BOOLEAN
           /\ UNCHANGED Rest /\ late' \subseteq {"rows", "vectors", "cursor", "ready"} /\ late \subseteq late'
<1>0. /\ chunks \subseteq ever /\ ever \subseteq Chunk /\ vectors \in [Fingerprint -> SUBSET Chunk]
      /\ backend \in {"legacy", "qdrant"} /\ owner \in Worker \cup {None} /\ leased \in BOOLEAN
      /\ late \subseteq {"rows", "vectors", "cursor", "ready"}
  BY DEF Typed, TypeOK
<1> USE <1>0
<1>1. CASE Demote(w) \/ Invalidate(w) \/ Describe(w) \/ Guard(w) \/ Fetch(w) \/ Verify(w) \/ Documents(w) \/ Catch(w)
  BY <1>1 DEF Demote, Invalidate, Describe, Guard, Fetch, Verify, Documents, Catch, Rows, Index, Lease, Rest
<1>2. CASE Act(w)
  <2>1. vectors' \in [Fingerprint -> SUBSET Chunk]
    BY <1>2 DEF Act
  <2> QED BY <1>2, <2>1 DEF Act, Late, Rows, Lease, Rest
<1>3. CASE Write(w)
  <2>1. chunks' \subseteq ever' /\ ever' \subseteq Chunk
    BY <1>3 DEF Write
  <2> QED BY <1>3, <2>1 DEF Write, Late, Index, Lease, Rest
<1>4. CASE Clear(w)
  <2>1. vectors' \in [Fingerprint -> SUBSET Chunk]
    BY <1>4 DEF Clear
  <2> QED BY <1>4, <2>1 DEF Clear, Late, Rows, Lease, Rest
<1>5. CASE Upsert(w)
  <2>1. job[w].doc \in Chunk
    BY <1>5, JobTyped DEF Upsert, Guarded, Do, RowOk
  <2>2. vectors' \in [Fingerprint -> SUBSET Chunk]
    BY <1>5, <2>1 DEF Upsert
  <2> QED BY <1>5, <2>2 DEF Upsert, Late, Rows, Lease, Rest
<1>6. CASE Save(w)
  BY <1>6 DEF Save, Late, Rows, Lease, Rest
<1>7. CASE Ready(w)
  BY <1>7 DEF Ready, Late, Rows, Lease, Rest
<1>8. CASE Switch(w)
  BY <1>8 DEF Switch, Late, Rows, Lease, Rest
<1>9. CASE Release(w)
  BY <1>9 DEF Release, Rows, Index, Rest
<1> QED BY <1>1, <1>2, <1>3, <1>4, <1>5, <1>6, <1>7, <1>8, <1>9 DEF Step

\* What a step that is not a job's own does: it starts, breaks or stops a job,
\* or changes the lease or the configuration.
Outside(w) == Mutate(w) \/ Reindex(w) \/ Fails(w) \/ Crash(w)
LEMMA OutsideJobs ==
    ASSUME Typed, NEW w \in Worker, Outside(w)
    PROVE  /\ job' \in [Worker -> Jobs]
           /\ \A v \in Worker : RowOk(job'[v])
           /\ job'[w].at \in {"describe", "invalidate", "demote", "catch", "release", "dead"}
           /\ \A v \in Worker \ {w} : job'[v] = job[v]
<1>0. /\ job \in [Worker -> Jobs] /\ chunks \subseteq Chunk
      /\ "add" \in Kinds /\ "delete" \in Kinds /\ "reparse" \in Kinds /\ "reindex" \in Kinds /\ "reset" \in Kinds
  BY DEF Typed, TypeOK, Jobs, Kinds
<1>1. CASE Mutate(w)
  BY <1>0, <1>1, ClaimGood DEF Mutate
<1>2. CASE Reindex(w)
  BY <1>0, <1>2, ClaimGood DEF Reindex
<1>3. CASE Fails(w)
  <2>1. PICK place \in {"release", "catch"} : At(w, place)
    BY <1>3 DEF Fails
  <2>2. place \in Places /\ TypeOK
    BY DEF Places, Typed
  <2>3. /\ job' = [job EXCEPT ![w] = Moved(w, place)]
        /\ Moved(w, place) \in Jobs
        /\ Moved(w, place).at = place
    BY <2>1, <2>2, AtMoves
  <2>4. job' \in [Worker -> Jobs] /\ \A v \in Worker : RowOk(job'[v])
    BY <2>1, <2>2, AtGood
  <2> QED BY <1>0, <2>1, <2>3, <2>4
<1>4. CASE Crash(w)
  <2>1. job' = [job EXCEPT ![w] = [Idle EXCEPT !.at = "dead"]]
    BY <1>4 DEF Crash
  <2> QED BY <1>0, <2>1, IdleGood, JobStep
<1> QED BY <1>1, <1>2, <1>3, <1>4 DEF Outside

\* None of them touches rows, points or indexes.
LEMMA OutsideRest ==
    ASSUME Typed, NEW w \in Worker, Outside(w)
    PROVE  /\ UNCHANGED <<Rows, Index, late, config>>
           /\ owner' \in Worker \cup {None} /\ leased' \in BOOLEAN
           /\ mutations' \in 0 .. MaxMutations /\ faults' \in 0 .. MaxFaults
<1>0. /\ owner \in Worker \cup {None} /\ leased \in BOOLEAN
      /\ mutations \in 0 .. MaxMutations /\ faults \in 0 .. MaxFaults
      /\ MaxMutations \in Nat /\ MaxFaults \in Nat
  BY KnowledgeIndexAssumption DEF Typed, TypeOK
<1>1. CASE Mutate(w)
  <2>1. PICK kind, doc : Claim(w, kind, doc)
    BY <1>1 DEF Mutate
  <2>2. mutations < MaxMutations /\ mutations' = mutations + 1
    BY <1>1 DEF Mutate
  <2>3. mutations' \in 0 .. MaxMutations
    BY <1>0, <2>2
  <2> QED BY <1>0, <2>1, <2>3 DEF Claim
<1>2. CASE Reindex(w)
  BY <1>0, <1>2 DEF Reindex, Claim
<1>3. CASE Fails(w)
  BY <1>0, <1>3 DEF Fails, Fault, Lease
<1>4. CASE Crash(w)
  BY <1>0, <1>4 DEF Crash, Fault, Lease
<1> QED BY <1>1, <1>2, <1>3, <1>4 DEF Outside

\* The lease runs out, or the embedding is configured anew.
Elapse == Expire \/ Reconfigure \/ Lapse
LEMMA ElapseRest ==
    ASSUME Typed, Elapse
    PROVE  /\ UNCHANGED <<Rows, Index, late, job, owner>>
           /\ leased' \in BOOLEAN /\ (leased' => leased) /\ config' \in Fingerprint
           /\ mutations' \in 0 .. MaxMutations /\ faults' \in 0 .. MaxFaults
<1>0. /\ leased \in BOOLEAN /\ config \in Fingerprint
      /\ mutations \in 0 .. MaxMutations /\ faults \in 0 .. MaxFaults
      /\ MaxMutations \in Nat /\ MaxFaults \in Nat
  BY KnowledgeIndexAssumption DEF Typed, TypeOK
<1>1. CASE Expire
  BY <1>0, <1>1 DEF Expire, Rest
<1>2. CASE Reconfigure
  BY <1>0, <1>2 DEF Reconfigure, Fault, Lease
<1>3. CASE Lapse
  <2>1. UNCHANGED <<Rows, Index, late, job, owner, config, mutations>>
    BY <1>3 DEF Lapse, Fault
  <2>2. faults < MaxFaults /\ faults' = faults + 1
    BY <1>3 DEF Lapse, Fault
  <2>3. faults' \in 0 .. MaxFaults
    BY <1>0, <2>2
  <2>4. leased' = FALSE
    BY <1>3 DEF Lapse
  <2> QED BY <1>0, <2>1, <2>3, <2>4
<1> QED BY <1>1, <1>2, <1>3 DEF Elapse

LEMMA TypeNext == Typed /\ [Next]_vars => Typed'
<1> SUFFICES ASSUME Typed, [Next]_vars PROVE Typed'
  OBVIOUS
<1> USE DEF Typed, TypeOK, Counts, Jobs, IndexRows, Statuses
<1>1. CASE UNCHANGED vars
  BY <1>1 DEF vars, RowOk, CountOk
<1>2. ASSUME NEW w \in Worker, Step(w) PROVE Typed'
  <2>1. /\ job' \in [Worker -> Jobs]
        /\ \A v \in Worker : RowOk(job'[v])
    BY <1>2, StepJobs
  <2>2. /\ index' \in [Fingerprint -> IndexRows]
        /\ \A f \in Fingerprint : CountOk(index'[f])
    BY <1>2, StepIndex
  <2>3. /\ chunks' \subseteq ever' /\ ever' \subseteq Chunk /\ vectors' \in [Fingerprint -> SUBSET Chunk]
        /\ backend' \in {"legacy", "qdrant"} /\ owner' \in Worker \cup {None} /\ leased' \in BOOLEAN
        /\ late' \subseteq {"rows", "vectors", "cursor", "ready"}
        /\ config' = config /\ mutations' = mutations /\ faults' = faults
    BY <1>2, StepRest DEF Rest
  <2> QED BY <2>1, <2>2, <2>3
<1>3. ASSUME NEW w \in Worker, Outside(w) PROVE Typed'
  <2>1. /\ job' \in [Worker -> Jobs]
        /\ \A v \in Worker : RowOk(job'[v])
    BY <1>3, OutsideJobs
  <2>2. /\ UNCHANGED <<Rows, Index, late, config>>
        /\ owner' \in Worker \cup {None} /\ leased' \in BOOLEAN
        /\ mutations' \in 0 .. MaxMutations /\ faults' \in 0 .. MaxFaults
    BY <1>3, OutsideRest
  <2> QED BY <2>1, <2>2 DEF Rows, Index
<1>4. ASSUME Elapse PROVE Typed'
  <2>2. /\ UNCHANGED <<Rows, Index, late, job, owner>>
        /\ leased' \in BOOLEAN /\ config' \in Fingerprint
        /\ mutations' \in 0 .. MaxMutations /\ faults' \in 0 .. MaxFaults
    BY <1>4, ElapseRest
  <2> QED BY <2>2 DEF Rows, Index
<1> QED BY <1>1, <1>2, <1>3, <1>4 DEF Next, Outside, Elapse

\* In every reachable state the variables have their types.  A count is never
\* more than the number of chunks, whatever cursors were saved late.
THEOREM TypeCorrect == Spec => []TypeOK
<1>1. Typed => TypeOK
  BY DEF Typed
<1> QED BY <1>1, TypeInit, TypeNext, PTL DEF Spec
-----------------------------------------------------------------------------
(* An index that searches are let to is complete.                          *)

Building == {"clear", "next", "upsert", "save", "verify", "ready"}

\* An index without a row has no points, and a build has a row.
Described ==
    /\ \A f \in Fingerprint : index[f].status = "none" => vectors[f] = {}
    /\ \A w \in Worker : job[w].at \in Building => index[job[w].f].status # "none"

Unready(f) == index[f].status # "ready"

\* What the job with the lease knows.  While it changes documents no index is
\* ready, and the points of its document are gone before the rows; the index it
\* builds is not ready, and when its counts have agreed nothing is missing.
Holder(w) ==
    /\ job[w].at \in {"act", "rows"} => \A f \in Fingerprint : Unready(f)
    /\ job[w].at = "rows" => \A f \in Fingerprint : job[w].doc \notin vectors[f]
    /\ job[w].at \in Building => Unready(job[w].f)
    /\ job[w].at = "upsert" => job[w].doc \in chunks
    /\ job[w].at = "ready" => chunks \subseteq vectors[job[w].f]

\* Points are of chunks there are, and a ready index lacks none.
Points(f) == vectors[f] \subseteq chunks /\ (Unready(f) \/ chunks \subseteq vectors[f])

Fenced == late \subseteq {"cursor"}
Complete ==
    /\ \A f \in Fingerprint : Points(f)
    /\ \A w \in Worker : Held(w) => Holder(w)

CompleteInv == Typed /\ Described /\ (Fenced => Complete)

\* The first index is complete.
LEMMA CompleteInit == Init => CompleteInv
<1> SUFFICES ASSUME Init PROVE CompleteInv
  OBVIOUS
<1>1. Typed
  BY TypeInit
<1>2. \A w \in Worker : job[w].at = "idle"
  BY IdleGood DEF Init
<1>3. Described
  BY <1>2 DEF Init, Described, Building
<1>4. \A f \in Fingerprint : Points(f)
  BY DEF Init, Points, Unready
<1>5. \A w \in Worker : Holder(w)
  BY <1>2 DEF Holder, Building
<1> QED BY <1>1, <1>3, <1>4, <1>5 DEF CompleteInv, Complete

\* The step of one job leaves the others where they are.
LEMMA StepOthers ==
    ASSUME Typed, NEW w \in Worker, Step(w)
    PROVE  \A v \in Worker \ {w} : job'[v] = job[v]
  BY DEF Typed, TypeOK, Step, Demote, Invalidate, Act, Write, Describe, Guard, Clear, Fetch, Upsert, Save, Verify,
         Ready, Switch, Documents, Catch, Release, Guarded, Do, At

\* Where each step leads its job.
LEMMA StepRow ==
    ASSUME Typed, NEW w \in Worker, Step(w)
    PROVE  \/ Demote(w) /\ job'[w].at = "invalidate"
           \/ Invalidate(w) /\ job'[w].at \in {"describe", "act"}
           \/ Act(w) /\ job'[w].at = "rows" /\ job'[w].doc = job[w].doc
           \/ Write(w) /\ job'[w].at = "describe"
           \/ Describe(w) /\ job'[w].at = "clear" /\ job'[w].f = config
           \/ Guard(w) /\ job'[w].at \in {job[w].at, "release"} /\ job'[w].f = job[w].f /\ job'[w].doc = job[w].doc
           \/ Clear(w) /\ job'[w].at = "next" /\ job'[w].f = job[w].f
           \/ /\ Fetch(w) /\ job'[w].at \in {"verify", "upsert"} /\ job'[w].f = job[w].f
              /\ job'[w].at = "upsert" => job'[w].doc \in chunks
           \/ Upsert(w) /\ job'[w].at = "save" /\ job'[w].f = job[w].f
           \/ Save(w) /\ job'[w].at = "next" /\ job'[w].f = job[w].f
           \/ /\ Verify(w) /\ job'[w].at \in {"ready", "catch"} /\ job'[w].f = job[w].f
              /\ job'[w].at = "ready" => Counted(w)
           \/ Ready(w) /\ job'[w].at \in {"switch", "catch"}
           \/ Switch(w) /\ job'[w].at = "documents"
           \/ Documents(w) /\ job'[w].at = "release"
           \/ Catch(w) /\ job'[w].at = "release"
           \/ Release(w) /\ job'[w].at = "idle"
<1>0. job \in [Worker -> Jobs] /\ job[w] \in Jobs /\ TypeOK
  BY DEF Typed, TypeOK, Jobs
<1>1. ASSUME NEW place \in Places, At(w, place)
      PROVE  job'[w].at = place /\ job'[w].f = job[w].f /\ job'[w].doc = job[w].doc
  <2>1. /\ job' = [job EXCEPT ![w] = Moved(w, place)]
        /\ Moved(w, place).at = place /\ Moved(w, place).f = job[w].f /\ Moved(w, place).doc = job[w].doc
    BY <1>0, <1>1, AtMoves
  <2>2. job'[w] = Moved(w, place)
    BY <1>0, <2>1
  <2> QED BY <2>1, <2>2
<1>2. CASE Demote(w)
  BY <1>1, <1>2 DEF Demote, Do, Places
<1>3. CASE Invalidate(w)
  <2>1. At(w, "describe") \/ At(w, "act")
    BY <1>3 DEF Invalidate, Do
  <2> QED BY <1>1, <1>3, <2>1 DEF Places
<1>4. CASE Act(w)
  BY <1>1, <1>4 DEF Act, Do, Places
<1>5. CASE Write(w)
  BY <1>1, <1>5 DEF Write, Do, Places
<1>6. CASE Describe(w)
  <2> DEFINE r1 == [job[w] EXCEPT !.at = "clear"]
             r2 == [r1 EXCEPT !.f = config]
             r3 == [r2 EXCEPT !.cursor = index[config].cursor]
             r4 == [r3 EXCEPT !.count = index[config].count]
  <2>1. job' = [job EXCEPT ![w] = r4]
    BY <1>6 DEF Describe
  <2>2. config \in Fingerprint /\ index[config] \in IndexRows
    BY MarkGood DEF Typed, TypeOK, Statuses
  <2>3. r1 \in Jobs /\ r1.at = "clear"
    BY <1>0 DEF Jobs, Places
  <2> HIDE DEF r1
  <2>4. r2 \in Jobs /\ r2.at = "clear" /\ r2.f = config
    BY <2>2, <2>3 DEF Jobs
  <2> HIDE DEF r2
  <2>5. r3 \in Jobs /\ r3.at = "clear" /\ r3.f = config
    BY <2>2, <2>4 DEF Jobs, IndexRows
  <2> HIDE DEF r3
  <2>6. r4.at = "clear" /\ r4.f = config
    BY <2>5 DEF Jobs
  <2> HIDE DEF r4
  <2> QED BY <1>0, <1>6, <2>1, <2>6
<1>7. CASE Guard(w)
  <2>1. \/ job' = [job EXCEPT ![w] = [job[w] EXCEPT !.guarded = TRUE]]
        \/ job' = [job EXCEPT ![w] = [job[w] EXCEPT !.at = "release"]]
    BY <1>0, <1>7 DEF Guard
  <2>2. \/ job'[w] = [job[w] EXCEPT !.guarded = TRUE]
        \/ job'[w] = [job[w] EXCEPT !.at = "release"]
    BY <1>0, <2>1
  <2>3. job'[w].at \in {job[w].at, "release"} /\ job'[w].f = job[w].f /\ job'[w].doc = job[w].doc
    BY <1>0, <2>2 DEF Jobs
  <2> QED BY <1>7, <2>3
<1>8. CASE Clear(w)
  BY <1>1, <1>8 DEF Clear, Guarded, Do, Places
<1>9. CASE Fetch(w)
  <2> DEFINE doc == IF Batch(w) = {} THEN 0 ELSE CHOOSE c \in Batch(w) : TRUE
             place == IF Batch(w) = {} THEN "verify" ELSE "upsert"
             r1 == [job[w] EXCEPT !.guarded = FALSE]
             r2 == [r1 EXCEPT !.at = place]
             r3 == [r2 EXCEPT !.doc = doc]
  <2>1. job' = [job EXCEPT ![w] = r3]
    BY <1>9 DEF Fetch
  <2>2. place \in {"verify", "upsert"} /\ (place = "upsert" => doc \in chunks)
    BY DEF Batch
  <2> HIDE DEF doc, place
  <2>3. r1 \in Jobs /\ r1.f = job[w].f
    BY <1>0 DEF Jobs
  <2> HIDE DEF r1
  <2>4. r2 \in Jobs /\ r2.f = job[w].f /\ r2.at = place
    BY <2>2, <2>3 DEF Jobs, Places
  <2> HIDE DEF r2
  <2>5. r3.f = job[w].f /\ r3.at = place /\ r3.doc = doc
    BY <2>4 DEF Jobs
  <2> HIDE DEF r3
  <2>6. job'[w] = r3
    BY <1>0, <2>1
  <2> QED BY <1>9, <2>2, <2>5, <2>6
<1>10. CASE Upsert(w)
  BY <1>1, <1>10 DEF Upsert, Guarded, Do, Places
<1>11. CASE Save(w)
  <2> DEFINE r1 == [job[w] EXCEPT !.at = "next"]
             r2 == [r1 EXCEPT !.guarded = FALSE]
             r3 == [r2 EXCEPT !.cursor = job[w].doc]
             r4 == [r3 EXCEPT !.count = job[w].count + 1]
  <2>1. job' = [job EXCEPT ![w] = r4]
    BY <1>11 DEF Save
  <2>2. r1 \in Jobs /\ r1.at = "next" /\ r1.f = job[w].f
    BY <1>0 DEF Jobs, Places
  <2> HIDE DEF r1
  <2>3. r2 \in Jobs /\ r2.at = "next" /\ r2.f = job[w].f
    BY <2>2 DEF Jobs
  <2> HIDE DEF r2
  <2>4. r3 \in Jobs /\ r3.at = "next" /\ r3.f = job[w].f
    BY <1>0, <2>3 DEF Jobs
  <2> HIDE DEF r3
  <2>5. r4.at = "next" /\ r4.f = job[w].f
    BY <2>4 DEF Jobs
  <2> HIDE DEF r4
  <2>6. job'[w] = r4
    BY <1>0, <2>1
  <2> QED BY <1>11, <2>5, <2>6
<1>12. CASE Verify(w)
  <2>1. \/ At(w, "ready") /\ Counted(w)
        \/ At(w, "catch")
    BY <1>12 DEF Verify
  <2> QED BY <1>1, <1>12, <2>1 DEF Places
<1>13. CASE Ready(w)
  <2>1. At(w, "switch") \/ At(w, "catch")
    BY <1>13 DEF Ready
  <2> QED BY <1>1, <1>13, <2>1 DEF Places
<1>14. CASE Switch(w)
  BY <1>1, <1>14 DEF Switch, Do, Places
<1>17. CASE Documents(w)
  BY <1>1, <1>17 DEF Documents, Do, Places
<1>15. CASE Catch(w)
  BY <1>1, <1>15 DEF Catch, Do, Places
<1>16. CASE Release(w)
  BY <1>0, <1>16, IdleGood DEF Release
<1> QED BY <1>2, <1>3, <1>4, <1>5, <1>6, <1>7, <1>8, <1>9, <1>10, <1>11, <1>12, <1>13, <1>14, <1>15, <1>16, <1>17 DEF Step

\* A build that begins marks its index.
LEMMA DescribeMarks ==
    ASSUME Typed, NEW w \in Worker, Describe(w)
    PROVE  index'[config].status = "building" /\ config \in Fingerprint
<1>1. index \in [Fingerprint -> IndexRows] /\ config \in Fingerprint
  BY DEF Typed, TypeOK, IndexRows, Statuses
<1> DEFINE row == [index[config] EXCEPT !.status = "building"]
<1>2. index' = [index EXCEPT ![config] = row]
  BY DEF Describe
<1>3. row.status = "building"
  BY <1>1 DEF IndexRows
<1> HIDE DEF row
<1> QED BY <1>1, <1>2, <1>3

\* A step keeps indexes and their points together.
LEMMA DescribedStep ==
    ASSUME Typed, Described, NEW w \in Worker, Step(w)
    PROVE  Described'
<1>0. /\ \A f \in Fingerprint : index'[f].status = "none" => index[f].status = "none"
      /\ vectors \in [Fingerprint -> SUBSET Chunk] /\ job[w].f \in Fingerprint
  BY StepIndex, JobTyped DEF Typed, TypeOK
<1>1. ASSUME NEW f \in Fingerprint, index'[f].status = "none"
      PROVE  vectors'[f] = {}
  <2>1. vectors[f] = {}
    BY <1>0, <1>1 DEF Described
  <2>2. CASE vectors' = vectors
    BY <2>1, <2>2
  <2>3. CASE Act(w)
    BY <2>1, <2>3 DEF Act
  <2>4. CASE Clear(w)
    BY <1>0, <2>1, <2>4 DEF Clear
  <2>5. CASE Upsert(w)
    <3>1. index[job[w].f].status # "none"
      BY <2>5 DEF Upsert, Guarded, Do, Described, Building
    <3>2. f # job[w].f
      BY <1>0, <1>1, <3>1
    <3> QED BY <1>0, <2>1, <2>5, <3>2 DEF Upsert
  <2>6. vectors' = vectors \/ Act(w) \/ Clear(w) \/ Upsert(w)
    BY DEF Step, Demote, Invalidate, Write, Describe, Guard, Fetch, Save, Verify, Ready, Switch, Documents, Catch, Release, Index
  <2> QED BY <2>2, <2>3, <2>4, <2>5, <2>6
<1>2. ASSUME NEW v \in Worker, job'[v].at \in Building
      PROVE  index'[job'[v].f].status # "none"
  <2>1. CASE v # w
    <3>1. job'[v] = job[v]
      BY <2>1, StepOthers
    <3>2. index[job[v].f].status # "none" /\ job[v].f \in Fingerprint
      BY <1>2, <3>1, JobTyped DEF Described
    <3> QED BY <1>0, <3>1, <3>2
  <2>2. CASE v = w
    <3>1. CASE Describe(w)
      <4>1. job'[w].f = config
        BY <3>1, StepRow DEF Demote, Invalidate, Act, Write, Guard, Clear, Fetch, Upsert, Save, Verify, Ready, Switch, Documents,
             Catch, Release, Describe, Do, Guarded
      <4> QED BY <2>2, <3>1, <4>1, DescribeMarks
    <3>2. CASE ~Describe(w)
      <4>1. job[w].at \in Building /\ job'[w].f = job[w].f
        BY <1>2, <2>2, <3>2, StepRow DEF Building, Guard, Clear, Fetch, Upsert, Save, Verify, Do, Guarded
      <4>2. index[job[w].f].status # "none"
        BY <4>1 DEF Described
      <4> QED BY <1>0, <2>2, <4>1, <4>2
    <3> QED BY <3>1, <3>2
  <2> QED BY <2>1, <2>2
<1> QED BY <1>1, <1>2 DEF Described

\* A step without the lease that is not recorded as late changes neither rows
\* nor points, and makes no index ready.
LEMMA OutsiderStep ==
    ASSUME Typed, NEW w \in Worker, Step(w), ~Held(w), Fenced'
    PROVE  /\ chunks' = chunks /\ vectors' = vectors
           /\ \A f \in Fingerprint : index'[f].status = "ready" => index[f].status = "ready"
<1>1. ASSUME NEW what, Late(w, what) PROVE what = "cursor"
  BY <1>1 DEF Late, Fenced
<1>2. chunks' = chunks
  <2>1. ~Write(w)
    BY <1>1 DEF Write
  <2> QED BY <2>1 DEF Step, Demote, Invalidate, Act, Describe, Guard, Clear, Fetch, Upsert, Save, Verify, Ready, Switch, Documents,
         Catch, Release, Rows
<1>3. vectors' = vectors
  <2>1. ~Upsert(w)
    BY <1>1 DEF Upsert
  <2>2. CASE Act(w)
    <3>1. job[w].at = "act" /\ job[w].kind = "add"
      BY <1>1, <2>2 DEF Act, Do
    <3>2. job[w].doc = 0
      BY <3>1, JobTyped DEF RowOk
    <3>3. vectors \in [Fingerprint -> SUBSET Chunk] /\ 0 \notin Chunk
      BY KnowledgeIndexAssumption DEF Typed, TypeOK
    <3>4. \A f \in Fingerprint : vectors[f] \ {job[w].doc} = vectors[f]
      BY <3>2, <3>3
    <3>5. vectors' = [f \in Fingerprint |-> vectors[f]]
      BY <2>2, <3>4 DEF Act
    <3> QED BY <3>3, <3>5
  <2>3. CASE Clear(w)
    BY <1>1, <2>3 DEF Clear
  <2> QED BY <2>1, <2>2, <2>3 DEF Step, Demote, Invalidate, Write, Describe, Guard, Fetch, Save, Verify, Ready, Switch, Documents,
         Catch, Release, Index
<1>4. ASSUME Ready(w) PROVE index' = index
  BY <1>1, <1>4 DEF Ready
<1>5. CASE Ready(w)
  BY <1>2, <1>3, <1>4, <1>5
<1>6. CASE ~Ready(w)
  BY <1>2, <1>3, <1>6, StepIndex
<1> QED BY <1>5, <1>6

\* While nobody else writes, the holder of the lease knows what it knew.
LEMMA OthersKnow ==
    ASSUME Typed, NEW v \in Worker, job'[v] = job[v], Holder(v), chunks' = chunks, vectors' = vectors,
           \A f \in Fingerprint : index'[f].status = "ready" => index[f].status = "ready"
    PROVE  Holder(v)'
<1>1. job[v].f \in Fingerprint
  BY JobTyped
<1>2. \A f \in Fingerprint : Unready(f) => Unready(f)'
  BY DEF Unready
<1> QED BY <1>1, <1>2 DEF Holder, Unready

\* When the counts agree the index has exactly the chunks there are: a cursor
\* saved late cannot make up for a point that is missing.
LEMMA CountedComplete ==
    ASSUME Typed, NEW w \in Worker, Counted(w), vectors[job[w].f] \subseteq chunks
    PROVE  chunks \subseteq vectors[job[w].f]
<1>1. IsFiniteSet(chunks)
  BY FS_Subset, KnowledgeIndexAssumption DEF Typed, TypeOK
<1>2. vectors[job[w].f] = chunks
  BY <1>1, FS_Subset DEF Counted
<1> QED BY <1>2

\* A step of the holder of the lease keeps every index right, and it knows
\* what it has to know afterwards.
LEMMA HolderStep ==
    ASSUME Typed, Described, Complete, NEW w \in Worker, Step(w), Held(w)
    PROVE  /\ \A f \in Fingerprint : Points(f)'
           /\ Holder(w)'
<1>0. /\ Holder(w) /\ (\A f \in Fingerprint : Points(f)) /\ job[w].f \in Fingerprint /\ config \in Fingerprint
      /\ vectors \in [Fingerprint -> SUBSET Chunk] /\ index \in [Fingerprint -> IndexRows]
      /\ chunks \subseteq Chunk /\ 0 \notin Chunk
  BY JobTyped, KnowledgeIndexAssumption DEF Complete, Typed, TypeOK, IndexRows, Statuses
<1>1. CASE Act(w)
  <2>1. /\ job'[w].at = "rows" /\ job'[w].doc = job[w].doc
    BY <1>1, StepRow DEF Demote, Invalidate, Act, Write, Describe, Guard, Clear, Fetch, Upsert, Save, Verify, Ready,
         Switch, Documents, Catch, Release, Do, Guarded
  <2>2. \A f \in Fingerprint : Unready(f)
    BY <1>0, <1>1 DEF Act, Do, Holder
  <2>3. index' = index /\ chunks' = chunks
    BY <1>1 DEF Act, Rows
  <2>4. \A f \in Fingerprint : vectors'[f] \subseteq vectors[f] /\ job[w].doc \notin vectors'[f]
    BY <1>0, <1>1 DEF Act, Described
  <2>5. \A f \in Fingerprint : Points(f)'
    BY <1>0, <2>2, <2>3, <2>4 DEF Points, Unready
  <2>6. Holder(w)'
    BY <2>1, <2>2, <2>3, <2>4 DEF Holder, Unready, Building
  <2> QED BY <2>5, <2>6
<1>2. CASE Write(w)
  <2>1. job'[w].at = "describe"
    BY <1>2, StepRow DEF Demote, Invalidate, Act, Write, Describe, Guard, Clear, Fetch, Upsert, Save, Verify, Ready,
         Switch, Documents, Catch, Release, Do, Guarded
  <2>2. (\A f \in Fingerprint : Unready(f)) /\ \A f \in Fingerprint : job[w].doc \notin vectors[f]
    BY <1>0, <1>2 DEF Write, Do, Holder
  <2>3. index' = index /\ vectors' = vectors /\ chunks \ {job[w].doc} \subseteq chunks'
    BY <1>2 DEF Write, Index
  <2>4. \A f \in Fingerprint : Points(f)'
    BY <1>0, <2>2, <2>3 DEF Points, Unready
  <2>5. Holder(w)'
    BY <2>1 DEF Holder, Building
  <2> QED BY <2>4, <2>5
<1>3. CASE Clear(w)
  <2>1. job'[w].at = "next" /\ job'[w].f = job[w].f
    BY <1>3, StepRow DEF Demote, Invalidate, Act, Write, Describe, Guard, Clear, Fetch, Upsert, Save, Verify, Ready,
         Switch, Documents, Catch, Release, Do, Guarded
  <2>2. Unready(job[w].f)
    BY <1>0, <1>3 DEF Clear, Guarded, Do, Holder, Building
  <2>3. index' = index /\ chunks' = chunks
    BY <1>3 DEF Clear, Rows
  <2>4. \A f \in Fingerprint : vectors'[f] \subseteq vectors[f] /\ (f # job[w].f => vectors'[f] = vectors[f])
    BY <1>0, <1>3 DEF Clear
  <2>5. \A f \in Fingerprint : Points(f)'
    BY <1>0, <2>2, <2>3, <2>4 DEF Points, Unready
  <2>6. Holder(w)'
    BY <2>1, <2>2, <2>3 DEF Holder, Unready, Building
  <2> QED BY <2>5, <2>6
<1>4. CASE Upsert(w)
  <2>1. job'[w].at = "save" /\ job'[w].f = job[w].f
    BY <1>4, StepRow DEF Demote, Invalidate, Act, Write, Describe, Guard, Clear, Fetch, Upsert, Save, Verify, Ready,
         Switch, Documents, Catch, Release, Do, Guarded
  <2>2. Unready(job[w].f) /\ job[w].doc \in chunks
    BY <1>0, <1>4 DEF Upsert, Guarded, Do, Holder, Building
  <2>3. index' = index /\ chunks' = chunks
    BY <1>4 DEF Upsert, Rows
  <2>4. \A f \in Fingerprint : vectors[f] \subseteq vectors'[f] /\ vectors'[f] \subseteq vectors[f] \cup {job[w].doc}
    BY <1>0, <1>4 DEF Upsert
  <2>5. \A f \in Fingerprint : Points(f)'
    BY <1>0, <2>2, <2>3, <2>4 DEF Points, Unready
  <2>6. Holder(w)'
    BY <2>1, <2>2, <2>3 DEF Holder, Unready, Building
  <2> QED BY <2>5, <2>6
<1>5. CASE Ready(w)
  <2>1. job'[w].at \in {"switch", "catch"}
    BY <1>5, StepRow DEF Demote, Invalidate, Act, Write, Describe, Guard, Clear, Fetch, Upsert, Save, Verify, Ready,
         Switch, Documents, Catch, Release, Do, Guarded
  <2>2. chunks \subseteq vectors[job[w].f]
    BY <1>0, <1>5 DEF Ready, Holder
  <2>3. vectors' = vectors /\ chunks' = chunks
    BY <1>5 DEF Ready, Rows
  <2>4. \A f \in Fingerprint \ {job[w].f} : index'[f] = index[f]
    BY <1>0, <1>5 DEF Ready
  <2>5. \A f \in Fingerprint : Points(f)'
    BY <1>0, <2>2, <2>3, <2>4 DEF Points, Unready
  <2>6. Holder(w)'
    BY <2>1 DEF Holder, Building
  <2> QED BY <2>5, <2>6
<1>6. CASE ~(Act(w) \/ Write(w) \/ Clear(w) \/ Upsert(w) \/ Ready(w))
  <2>1. chunks' = chunks /\ vectors' = vectors
    BY <1>6 DEF Step, Demote, Invalidate, Describe, Guard, Fetch, Save, Verify, Switch, Documents, Catch, Release, Rows, Index
  <2>2. \A f \in Fingerprint : Unready(f) => Unready(f)'
    BY <1>6, StepIndex DEF Unready
  <2>3. \A f \in Fingerprint : Points(f)'
    BY <1>0, <2>1, <2>2 DEF Points
  <2>4. CASE Invalidate(w)
    <3>1. \A f \in Fingerprint : index'[f].status # "ready"
      <4> TAKE f \in Fingerprint
      <4>1. index'[f] = Reset(f)
        BY <2>4 DEF Invalidate
      <4>2. Reset(f).status = IF index[f].status = "none" THEN index[f].status ELSE "pending"
        BY <1>0 DEF Reset, IndexRows
      <4> QED BY <4>1, <4>2
    <3>2. job'[w].at \in {"describe", "act"}
      BY <2>4, StepRow DEF Demote, Invalidate, Act, Write, Describe, Guard, Clear, Fetch, Upsert, Save, Verify, Ready,
           Switch, Documents, Catch, Release, Do, Guarded
    <3>9. Holder(w)'
      BY <3>1, <3>2 DEF Holder, Unready, Building
    <3> QED BY <2>3, <3>9
  <2>5. CASE Describe(w)
    <3>1. job'[w].at = "clear" /\ job'[w].f = config
      BY <2>5, StepRow DEF Demote, Invalidate, Act, Write, Describe, Guard, Clear, Fetch, Upsert, Save, Verify, Ready,
           Switch, Documents, Catch, Release, Do, Guarded
    <3>2. index'[config].status = "building"
      BY <2>5, DescribeMarks
    <3>9. Holder(w)'
      BY <3>1, <3>2 DEF Holder, Unready, Building
    <3> QED BY <2>3, <3>9
  <2>6. CASE Verify(w)
    <3>1. /\ job[w].at = "verify" /\ job'[w].f = job[w].f /\ job'[w].at \in {"ready", "catch"}
          /\ job'[w].at = "ready" => Counted(w)
      BY <2>6, StepRow DEF Demote, Invalidate, Act, Write, Describe, Guard, Clear, Fetch, Upsert, Save, Verify, Ready,
           Switch, Documents, Catch, Release, Do, Guarded
    <3>2. vectors[job[w].f] \subseteq chunks /\ Unready(job[w].f)
      BY <1>0, <3>1 DEF Points, Holder, Building
    <3>3. job'[w].at = "ready" => chunks \subseteq vectors[job[w].f]
      BY <3>1, <3>2, CountedComplete
    <3>4. index'[job[w].f].status # "ready"
      BY <1>0, <2>2, <3>2 DEF Unready
    <3>9. Holder(w)'
      BY <2>1, <3>1, <3>3, <3>4 DEF Holder, Unready, Building
    <3> QED BY <2>3, <3>9
  <2>7. CASE Guard(w)
    <3>1. job'[w].at \in {job[w].at, "release"} /\ job'[w].f = job[w].f /\ job'[w].doc = job[w].doc
      BY <2>7, StepRow DEF Demote, Invalidate, Act, Write, Describe, Guard, Clear, Fetch, Upsert, Save, Verify, Ready,
           Switch, Documents, Catch, Release, Do, Guarded
    <3>9. Holder(w)'
      BY <1>0, <2>1, <2>2, <3>1 DEF Holder, Unready, Building
    <3> QED BY <2>3, <3>9
  <2>8. CASE Fetch(w)
    <3>1. /\ job'[w].at \in {"verify", "upsert"} /\ job'[w].f = job[w].f /\ job[w].at = "next"
          /\ job'[w].at = "upsert" => job'[w].doc \in chunks
      BY <2>8, StepRow DEF Demote, Invalidate, Act, Write, Describe, Guard, Clear, Fetch, Upsert, Save, Verify, Ready,
           Switch, Documents, Catch, Release, Do, Guarded
    <3>2. index'[job[w].f].status # "ready"
      BY <1>0, <2>2, <3>1 DEF Holder, Building, Unready
    <3>9. Holder(w)'
      BY <2>1, <3>1, <3>2 DEF Holder, Unready, Building
    <3> QED BY <2>3, <3>9
  <2>9. CASE Save(w)
    <3>1. job'[w].at = "next" /\ job'[w].f = job[w].f /\ job[w].at = "save"
      BY <2>9, StepRow DEF Demote, Invalidate, Act, Write, Describe, Guard, Clear, Fetch, Upsert, Save, Verify, Ready,
           Switch, Documents, Catch, Release, Do, Guarded
    <3>2. index'[job[w].f].status # "ready"
      BY <1>0, <2>2, <3>1 DEF Holder, Building, Unready
    <3>9. Holder(w)'
      BY <3>1, <3>2 DEF Holder, Unready, Building
    <3> QED BY <2>3, <3>9
  <2>10. CASE Demote(w) \/ Switch(w) \/ Documents(w) \/ Catch(w) \/ Release(w)
    <3>1. job'[w].at \in {"invalidate", "documents", "release", "idle"}
      BY <2>10, StepRow DEF Demote, Invalidate, Act, Write, Describe, Guard, Clear, Fetch, Upsert, Save, Verify, Ready,
           Switch, Documents, Catch, Release, Do, Guarded
    <3>9. Holder(w)'
      BY <3>1 DEF Holder, Building
    <3> QED BY <2>3, <3>9
  <2> QED BY <1>6, <2>3, <2>4, <2>5, <2>6, <2>7, <2>8, <2>9, <2>10 DEF Step
<1> QED BY <1>1, <1>2, <1>3, <1>4, <1>5, <1>6

\* A step gives nobody the lease; only a claim does.
LEMMA StepHeld ==
    ASSUME Typed, NEW w \in Worker, Step(w), NEW v \in Worker, Held(v)'
    PROVE  Held(v)
<1>1. CASE Release(w)
  <2>1. owner' # None => owner' = owner /\ owner # w
    BY <1>1 DEF Release
  <2>2. v # None
    BY KnowledgeIndexAssumption
  <2> QED BY <1>1, <2>1, <2>2 DEF Held, Release
<1>2. CASE ~Release(w)
  <2>1. owner' = owner /\ leased' = leased
    BY <1>2 DEF Step, Demote, Invalidate, Act, Write, Describe, Guard, Clear, Fetch, Upsert, Save, Verify, Ready,
         Switch, Documents, Catch, Lease
  <2> QED BY <2>1 DEF Held
<1> QED BY <1>1, <1>2

\* A step of a job keeps the invariant.
LEMMA CompleteStep ==
    ASSUME CompleteInv, NEW w \in Worker, Step(w)
    PROVE  CompleteInv'
<1>0. Typed /\ Described /\ (Fenced => Complete) /\ job[w].f \in Fingerprint
  BY JobTyped DEF CompleteInv
<1>1. Typed'
  BY <1>0, TypeNext DEF Next
<1>2. Described'
  BY <1>0, DescribedStep
<1>3. ASSUME Fenced' PROVE Complete'
  <2>1. Fenced /\ Complete
    BY <1>0, <1>3, StepRest DEF Fenced
  <2>2. CASE Held(w)
    <3>1. (\A f \in Fingerprint : Points(f)') /\ Holder(w)'
      BY <1>0, <2>1, <2>2, HolderStep
    <3>2. ASSUME NEW v \in Worker, Held(v)' PROVE v = w
      BY <1>0, <2>2, <3>2, StepHeld DEF Held
    <3> QED BY <3>1, <3>2 DEF Complete
  <2>3. CASE ~Held(w)
    <3>1. /\ chunks' = chunks /\ vectors' = vectors
          /\ \A f \in Fingerprint : index'[f].status = "ready" => index[f].status = "ready"
      BY <1>0, <1>3, <2>3, OutsiderStep
    <3>2. \A f \in Fingerprint : Points(f)'
      BY <2>1, <3>1 DEF Complete, Points, Unready
    <3>3. ASSUME NEW v \in Worker, Held(v)' PROVE Holder(v)'
      <4>1. Held(v) /\ v # w
        BY <1>0, <2>3, <3>3, StepHeld
      <4>2. Holder(v) /\ job'[v] = job[v]
        BY <1>0, <2>1, <4>1, StepOthers DEF Complete
      <4> QED BY <1>0, <3>1, <4>2, OthersKnow
    <3> QED BY <3>2, <3>3 DEF Complete
  <2> QED BY <2>2, <2>3
<1> QED BY <1>1, <1>2, <1>3 DEF CompleteInv

\* So does whatever starts, breaks or stops a job.
LEMMA CompleteOutside ==
    ASSUME CompleteInv, NEW w \in Worker, Outside(w)
    PROVE  CompleteInv'
<1>0. Typed /\ Described /\ (Fenced => Complete)
  BY DEF CompleteInv
<1>1. /\ UNCHANGED <<chunks, vectors, index, late>>
      /\ job'[w].at \in {"describe", "invalidate", "demote", "catch", "release", "dead"}
      /\ \A v \in Worker \ {w} : job'[v] = job[v]
  BY <1>0, OutsideRest, OutsideJobs DEF Rows, Index
<1>2. Typed'
  BY <1>0, TypeNext DEF Next, Outside
<1>3. Described'
  BY <1>0, <1>1 DEF Described, Building
<1>4. Holder(w)'
  BY <1>1 DEF Holder, Building
<1>5. ASSUME NEW v \in Worker, v # w, Held(v)' PROVE Held(v)
  <2>1. CASE \E kind, doc : Claim(w, kind, doc)
    BY <1>5, <2>1 DEF Claim, Held
  <2>2. CASE Fails(w) \/ Crash(w)
    BY <1>5, <2>2 DEF Fails, Crash, Lease, Held
  <2> QED BY <2>1, <2>2 DEF Outside, Mutate, Reindex
<1>6. ASSUME Fenced' PROVE Complete'
  <2>1. Complete
    BY <1>0, <1>1, <1>6 DEF Fenced
  <2>2. \A f \in Fingerprint : Points(f)'
    BY <1>1, <2>1 DEF Complete, Points, Unready
  <2>3. ASSUME NEW v \in Worker, v # w, Held(v)' PROVE Holder(v)'
    <3>1. Holder(v)
      BY <1>5, <2>1, <2>3 DEF Complete
    <3> QED BY <1>0, <1>1, <2>3, <3>1, OthersKnow
  <2> QED BY <1>4, <2>2, <2>3 DEF Complete
<1> QED BY <1>2, <1>3, <1>6 DEF CompleteInv

LEMMA CompleteNext == CompleteInv /\ [Next]_vars => CompleteInv'
<1> SUFFICES ASSUME CompleteInv, [Next]_vars PROVE CompleteInv'
  OBVIOUS
<1>1. CASE UNCHANGED vars \/ Elapse
  <2>0. Typed /\ Typed' /\ Described /\ (Fenced => Complete)
    BY TypeNext DEF CompleteInv
  <2>1. UNCHANGED <<chunks, vectors, index, late, job, owner>> /\ (leased' => leased)
    BY <1>1, <2>0, ElapseRest DEF vars, Rows, Index
  <2>2. Described'
    BY <2>0, <2>1 DEF Described
  <2>3. ASSUME Fenced' PROVE Complete'
    <3>1. Complete
      BY <2>0, <2>1, <2>3 DEF Fenced
    <3>2. \A f \in Fingerprint : Points(f)'
      BY <2>1, <3>1 DEF Complete, Points, Unready
    <3>3. ASSUME NEW v \in Worker, Held(v)' PROVE Holder(v)'
      <4>1. Holder(v) /\ job'[v] = job[v]
        BY <2>1, <3>1, <3>3 DEF Complete, Held
      <4> QED BY <2>0, <2>1, <4>1, OthersKnow
    <3> QED BY <3>2, <3>3 DEF Complete
  <2> QED BY <2>0, <2>2, <2>3 DEF CompleteInv
<1>2. ASSUME NEW w \in Worker, Step(w) PROVE CompleteInv'
  BY <1>2, CompleteStep
<1>3. ASSUME NEW w \in Worker, Outside(w) PROVE CompleteInv'
  BY <1>3, CompleteOutside
<1> QED BY <1>1, <1>2, <1>3 DEF Next, Outside, Elapse

\* An index that searches are let to has a point for every chunk, through
\* failures, crashes, lapses and changes of the model, unless a job wrote rows,
\* points or its verdict after its lease had lapsed.
THEOREM ReadyIsCompleteCorrect == Spec => []ReadyIsComplete
<1>1. CompleteInv => ReadyIsComplete
  BY DEF CompleteInv, Complete, Points, Unready, Fenced, ReadyIsComplete, Served
<1> QED BY <1>1, CompleteInit, CompleteNext, PTL DEF Spec
=============================================================================
