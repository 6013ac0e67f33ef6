--------------------------- MODULE MemoryIndexProofs ---------------------------
(***************************************************************************)
(* Proofs about MemoryIndex, for any number of workers, vector spaces,      *)
(* edits and faults: the types of its state, that an acknowledged row is    *)
(* indexed once no late writer is left, and that a dirty mark ends only     *)
(* with its revision indexed.                                               *)
(***************************************************************************)
EXTENDS MemoryIndex, TLAPS

USE IndexAssumption
-----------------------------------------------------------------------------
(* What the statements do to the row.                                      *)

\* An edit: a new revision, and the mark with it.
LEMMA DirtyRow ==
    ASSUME NEW r \in Rows, r.rev < MaxRevision
    PROVE  /\ Dirty(r) \in Rows /\ Dirty(r).rev = r.rev + 1 /\ Dirty(r).pending = TRUE
           /\ Dirty(r).deleted = r.deleted /\ Dirty(r).fp = r.fp /\ Dirty(r).owner = r.owner
<1> DEFINE f == [r EXCEPT !.rev = r.rev + 1]
           g == [f EXCEPT !.pending = TRUE]
           e == [g EXCEPT !.due = TRUE]
<1>1. r.rev + 1 \in Revisions
  BY DEF Rows, Revisions
<1>2. /\ f \in Rows /\ f.rev = r.rev + 1
      /\ f.deleted = r.deleted /\ f.fp = r.fp /\ f.owner = r.owner
  BY <1>1 DEF Rows
<1>3. Dirty(r) = e
  BY DEF Dirty, Rows
<1> HIDE DEF f
<1>4. /\ g \in Rows /\ g.rev = r.rev + 1 /\ g.pending = TRUE
      /\ g.deleted = r.deleted /\ g.fp = r.fp /\ g.owner = r.owner
  BY <1>2 DEF Rows
<1> HIDE DEF g
<1>5. /\ e \in Rows /\ e.rev = r.rev + 1 /\ e.pending = TRUE
      /\ e.deleted = r.deleted /\ e.fp = r.fp /\ e.owner = r.owner
  BY <1>4 DEF Rows
<1> HIDE DEF e
<1> QED BY <1>3, <1>5

\* A backfill or a requeue: the mark alone.
LEMMA MarkRow ==
    ASSUME NEW r \in Rows, NEW e, e = [r EXCEPT !.pending = TRUE, !.due = TRUE]
    PROVE  /\ e \in Rows /\ e.rev = r.rev /\ e.pending = TRUE
           /\ e.deleted = r.deleted /\ e.fp = r.fp /\ e.owner = r.owner
<1> DEFINE f == [r EXCEPT !.pending = TRUE]
<1>1. /\ f \in Rows /\ f.rev = r.rev /\ f.pending = TRUE
      /\ f.deleted = r.deleted /\ f.fp = r.fp /\ f.owner = r.owner
  BY DEF Rows
<1>2. e = [f EXCEPT !.due = TRUE]
  BY DEF Rows
<1> HIDE DEF f
<1> QED BY <1>1, <1>2 DEF Rows

\* The claim: the mark, the owner and its lease.
LEMMA ClaimRow ==
    ASSUME row \in Rows, NEW w \in Worker,
           row' = [row EXCEPT !.pending = TRUE, !.owner = w, !.leased = TRUE]
    PROVE  /\ row' \in Rows /\ row'.rev = row.rev /\ row'.pending = TRUE
           /\ row'.deleted = row.deleted /\ row'.fp = row.fp /\ row'.owner = w
<1> DEFINE f == [row EXCEPT !.pending = TRUE]
           g == [f EXCEPT !.owner = w]
<1>1. /\ f \in Rows /\ f.rev = row.rev /\ f.pending = TRUE
      /\ f.deleted = row.deleted /\ f.fp = row.fp
  BY DEF Rows
<1>2. row' = [g EXCEPT !.leased = TRUE]
  BY DEF Rows
<1> HIDE DEF f
<1>3. /\ g \in Rows /\ g.rev = row.rev /\ g.pending = TRUE
      /\ g.deleted = row.deleted /\ g.fp = row.fp /\ g.owner = w
  BY <1>1 DEF Rows
<1> HIDE DEF g
<1> QED BY <1>2, <1>3 DEF Rows

\* The acknowledgement: the mark goes, the fingerprint says which space has it.
LEMMA AckRow ==
    ASSUME row \in Rows, NEW s \in Space,
           row' = [row EXCEPT !.pending = FALSE, !.fp = s, !.due = TRUE]
    PROVE  /\ row' \in Rows /\ row'.rev = row.rev /\ row'.pending = FALSE
           /\ row'.deleted = row.deleted /\ row'.fp = s /\ row'.owner = row.owner
<1> DEFINE f == [row EXCEPT !.pending = FALSE]
           g == [f EXCEPT !.fp = s]
<1>1. /\ f \in Rows /\ f.rev = row.rev /\ f.pending = FALSE
      /\ f.deleted = row.deleted /\ f.owner = row.owner
  BY DEF Rows
<1>2. row' = [g EXCEPT !.due = TRUE]
  BY DEF Rows
<1> HIDE DEF f
<1>3. /\ g \in Rows /\ g.rev = row.rev /\ g.pending = FALSE
      /\ g.deleted = row.deleted /\ g.fp = s /\ g.owner = row.owner
  BY <1>1 DEF Rows
<1> HIDE DEF g
<1> QED BY <1>2, <1>3 DEF Rows

\* A statement that changes the owner or the times, and neither the revision nor
\* the mark.
Spared(r, e) ==
    /\ e \in Rows /\ e.rev = r.rev /\ e.deleted = r.deleted /\ e.fp = r.fp
    /\ e.pending = r.pending

LEMMA ReleaseRow ==
    ASSUME NEW r \in Rows, NEW e, e = [r EXCEPT !.owner = None, !.leased = FALSE]
    PROVE  Spared(r, e) /\ e.owner = None
<1> DEFINE f == [r EXCEPT !.owner = None]
<1>1. Spared(r, f) /\ f.owner = None
  BY DEF Rows, Spared
<1>2. e = [f EXCEPT !.leased = FALSE]
  BY DEF Rows
<1> HIDE DEF f
<1> QED BY <1>1, <1>2 DEF Rows, Spared

LEMMA TimeRow ==
    ASSUME NEW r \in Rows, NEW v \in BOOLEAN, NEW e,
           e = [r EXCEPT !.due = v] \/ e = [r EXCEPT !.leased = v]
    PROVE  Spared(r, e) /\ e.owner = r.owner
BY DEF Rows, Spared
-----------------------------------------------------------------------------
(* What the steps do to the jobs of the workers.                           *)

\* The job of one worker is replaced.
LEMMA JobChange ==
    ASSUME job \in [Worker -> Jobs], NEW w \in Worker, NEW e \in Jobs, job' = [job EXCEPT ![w] = e]
    PROVE  /\ job' \in [Worker -> Jobs] /\ job'[w] = e
           /\ \A v \in Worker \ {w} : job'[v] = job[v]
OBVIOUS

LEMMA GoEffect ==
    ASSUME job \in [Worker -> Jobs], NEW w \in Worker, NEW place \in Places, Go(w, place)
    PROVE  /\ job' \in [Worker -> Jobs] /\ \A v \in Worker \ {w} : job'[v] = job[v]
           /\ job'[w].at = place /\ job'[w].space = job[w].space
           /\ job'[w].rev = job[w].rev /\ job'[w].todo = job[w].todo
<1> DEFINE e == [job[w] EXCEPT !.at = place]
<1>1. job[w] \in Jobs
  OBVIOUS
<1>2. /\ e \in Jobs /\ e.at = place /\ e.space = job[w].space
      /\ e.rev = job[w].rev /\ e.todo = job[w].todo
  BY <1>1 DEF Jobs
<1>3. job' = [job EXCEPT ![w] = e]
  BY DEF Go
<1> HIDE DEF e
<1> QED BY <1>2, <1>3, JobChange

LEMMA RegisterEffect ==
    ASSUME TypeOK, NEW w \in Worker, Register(w)
    PROVE  /\ job' \in [Worker -> Jobs] /\ \A v \in Worker \ {w} : job'[v] = job[v]
           /\ job'[w].at = "prepare" /\ job'[w].space = config /\ job'[w].rev = job[w].rev
<1> DEFINE f == [job[w] EXCEPT !.at = "prepare"]
           e == [f EXCEPT !.space = config]
<1>1. job[w] \in Jobs /\ config \in Space /\ job \in [Worker -> Jobs]
  BY DEF TypeOK
<1>2. f \in Jobs /\ f.at = "prepare" /\ f.rev = job[w].rev
  BY <1>1 DEF Jobs, Places
<1>3. job' = [job EXCEPT ![w] = e]
  BY <1>1 DEF Register
<1> HIDE DEF f
<1>4. e \in Jobs /\ e.at = "prepare" /\ e.rev = job[w].rev /\ e.space = config
  BY <1>1, <1>2 DEF Jobs
<1> HIDE DEF e
<1> QED BY <1>1, <1>3, <1>4, JobChange

LEMMA ReadEffect ==
    ASSUME TypeOK, NEW w \in Worker, Read(w), Owns(w)
    PROVE  /\ job' \in [Worker -> Jobs] /\ \A v \in Worker \ {w} : job'[v] = job[v]
           /\ job'[w].at = IF row.deleted THEN "list" ELSE "write"
           /\ job'[w].rev = row.rev /\ job'[w].space = job[w].space
<1> DEFINE f == [job[w] EXCEPT !.rev = row.rev]
           place == IF row.deleted THEN "list" ELSE "write"
           e == [f EXCEPT !.at = place]
<1>1. /\ job[w] \in Jobs /\ row.rev \in Revisions /\ place \in Places
      /\ job \in [Worker -> Jobs]
  BY DEF TypeOK, Rows, Places
<1>2. f \in Jobs /\ f.rev = row.rev /\ f.space = job[w].space
  BY <1>1 DEF Jobs
<1>3. job' = [job EXCEPT ![w] = e]
  BY <1>1 DEF Read
<1> HIDE DEF f, place
<1>4. e \in Jobs /\ e.rev = row.rev /\ e.space = job[w].space /\ e.at = place
  BY <1>1, <1>2 DEF Jobs
<1> HIDE DEF e
<1>5. /\ job' \in [Worker -> Jobs] /\ \A v \in Worker \ {w} : job'[v] = job[v]
      /\ job'[w].at = place
      /\ job'[w].rev = row.rev /\ job'[w].space = job[w].space
  BY <1>1, <1>3, <1>4, JobChange
<1> QED BY <1>5 DEF place

LEMMA ListEffect ==
    ASSUME TypeOK, NEW w \in Worker, List(w)
    PROVE  /\ job' \in [Worker -> Jobs] /\ \A v \in Worker \ {w} : job'[v] = job[v]
           /\ job'[w].at = "erase" /\ job'[w].todo = {s \in Space : scan[s] # "absent"}
           /\ job'[w].rev = job[w].rev /\ job'[w].space = job[w].space
<1> DEFINE todo == {s \in Space : scan[s] # "absent"}
           f == [job[w] EXCEPT !.at = "erase"]
           e == [f EXCEPT !.todo = todo]
<1>1. job[w] \in Jobs /\ todo \in SUBSET Space /\ job \in [Worker -> Jobs]
  BY DEF TypeOK
<1>2. f \in Jobs /\ f.at = "erase" /\ f.rev = job[w].rev /\ f.space = job[w].space
  BY <1>1 DEF Jobs, Places
<1>3. job' = [job EXCEPT ![w] = e]
  BY <1>1 DEF List
<1> HIDE DEF f, todo
<1>4. e \in Jobs /\ e.at = "erase" /\ e.todo = todo /\ e.rev = job[w].rev /\ e.space = job[w].space
  BY <1>1, <1>2 DEF Jobs
<1> HIDE DEF e
<1>5. /\ job' \in [Worker -> Jobs] /\ \A v \in Worker \ {w} : job'[v] = job[v]
      /\ job'[w].at = "erase" /\ job'[w].todo = todo
      /\ job'[w].rev = job[w].rev /\ job'[w].space = job[w].space
  BY <1>1, <1>3, <1>4, JobChange
<1> QED BY <1>5 DEF todo

LEMMA EraseEffect ==
    ASSUME TypeOK, NEW w \in Worker, NEW s \in Space, job' = [job EXCEPT ![w].todo = @ \ {s}]
    PROVE  /\ job' \in [Worker -> Jobs] /\ \A v \in Worker \ {w} : job'[v] = job[v]
           /\ job'[w].at = job[w].at /\ job'[w].todo = job[w].todo \ {s}
           /\ job'[w].rev = job[w].rev /\ job'[w].space = job[w].space
<1> DEFINE todo == job[w].todo \ {s}
           e == [job[w] EXCEPT !.todo = todo]
<1>1. job[w] \in Jobs /\ todo \in SUBSET Space /\ job \in [Worker -> Jobs]
  BY DEF TypeOK, Jobs
<1>2. job' = [job EXCEPT ![w] = e]
  BY <1>1
<1> HIDE DEF todo
<1>3. /\ e \in Jobs /\ e.at = job[w].at /\ e.todo = todo
      /\ e.rev = job[w].rev /\ e.space = job[w].space
  BY <1>1 DEF Jobs
<1> HIDE DEF e
<1>4. /\ job' \in [Worker -> Jobs] /\ \A v \in Worker \ {w} : job'[v] = job[v]
      /\ job'[w].at = job[w].at /\ job'[w].todo = todo
      /\ job'[w].rev = job[w].rev /\ job'[w].space = job[w].space
  BY <1>1, <1>2, <1>3, JobChange
<1> QED BY <1>4 DEF todo
-----------------------------------------------------------------------------
(* Types. *)

LEMMA TypeInit == Init => TypeOK
<1> SUFFICES ASSUME Init PROVE TypeOK
  OBVIOUS
<1>1. row \in Rows
  BY DEF Init, Rows, Revisions
<1>2. NoJob \in Jobs
  BY DEF NoJob, Jobs, Places, Revisions
<1>3. points \in [Space -> 0 .. MaxRevision] /\ scan \in [Space -> {"absent", "start", "end", "complete"}]
  BY DEF Init
<1>4. config \in Space /\ faults \in 0 .. MaxFaults
  BY DEF Init
<1>6. spoilt \in BOOLEAN
  BY DEF Init
<1>5. job \in [Worker -> Jobs]
  BY <1>2 DEF Init
<1> QED BY <1>1, <1>3, <1>4, <1>5, <1>6 DEF TypeOK

LEMMA TypeUser == ASSUME TypeOK, User PROVE TypeOK'
<1>1. row \in Rows /\ row.rev < MaxRevision
  BY DEF TypeOK, User, Update, Remove, Rebuild
<1>2. Dirty(row) \in Rows
  BY <1>1, DirtyRow
<1>3. row' = Dirty(row) \/ row' = [Dirty(row) EXCEPT !.deleted = TRUE]
  BY DEF User, Update, Remove, Rebuild
<1>4. row' \in Rows
  BY <1>2, <1>3 DEF Rows
<1> QED BY <1>4 DEF TypeOK, User, Update, Remove, Rebuild

LEMMA TypeStep == ASSUME TypeOK, NEW w \in Worker, Step(w) PROVE TypeOK'
<1> USE DEF TypeOK, At
<1>0. /\ job \in [Worker -> Jobs] /\ row \in Rows /\ job[w].space \in Space
      /\ "idle" \in Places /\ "cursor" \in Places /\ "claim" \in Places /\ "read" \in Places
      /\ "release" \in Places /\ "requeue" \in Places /\ "ack" \in Places
  BY DEF Jobs, Places
<1>1. CASE Register(w)
  BY <1>0, <1>1, RegisterEffect DEF Register
<1>14. CASE Scan(w)
  <2>1. PICK place \in {"mark", "finish", "claim"} : Go(w, place)
    BY <1>14 DEF Scan
  <2>2. place \in Places
    BY DEF Places
  <2> QED BY <1>0, <1>14, <2>1, <2>2, GoEffect DEF Scan
<1>2. CASE Backfill(w)
  BY <1>0, <1>2, GoEffect, MarkRow DEF Backfill
<1>3. CASE MoveCursor(w)
  BY <1>0, <1>3, GoEffect DEF MoveCursor
<1>4. CASE Prepared(w)
  BY <1>0, <1>4, GoEffect DEF Prepared
<1>5. CASE Claim(w)
  BY <1>0, <1>5, GoEffect, ClaimRow DEF Claim
<1>6. CASE Read(w)
  BY <1>0, <1>6, GoEffect, ReadEffect DEF Read
<1>7. CASE List(w)
  BY <1>0, <1>7, ListEffect DEF List
<1>8. CASE Erase(w)
  <2>1. job[w].todo \subseteq Space
    BY <1>0 DEF Jobs
  <2> QED BY <1>0, <1>8, <2>1, GoEffect, EraseEffect DEF Erase
<1>9. CASE Upsert(w)
  <2>1. job[w].rev \in 0 .. MaxRevision
    BY <1>0 DEF Jobs, Revisions
  <2> QED BY <1>0, <1>9, <2>1, GoEffect DEF Upsert
<1>10. CASE Ack(w)
  BY <1>0, <1>10, GoEffect, AckRow DEF Ack
<1>11. CASE Requeue(w)
  BY <1>0, <1>11, GoEffect, MarkRow DEF Requeue, AckPending
<1>12. CASE Backoff(w)
  <2>1. (row.due /\ ~Acknowledges(w)) \in BOOLEAN
    OBVIOUS
  <2>2. Spared(row, row')
    BY <1>0, <1>12, <2>1, TimeRow DEF Backoff
  <2> QED BY <1>0, <1>12, <2>2, GoEffect DEF Backoff, Spared
<1>13. CASE Release(w)
  BY <1>0, <1>13, GoEffect, ReleaseRow DEF Release, Spared
<1> QED
  BY <1>1, <1>2, <1>3, <1>4, <1>5, <1>6, <1>7, <1>8, <1>9, <1>10, <1>11, <1>12, <1>13, <1>14 DEF Step

\* A failed worker goes where its catch block starts.
LEMMA FailEffect ==
    ASSUME TypeOK, NEW w \in Worker, Fail(w)
    PROVE  /\ job' \in [Worker -> Jobs] /\ \A v \in Worker \ {w} : job'[v] = job[v]
           /\ job'[w].at \in {"backoff", "release", "idle"}
           /\ job'[w].at \in {"backoff", "release"} => job[w].at # "idle"
           /\ job'[w].space = job[w].space /\ job'[w].rev = job[w].rev
<1> DEFINE place == CASE job[w].at \in {"list", "erase", "write", "ack", "requeue"} -> "backoff"
                      [] job[w].at \in {"read", "backoff"} -> "release"
                      [] OTHER -> "idle"
<1>1. /\ place \in {"backoff", "release", "idle"}
      /\ place \in {"backoff", "release"} => job[w].at # "idle"
  OBVIOUS
<1>2. Go(w, place) /\ job \in [Worker -> Jobs]
  BY DEF Fail, TypeOK
<1> HIDE DEF place
<1>3. place \in Places
  BY <1>1 DEF Places
<1> QED BY <1>1, <1>2, <1>3, GoEffect

LEMMA TypeNext == ASSUME TypeOK, [Next]_vars PROVE TypeOK'
<1>1. CASE UNCHANGED vars
  BY <1>1 DEF vars, TypeOK
<1>2. CASE User
  BY <1>2, TypeUser
<1>3. CASE Time
  BY <1>3, TimeRow DEF Time, Lapse, Due, TypeOK, Spared
<1>4. CASE Reconfigure
  BY <1>4 DEF Reconfigure, Fault, TypeOK
<1>5. ASSUME NEW w \in Worker, Step(w) PROVE TypeOK'
  BY <1>5, TypeStep
<1>6. ASSUME NEW w \in Worker, Fail(w) PROVE TypeOK'
  <2>1. job[w].rev \in 0 .. MaxRevision /\ job[w].space \in Space
    BY DEF TypeOK, Jobs, Revisions
  <2>2. points' \in [Space -> 0 .. MaxRevision]
    BY <1>6, <2>1 DEF Fail, TypeOK
  <2>3. faults' \in 0 .. MaxFaults /\ spoilt' \in BOOLEAN
    BY <1>6 DEF Fail, Fault, Spoils, TypeOK
  <2> QED BY <1>6, <2>2, <2>3, FailEffect DEF Fail, TypeOK
<1>7. ASSUME NEW w \in Worker, Crash(w) PROVE TypeOK'
  <2>1. NoJob \in Jobs
    BY DEF NoJob, Jobs, Places, Revisions
  <2> QED BY <1>7, <2>1 DEF Crash, Fault, Spoils, TypeOK
<1>8. ASSUME NEW w \in Worker, Heartbeat(w) \/ Stall(w) PROVE TypeOK'
  <2>1. row' \in Rows
    BY <1>8, TimeRow DEF Heartbeat, Stall, TypeOK, Spared
  <2>2. faults' \in 0 .. MaxFaults
    BY <1>8 DEF Heartbeat, Stall, Fault, TypeOK
  <2> QED BY <1>8, <2>1, <2>2 DEF Heartbeat, Stall, TypeOK
<1> QED
  BY <1>1, <1>2, <1>3, <1>4, <1>5, <1>6, <1>7, <1>8 DEF Next

\* The row, the points and the jobs keep the types above, for all constants.
THEOREM TypeCorrect == Spec => []TypeOK
<1>1. Init => TypeOK
  BY TypeInit
<1>2. TypeOK /\ [Next]_vars => TypeOK'
  BY TypeNext
<1> QED
  BY <1>1, <1>2, PTL DEF Spec
-----------------------------------------------------------------------------
(* The whole effect of every statement on the parts that follow.           *)

\* A worker goes on and keeps what it has read.
Moves(w, place) ==
    /\ \A v \in Worker \ {w} : job'[v] = job[v]
    /\ job'[w].at = place /\ job'[w].space = job[w].space
    /\ job'[w].rev = job[w].rev /\ job'[w].todo = job[w].todo

\* The row has its mark, and otherwise what it had.
Marked == row'.pending = TRUE /\ row'.rev = row.rev /\ row'.deleted = row.deleted /\ row'.fp = row.fp

\* No space is forgotten.
Remembered == \A s \in Space : scan'[s] = "absent" => scan[s] = "absent"

LEMMA MovesIf == ASSUME TypeOK, NEW w \in Worker, NEW place \in Places, Go(w, place) PROVE Moves(w, place)
  BY GoEffect DEF TypeOK, Moves

LEMMA PlaceNames ==
    /\ "idle" \in Places /\ "prepare" \in Places /\ "mark" \in Places /\ "cursor" \in Places
    /\ "finish" \in Places /\ "claim" \in Places /\ "read" \in Places
    /\ "ack" \in Places /\ "requeue" \in Places /\ "backoff" \in Places
    /\ "release" \in Places
  BY DEF Places

LEMMA UserEffect ==
    ASSUME TypeOK, User
    PROVE  /\ row'.rev = row.rev + 1 /\ row'.pending = TRUE /\ row'.owner = row.owner
           /\ row.deleted => row'.deleted
           /\ UNCHANGED <<scan, points, job, spoilt>>
<1>1. row \in Rows /\ row.rev < MaxRevision
  BY DEF TypeOK, User, Update, Remove, Rebuild
<1> DEFINE d == Dirty(row)
<1>2. /\ d \in Rows /\ d.rev = row.rev + 1 /\ d.pending = TRUE
      /\ d.deleted = row.deleted /\ d.owner = row.owner
  BY <1>1, DirtyRow
<1>3. row' = d \/ (row' = [d EXCEPT !.deleted = TRUE])
  BY DEF User, Update, Remove, Rebuild
<1> HIDE DEF d
<1>4. /\ row'.rev = row.rev + 1 /\ row'.pending = TRUE /\ row'.owner = row.owner
      /\ row.deleted => row'.deleted
  BY <1>2, <1>3 DEF Rows
<1> QED BY <1>4 DEF User, Update, Remove, Rebuild

LEMMA ScanEffect ==
    ASSUME TypeOK, NEW w \in Worker, Scan(w)
    PROVE  /\ At(w, "prepare") /\ \E place \in {"mark", "finish", "claim"} : Moves(w, place)
           /\ UNCHANGED <<row, scan, points, spoilt>>
<1>1. \E place \in {"mark", "finish", "claim"} : Go(w, place)
  BY DEF Scan
<1> QED BY <1>1, MovesIf, PlaceNames DEF Scan

LEMMA BackfillEffect ==
    ASSUME TypeOK, NEW w \in Worker, Backfill(w)
    PROVE  /\ At(w, "mark") /\ Moves(w, "cursor")
           /\ Marked /\ row'.owner = row.owner /\ UNCHANGED <<scan, points, spoilt>>
<1>1. Moves(w, "cursor")
  BY MovesIf, PlaceNames DEF Backfill
<1>2. Marked /\ row'.owner = row.owner
  BY MarkRow DEF Backfill, TypeOK, Marked
<1> QED BY <1>1, <1>2 DEF Backfill

LEMMA PrepareEffect ==
    ASSUME TypeOK, NEW w \in Worker, MoveCursor(w) \/ Prepared(w)
    PROVE  /\ job[w].at \in {"cursor", "finish"} /\ Moves(w, "claim")
           /\ Remembered /\ UNCHANGED <<row, points, spoilt>>
<1>1. Moves(w, "claim")
  BY MovesIf, PlaceNames DEF MoveCursor, Prepared
<1>2. Remembered
  BY DEF MoveCursor, Prepared, Remembered, TypeOK
<1> QED BY <1>1, <1>2 DEF MoveCursor, Prepared, At

LEMMA ClaimEffect ==
    ASSUME TypeOK, NEW w \in Worker, Claim(w)
    PROVE  /\ At(w, "claim") /\ UNCHANGED <<scan, points, spoilt>>
           /\ \/ Moves(w, "read") /\ Marked /\ row'.owner = w
              \/ Moves(w, "idle") /\ UNCHANGED row
<1>1. CASE Claimable(job[w].space)
  <2>1. Moves(w, "read")
    BY <1>1, MovesIf, PlaceNames DEF Claim
  <2>2. Marked /\ row'.owner = w
    <3>1. row \in Rows /\ row' = [row EXCEPT !.pending = TRUE, !.owner = w, !.leased = TRUE]
      BY <1>1 DEF Claim, TypeOK
    <3>2. row'.rev = row.rev /\ row'.pending = TRUE /\ row'.deleted = row.deleted
      BY <3>1, ClaimRow
    <3>3. row'.fp = row.fp /\ row'.owner = w
      BY <3>1, ClaimRow
    <3> QED BY <3>2, <3>3 DEF Marked
  <2> QED BY <2>1, <2>2 DEF Claim
<1>2. CASE ~Claimable(job[w].space)
  BY <1>2, MovesIf, PlaceNames DEF Claim
<1> QED BY <1>1, <1>2

LEMMA UpsertEffect ==
    ASSUME TypeOK, NEW w \in Worker, Upsert(w)
    PROVE  /\ At(w, "write") /\ (Moves(w, "write") \/ Moves(w, "ack"))
           /\ points'[job[w].space] = job[w].rev
           /\ \A s \in Space \ {job[w].space} : points'[s] = points[s]
           /\ UNCHANGED <<row, scan, spoilt>>
<1>1. Moves(w, "write") \/ Moves(w, "ack")
  BY MovesIf, PlaceNames DEF Upsert, Moves, At
<1>2. job[w].space \in Space
  BY DEF TypeOK, Jobs
<1> QED BY <1>1, <1>2 DEF Upsert, TypeOK

LEMMA AckEffect ==
    ASSUME TypeOK, NEW w \in Worker, Ack(w)
    PROVE  /\ At(w, "ack") /\ UNCHANGED <<scan, points, spoilt>>
           /\ \/ /\ Acknowledges(w) /\ Moves(w, "release") /\ row'.pending = FALSE
                 /\ row'.rev = row.rev /\ row'.deleted = row.deleted
                 /\ row'.fp = job[w].space /\ row'.owner = row.owner
              \/ ~Acknowledges(w) /\ Moves(w, "requeue") /\ UNCHANGED row
<1>1. CASE Acknowledges(w)
  <2>1. Moves(w, "release")
    BY <1>1, MovesIf, PlaceNames DEF Ack
  <2>2. job[w].space \in Space /\ row \in Rows
    BY DEF TypeOK, Jobs
  <2>3. row' = [row EXCEPT !.pending = FALSE, !.fp = job[w].space, !.due = TRUE]
    BY <1>1 DEF Ack
  <2>4. /\ row'.pending = FALSE /\ row'.rev = row.rev /\ row'.deleted = row.deleted
        /\ row'.fp = job[w].space /\ row'.owner = row.owner
    <3> DEFINE s == job[w].space
    <3>1. s \in Space /\ row' = [row EXCEPT !.pending = FALSE, !.fp = s, !.due = TRUE]
      BY <2>2, <2>3
    <3> HIDE DEF s
    <3>2. row'.pending = FALSE /\ row'.rev = row.rev /\ row'.deleted = row.deleted
      BY <2>2, <3>1, AckRow
    <3>3. row'.fp = s /\ row'.owner = row.owner
      BY <2>2, <3>1, AckRow
    <3> QED BY <3>2, <3>3 DEF s
  <2> QED BY <1>1, <2>1, <2>4 DEF Ack
<1>2. CASE ~Acknowledges(w)
  BY <1>2, MovesIf, PlaceNames DEF Ack
<1> QED BY <1>1, <1>2

LEMMA RequeueEffect ==
    ASSUME TypeOK, NEW w \in Worker, Requeue(w)
    PROVE  /\ At(w, "requeue") /\ Moves(w, "release")
           /\ Marked /\ row'.owner = row.owner /\ UNCHANGED <<scan, points>>
           /\ spoilt' = (spoilt \/ AckPending(job[w].space))
<1>1. Moves(w, "release")
  BY MovesIf, PlaceNames DEF Requeue
<1>2. Marked /\ row'.owner = row.owner
  BY MarkRow DEF Requeue, TypeOK, Marked
<1> QED BY <1>1, <1>2 DEF Requeue

\* The statements that only concern the owner or the times.
LEMMA QuietEffect ==
    ASSUME TypeOK, NEW w \in Worker, Backoff(w) \/ Release(w)
    PROVE  /\ job[w].at \in {"backoff", "release"}
           /\ Moves(w, "release") \/ Moves(w, "idle")
           /\ Spared(row, row') /\ row'.owner \in {row.owner, None}
           /\ UNCHANGED <<scan, points, spoilt>>
<1>1. row \in Rows
  BY DEF TypeOK
<1>2. CASE Backoff(w)
  <2>1. (row.due /\ ~Acknowledges(w)) \in BOOLEAN
    OBVIOUS
  <2>2. Spared(row, row') /\ row'.owner = row.owner
    BY <1>1, <1>2, <2>1, TimeRow DEF Backoff
  <2>3. Moves(w, "release")
    BY <1>2, MovesIf, PlaceNames DEF Backoff
  <2> QED BY <1>2, <2>2, <2>3 DEF Backoff, At
<1>3. CASE Release(w)
  <2>1. Spared(row, row') /\ row'.owner \in {row.owner, None}
    BY <1>1, <1>3, ReleaseRow DEF Release, Spared
  <2>2. Moves(w, "idle")
    BY <1>3, MovesIf, PlaceNames DEF Release
  <2> QED BY <1>3, <2>1, <2>2 DEF Release, At
<1> QED BY <1>2, <1>3

\* Leases and delays.
LEMMA TimeEffect ==
    ASSUME TypeOK, Time \/ \E w \in Worker : Heartbeat(w) \/ Stall(w)
    PROVE  Spared(row, row') /\ row'.owner = row.owner /\ UNCHANGED <<scan, points, job, spoilt>>
<1>1. row \in Rows
  BY DEF TypeOK
<1>2. Spared(row, row') /\ row'.owner = row.owner
  BY <1>1, TimeRow DEF Time, Lapse, Due, Heartbeat, Stall
<1> QED BY <1>2 DEF Time, Lapse, Due, Heartbeat, Stall
-----------------------------------------------------------------------------
(* What a worker that holds the row, or lost it, may still do.             *)

\* A worker between its write and its verdict that lost the row.
Stale(v) == Writing(v) /\ ~Owns(v)

\* A row that somebody works on has its mark.
HolderDirty ==
    \A w \in Worker : Owns(w) /\ job[w].at \in {"read", "list", "erase", "write", "ack", "requeue"}
                         => row.pending

\* What was read of the row is of its revision or of an earlier one, and tells
\* whether it was removed by then; a removal is never taken back.
Revised ==
    \A w \in Worker :
        /\ job[w].rev <= row.rev
        /\ job[w].at \in {"list", "erase"} => row.deleted
        /\ job[w].at = "write" /\ job[w].rev = row.rev => ~row.deleted

\* A point is in a registered space, and every batch registers its own.
Registered ==
    /\ \A s \in Space : scan[s] = "absent" => points[s] = 0
    /\ \A w \in Worker : job[w].at # "idle" => scan[job[w].space] # "absent"

Basic == TypeOK /\ HolderDirty /\ Revised /\ Registered

LEMMA BasicInit == Init => Basic
<1> SUFFICES ASSUME Init PROVE Basic
  OBVIOUS
<1>1. TypeOK
  BY TypeInit
<1>2. \A w \in Worker : job[w].at = "idle" /\ job[w].rev = 1
  BY DEF Init, NoJob
<1>3. row.rev = 1 /\ \A s \in Space : points[s] = 0
  BY DEF Init
<1> QED BY <1>1, <1>2, <1>3 DEF Basic, HolderDirty, Revised, Registered

LEMMA BasicUser == ASSUME Basic, User PROVE Basic'
<1>0. TypeOK /\ TypeOK'
  BY TypeUser DEF Basic
<1>1. row.rev \in Nat /\ \A w \in Worker : job[w].rev \in Nat
  BY <1>0 DEF TypeOK, Rows, Jobs, Revisions
<1>2. HolderDirty'
  BY <1>0, UserEffect DEF HolderDirty
<1>3. Revised'
  BY <1>0, <1>1, UserEffect DEF Revised, Basic
<1>4. Registered'
  BY <1>0, UserEffect DEF Registered, Basic
<1> QED BY <1>0, <1>2, <1>3, <1>4 DEF Basic

LEMMA BasicStep == ASSUME Basic, NEW w \in Worker, Step(w) PROVE Basic'
<1>0. /\ TypeOK /\ TypeOK' /\ HolderDirty /\ Revised /\ Registered
      /\ job[w].space \in Space /\ row.rev \in Nat /\ job[w].rev \in Nat
  BY TypeStep DEF Basic, TypeOK, Jobs, Rows, Revisions
<1> SUFFICES HolderDirty' /\ Revised' /\ Registered'
  BY <1>0 DEF Basic
<1> USE DEF HolderDirty, Revised, Registered, Owns, At
<1>1. CASE Register(w)
  <2>1. /\ scan'[config] # "absent" /\ \A s \in Space : scan'[s] = "absent" => scan[s] = "absent"
        /\ UNCHANGED <<row, points>>
    BY <1>0, <1>1 DEF Register, TypeOK
  <2>2. /\ \A v \in Worker \ {w} : job'[v] = job[v]
        /\ job'[w].at = "prepare" /\ job'[w].space = config /\ job'[w].rev = job[w].rev
    BY <1>0, <1>1, RegisterEffect
  <2>3. \A v \in Worker : job[v].space \in Space
    BY <1>0 DEF TypeOK, Jobs
  <2> QED BY <1>0, <2>1, <2>2, <2>3
<1>14. CASE Scan(w)
  <2>1. PICK place \in {"mark", "finish", "claim"} : Moves(w, place)
    BY <1>0, <1>14, ScanEffect
  <2>2. job[w].at = "prepare" /\ UNCHANGED <<row, scan, points>>
    BY <1>0, <1>14, ScanEffect
  <2>3. \A v \in Worker : job[v].space \in Space
    BY <1>0 DEF TypeOK, Jobs
  <2> QED BY <1>0, <2>1, <2>2, <2>3 DEF Moves
<1>2. CASE Backfill(w)
  <2>1. /\ \A v \in Worker \ {w} : job'[v] = job[v]
        /\ job[w].at = "mark" /\ job'[w].at = "cursor"
        /\ job'[w].space = job[w].space /\ job'[w].rev = job[w].rev
        /\ row'.pending /\ row'.rev = row.rev /\ row'.deleted = row.deleted
        /\ UNCHANGED <<scan, points>>
    BY <1>0, <1>2, BackfillEffect DEF Marked, Moves
  <2>2. HolderDirty'
    BY <1>0, <2>1
  <2>3. Revised'
    BY <1>0, <2>1
  <2>4. Registered'
    BY <1>0, <2>1
  <2> QED BY <2>2, <2>3, <2>4
<1>3. CASE MoveCursor(w) \/ Prepared(w)
  <2>1. \A v \in Worker : job[v].space \in Space
    BY <1>0 DEF TypeOK, Jobs
  <2> QED BY <1>0, <1>3, <2>1, PrepareEffect DEF Remembered, Moves
<1>4. CASE Claim(w)
  <2>1. /\ \A v \in Worker \ {w} : job'[v] = job[v]
        /\ job[w].at = "claim" /\ job'[w].at \in {"read", "idle"}
        /\ job'[w].space = job[w].space /\ job'[w].rev = job[w].rev
        /\ row'.pending \/ row' = row
        /\ row'.rev = row.rev /\ row'.deleted = row.deleted
        /\ job'[w].at = "read" => row'.pending
        /\ UNCHANGED <<scan, points>>
    BY <1>0, <1>4, ClaimEffect DEF Marked, Moves
  <2>2. HolderDirty'
    BY <1>0, <2>1
  <2>3. Revised'
    BY <1>0, <2>1
  <2>4. Registered'
    BY <1>0, <2>1
  <2> QED BY <2>2, <2>3, <2>4
<1>5. CASE Read(w) /\ ~Owns(w)
  BY <1>0, <1>5, MovesIf, PlaceNames DEF Read, Moves
<1>6. CASE Read(w) /\ Owns(w)
  <2>1. UNCHANGED <<row, scan, points>> /\ job[w].at = "read"
    BY <1>6 DEF Read
  <2>2. /\ \A v \in Worker \ {w} : job'[v] = job[v]
        /\ job'[w].at = IF row.deleted THEN "list" ELSE "write"
        /\ job'[w].space = job[w].space /\ job'[w].rev = row.rev
    BY <1>0, <1>6, ReadEffect
  <2> QED BY <1>0, <1>6, <2>1, <2>2
<1>7. CASE List(w)
  <2>1. UNCHANGED <<row, scan, points>> /\ job[w].at = "list"
    BY <1>7 DEF List
  <2>2. /\ \A v \in Worker \ {w} : job'[v] = job[v]
        /\ job'[w].at = "erase" /\ job'[w].space = job[w].space /\ job'[w].rev = job[w].rev
    BY <1>0, <1>7, ListEffect
  <2> QED BY <1>0, <2>1, <2>2
<1>8. CASE Erase(w)
  <2>1. UNCHANGED <<row, scan>> /\ \A s \in Space : points[s] = 0 => points'[s] = 0
    BY <1>0, <1>8 DEF Erase, TypeOK
  <2>2. /\ \A v \in Worker \ {w} : job'[v] = job[v]
        /\ job[w].at = "erase" /\ job'[w].at \in {"erase", "ack"}
        /\ job'[w].space = job[w].space /\ job'[w].rev = job[w].rev
    BY <1>0, <1>8, EraseEffect, MovesIf, PlaceNames DEF Erase, Moves, TypeOK, Jobs
  <2> QED BY <1>0, <2>1, <2>2
<1>9. CASE Upsert(w)
  <2>1. /\ \A v \in Worker \ {w} : job'[v] = job[v]
        /\ job[w].at = "write" /\ job'[w].at \in {"write", "ack"}
        /\ job'[w].space = job[w].space /\ job'[w].rev = job[w].rev
        /\ \A s \in Space \ {job[w].space} : points'[s] = points[s]
        /\ UNCHANGED <<scan, row>>
    <3>1. /\ job[w].at = "write" /\ UNCHANGED <<scan, row>>
          /\ \A s \in Space \ {job[w].space} : points'[s] = points[s]
      BY <1>0, <1>9, UpsertEffect
    <3>2. Moves(w, "write") \/ Moves(w, "ack")
      BY <1>0, <1>9, UpsertEffect
    <3> QED BY <3>1, <3>2 DEF Moves
  <2>2. HolderDirty'
    BY <1>0, <2>1
  <2>3. Revised'
    BY <1>0, <2>1
  <2>4. Registered'
    BY <1>0, <2>1
  <2> QED BY <2>2, <2>3, <2>4
<1>10. CASE Ack(w)
  <2>1. /\ \A v \in Worker \ {w} : job'[v] = job[v]
        /\ job[w].at = "ack" /\ job'[w].at \in {"release", "requeue"}
        /\ job'[w].space = job[w].space /\ job'[w].rev = job[w].rev
        /\ row'.rev = row.rev /\ row'.deleted = row.deleted
        /\ \/ row' = row
           \/ row.owner = w /\ row'.owner = w /\ job'[w].at = "release"
        /\ UNCHANGED <<scan, points>>
    BY <1>0, <1>10, AckEffect DEF Acknowledges, Moves
  <2>2. HolderDirty'
    BY <1>0, <2>1
  <2>3. Revised'
    BY <1>0, <2>1
  <2>4. Registered'
    BY <1>0, <2>1
  <2> QED BY <2>2, <2>3, <2>4
<1>11. CASE Requeue(w)
  <2>1. /\ \A v \in Worker \ {w} : job'[v] = job[v]
        /\ job[w].at = "requeue" /\ job'[w].at = "release"
        /\ job'[w].space = job[w].space /\ job'[w].rev = job[w].rev
        /\ row'.pending /\ row'.rev = row.rev /\ row'.deleted = row.deleted
        /\ UNCHANGED <<scan, points>>
    BY <1>0, <1>11, RequeueEffect DEF Marked, Moves
  <2>2. HolderDirty'
    BY <1>0, <2>1
  <2>3. Revised'
    BY <1>0, <2>1
  <2>4. Registered'
    BY <1>0, <2>1
  <2> QED BY <2>2, <2>3, <2>4
<1>12. CASE Backoff(w) \/ Release(w)
  <2>1. None \notin Worker
    OBVIOUS
  <2> QED BY <1>0, <1>12, <2>1, QuietEffect DEF Spared, Moves
<1> QED
  BY <1>1, <1>2, <1>3, <1>4, <1>5, <1>6, <1>7, <1>8, <1>9, <1>10, <1>11, <1>12, <1>14 DEF Step

LEMMA BasicNext == ASSUME Basic, [Next]_vars PROVE Basic'
<1>0. TypeOK /\ TypeOK' /\ HolderDirty /\ Revised /\ Registered
  BY TypeNext DEF Basic
<1> USE DEF HolderDirty, Revised, Registered, Owns
<1>1. CASE UNCHANGED <<row, scan, points, job>>
  BY <1>0, <1>1 DEF Basic
<1>2. CASE User
  BY <1>2, BasicUser
<1>3. CASE Time \/ \E w \in Worker : Heartbeat(w) \/ Stall(w)
  BY <1>0, <1>3, TimeEffect DEF Basic, Spared
<1>4. ASSUME NEW w \in Worker, Step(w) PROVE Basic'
  BY <1>4, BasicStep
<1>5. ASSUME NEW w \in Worker, Fail(w) PROVE Basic'
  <2>1. /\ \A v \in Worker \ {w} : job'[v] = job[v]
        /\ job'[w].at \in {"backoff", "release", "idle"}
        /\ job'[w].at \in {"backoff", "release"} => job[w].at # "idle"
        /\ job'[w].space = job[w].space /\ job'[w].rev = job[w].rev
    BY <1>0, <1>5, FailEffect
  <2>2. UNCHANGED <<row, scan>>
    BY <1>5 DEF Fail
  <2>3. \A s \in Space : points'[s] = points[s] \/ (s = job[w].space /\ job[w].at = "write")
    BY <1>0, <1>5 DEF Fail, TypeOK, At
  <2> QED BY <1>0, <2>1, <2>2, <2>3 DEF Basic
<1>6. ASSUME NEW w \in Worker, Crash(w) PROVE Basic'
  <2>1. UNCHANGED <<row, scan, points>> /\ \A v \in Worker \ {w} : job'[v] = job[v]
    BY <1>0, <1>6 DEF Crash, TypeOK
  <2>2. job'[w].at = "idle" /\ job'[w].rev = 1 /\ row.rev \in Nat \ {0}
    BY <1>0, <1>6 DEF Crash, TypeOK, NoJob, Rows, Revisions
  <2> QED BY <1>0, <2>1, <2>2 DEF Basic
<1> QED
  BY <1>1, <1>2, <1>3, <1>4, <1>5, <1>6 DEF Next, vars, Reconfigure
-----------------------------------------------------------------------------
(* The acknowledgement and the late writers.                               *)

\* A worker that lost the row may have written in this space and is still to
\* find out.
Answered(s) == \E v \in Worker : Stale(v) /\ job[v].space = s

\* The holder that erases has left behind it only what a late writer put there.
Erased ==
    \A w \in Worker : job[w].at = "erase" /\ Acknowledges(w)
                         => \A s \in Space \ job[w].todo : points[s] = 0 \/ Answered(s)
\* The holder that comes to acknowledge has done what the row says.
Stored ==
    \A w \in Worker : job[w].at = "ack" /\ Acknowledges(w) =>
        \/ IF row.deleted THEN \A s \in Space : points[s] = 0 ELSE points[job[w].space] = row.rev
        \/ \E v \in Worker : Stale(v)
\* Without the mark the index is right, or somebody will put the mark back.
Clean == ~row.pending => Indexed \/ \E v \in Worker : Stale(v)
Judged == Erased /\ Stored /\ Clean

LEMMA JudgedInit == Init => Judged
<1> SUFFICES ASSUME Init PROVE Judged
  OBVIOUS
<1>1. \A w \in Worker : job[w].at = "idle"
  BY DEF Init, NoJob
<1>2. row.pending
  BY DEF Init
<1> QED BY <1>1, <1>2 DEF Judged, Erased, Stored, Clean

\* A step of one worker that touches no point, starts neither to erase nor to
\* acknowledge and leaves no late write behind.
LEMMA Undisturbed ==
    ASSUME Judged, NEW w \in Worker, \A v \in Worker \ {w} : job'[v] = job[v],
           job'[w].at \notin {"erase", "ack"}, job'[w].space = job[w].space \/ ~Stale(w),
           Stale(w) => Writing(w)',
           UNCHANGED points, row'.rev = row.rev, row'.deleted = row.deleted,
           row'.owner \in {row.owner, None} \/ (row'.owner = w /\ ~Stale(w)),
           row'.pending \/ (row'.fp = row.fp /\ row'.pending = row.pending)
    PROVE  Judged'
<1>1. \A v \in Worker : Stale(v) => Stale(v)' /\ job'[v].space = job[v].space
  BY DEF Stale, Writing, Owns
<1>2. \A v \in Worker \ {w} : Acknowledges(v)' => Acknowledges(v)
  BY DEF Acknowledges, Owns
<1>3. Erased'
  BY <1>1, <1>2 DEF Judged, Erased, Answered
<1>4. Stored'
  BY <1>1, <1>2 DEF Judged, Stored
<1>5. Clean'
  BY <1>1 DEF Judged, Clean, Indexed
<1> QED BY <1>3, <1>4, <1>5 DEF Judged

\* The request that removes a point, and the one that writes it.
LEMMA JudgedErase ==
    ASSUME Basic, Judged, NEW w \in Worker, Erase(w)
    PROVE  Judged'
<1>0. /\ TypeOK /\ row.deleted /\ job[w].at = "erase" /\ ~Writing(w)
      /\ UNCHANGED <<row, scan>> /\ job[w].todo \subseteq Space
  BY DEF Basic, Revised, Writing, Erase, TypeOK, Jobs, At
<1>1. \/ /\ \E s \in Space : /\ points'[s] = 0 /\ job'[w].todo = job[w].todo \ {s}
                             /\ \A t \in Space \ {s} : points'[t] = points[t]
         /\ job'[w].at = "erase"
      \/ job[w].todo = {} /\ UNCHANGED points /\ job'[w].at = "ack"
  BY <1>0, EraseEffect, MovesIf, PlaceNames DEF Erase, Moves, TypeOK
<1>2. /\ \A v \in Worker \ {w} : job'[v] = job[v]
      /\ job'[w].rev = job[w].rev /\ job'[w].space = job[w].space
  BY <1>0, EraseEffect, MovesIf, PlaceNames DEF Erase, Moves, TypeOK
<1>3. \A s \in Space : points[s] = 0 => points'[s] = 0
  BY <1>1
<1>4. \A v \in Worker : Stale(v) => Stale(v)' /\ job'[v].space = job[v].space
  BY <1>0, <1>2 DEF Stale, Writing, Owns
<1>5. \A v \in Worker : Acknowledges(v)' <=> Acknowledges(v)
  BY <1>0, <1>2 DEF Acknowledges, Owns
<1>6. \A s \in Space : Answered(s) => Answered(s)'
  BY <1>4 DEF Answered
<1>7. Erased'
  <2> SUFFICES ASSUME NEW v \in Worker, job'[v].at = "erase", Acknowledges(v),
                      NEW s \in Space, s \notin job'[v].todo
               PROVE  points'[s] = 0 \/ Answered(s)'
    BY <1>5 DEF Erased
  <2>1. CASE v = w
    <3>1. points'[s] = 0 \/ s \notin job[w].todo
      BY <1>1, <2>1
    <3> QED BY <1>0, <1>3, <1>6, <2>1, <3>1 DEF Judged, Erased
  <2>2. CASE v # w
    BY <1>2, <1>3, <1>6, <2>2 DEF Judged, Erased
  <2> QED BY <2>1, <2>2
<1>8. Stored'
  <2> SUFFICES ASSUME NEW v \in Worker, job'[v].at = "ack", Acknowledges(v)
               PROVE  (\A s \in Space : points'[s] = 0) \/ \E u \in Worker : Stale(u)'
    BY <1>0, <1>5 DEF Stored
  <2>1. CASE v = w
    <3>1. \A s \in Space : points[s] = 0 \/ Answered(s)
      BY <1>0, <1>1, <2>1 DEF Judged, Erased
    <3> QED BY <1>3, <1>4, <3>1 DEF Answered
  <2>2. CASE v # w
    BY <1>0, <1>2, <1>3, <1>4, <2>2 DEF Judged, Stored
  <2> QED BY <2>1, <2>2
<1>9. Clean'
  BY <1>0, <1>3, <1>4 DEF Judged, Clean, Indexed
<1> QED BY <1>7, <1>8, <1>9 DEF Judged

LEMMA JudgedUpsert ==
    ASSUME Basic, Judged, NEW w \in Worker, Upsert(w)
    PROVE  Judged'
<1>1. /\ TypeOK /\ job[w].at = "write" /\ UNCHANGED <<row, scan, spoilt>>
      /\ Moves(w, "write") \/ Moves(w, "ack")
      /\ points'[job[w].space] = job[w].rev
      /\ \A s \in Space \ {job[w].space} : points'[s] = points[s]
  BY UpsertEffect DEF Basic, At
<1>2. /\ \A v \in Worker \ {w} : job'[v] = job[v]
      /\ job'[w].at \in {"write", "ack"} /\ job'[w].rev = job[w].rev /\ job'[w].space = job[w].space
  BY <1>1 DEF Moves
<1>3. \A v \in Worker : Stale(v) => Stale(v)' /\ job'[v].space = job[v].space
  BY <1>1, <1>2 DEF Stale, Writing, Owns
<1>4. \A v \in Worker : Acknowledges(v)' <=> Acknowledges(v)
  BY <1>1, <1>2 DEF Acknowledges, Owns
<1>5. \A s \in Space : Answered(s) => Answered(s)'
  BY <1>3 DEF Answered
<1>6. CASE Owns(w)
  <2>1. \A v \in Worker \ {w} : ~Acknowledges(v)
    BY <1>6 DEF Acknowledges, Owns
  <2>2. row.pending
    BY <1>1, <1>6 DEF Basic, HolderDirty
  <2>3. Erased'
    BY <1>2, <1>4, <2>1 DEF Erased
  <2>4. Acknowledges(w) => ~row.deleted /\ points'[job[w].space] = row.rev
    BY <1>1 DEF Acknowledges, Basic, Revised
  <2>5. Stored'
    BY <1>1, <1>2, <1>4, <2>1, <2>4 DEF Stored
  <2>6. Clean'
    BY <1>1, <2>2 DEF Clean
  <2> QED BY <2>3, <2>5, <2>6 DEF Judged
<1>7. CASE ~Owns(w)
  <2>1. Stale(w)' /\ job'[w].space = job[w].space
    BY <1>1, <1>2, <1>7 DEF Stale, Writing, Owns
  <2>2. Erased'
    <3> SUFFICES ASSUME NEW v \in Worker, job'[v].at = "erase", Acknowledges(v),
                        NEW s \in Space, s \notin job'[v].todo
                 PROVE  points'[s] = 0 \/ Answered(s)'
      BY <1>4 DEF Erased
    <3>1. v # w /\ job'[v] = job[v]
      BY <1>2
    <3>2. points[s] = 0 \/ Answered(s)
      BY <3>1 DEF Judged, Erased
    <3>3. CASE s = job[w].space
      BY <2>1, <3>3 DEF Answered
    <3>4. CASE s # job[w].space
      <4>1. points'[s] = points[s]
        BY <1>1, <3>4
      <4> QED BY <1>5, <3>2, <4>1
    <3> QED BY <3>3, <3>4
  <2> QED BY <2>1, <2>2 DEF Judged, Stored, Clean
<1> QED BY <1>6, <1>7

\* The acknowledgement takes the mark away from a row that is indexed, or that a
\* late writer will mark again.
LEMMA JudgedAck ==
    ASSUME Basic, Judged, NEW w \in Worker, Ack(w)
    PROVE  /\ Judged'
           /\ row.pending /\ ~row'.pending
                 => Indexed' \/ \E v \in Worker : Writing(v)' /\ ~Acknowledges(v)
<1>1. TypeOK /\ job[w].at = "ack" /\ UNCHANGED <<scan, points, spoilt>>
  BY AckEffect DEF Basic, At
<1>2. CASE ~Acknowledges(w)
  <2>1. Moves(w, "requeue") /\ UNCHANGED row
    BY <1>1, <1>2, AckEffect
  <2>2. Stale(w) => Writing(w)'
    BY <2>1 DEF Moves, Writing
  <2> QED BY <1>1, <2>1, <2>2, Undisturbed DEF Moves
<1>3. CASE Acknowledges(w)
  <2>1. /\ Moves(w, "release") /\ row'.rev = row.rev /\ row'.deleted = row.deleted
        /\ row'.fp = job[w].space /\ row'.owner = row.owner
    BY <1>1, <1>3, AckEffect
  <2>2. \A v \in Worker \ {w} : ~Owns(v) /\ ~Owns(v)' /\ job'[v] = job[v]
    BY <1>3, <2>1 DEF Acknowledges, Owns, Moves
  <2>3. Erased' /\ Stored'
    BY <2>1, <2>2 DEF Erased, Stored, Acknowledges, Moves
  <2>4. \A v \in Worker : Stale(v) => Stale(v)'
    BY <1>3, <2>2 DEF Stale, Writing, Acknowledges
  <2>5. Indexed' \/ \E v \in Worker : Stale(v)
    <3>1. job[w].space \in Space
      BY <1>1 DEF TypeOK, Jobs
    <3>2. \/ IF row.deleted THEN \A s \in Space : points[s] = 0 ELSE points[job[w].space] = row.rev
          \/ \E v \in Worker : Stale(v)
      BY <1>1, <1>3 DEF Judged, Stored
    <3> QED BY <1>1, <2>1, <3>1, <3>2 DEF Indexed
  <2>6. Clean'
    BY <2>4, <2>5 DEF Clean
  <2>7. \A v \in Worker : Stale(v)' => Writing(v)' /\ ~Acknowledges(v)
    BY <1>3, <2>1, <2>2 DEF Stale, Acknowledges, Moves, Writing
  <2> QED BY <2>3, <2>4, <2>5, <2>6, <2>7 DEF Judged
<1> QED BY <1>2, <1>3

LEMMA JudgedRequeue ==
    ASSUME Basic, Judged, NEW w \in Worker, Requeue(w), ~spoilt'
    PROVE  Judged'
<1>1. /\ TypeOK /\ At(w, "requeue") /\ Moves(w, "release") /\ UNCHANGED <<scan, points>>
      /\ Marked /\ row'.owner = row.owner /\ ~AckPending(job[w].space)
  BY RequeueEffect DEF Basic
<1>2. \A v \in Worker \ {w} : job'[v] = job[v]
  BY <1>1 DEF Moves
<1>3. \A v \in Worker \ {w} : Stale(v) => Stale(v)' /\ job'[v].space = job[v].space
  BY <1>1, <1>2 DEF Stale, Writing, Owns
<1>4. \A v \in Worker : Acknowledges(v)' <=> Acknowledges(v)
  BY <1>1, <1>2 DEF Acknowledges, Owns, Moves, Marked
<1>5. job'[w].at = "release"
  BY <1>1 DEF Moves
<1>6. Erased'
  <2> SUFFICES ASSUME NEW v \in Worker, job'[v].at = "erase", Acknowledges(v),
                      NEW s \in Space, s \notin job'[v].todo
               PROVE  points'[s] = 0 \/ Answered(s)'
    BY <1>4 DEF Erased
  <2>1. v # w /\ job'[v] = job[v]
    BY <1>2, <1>5
  <2>2. s # job[w].space
    BY <1>1, <2>1 DEF AckPending, At
  <2>3. points[s] = 0 \/ Answered(s)
    BY <2>1 DEF Judged, Erased
  <2>4. Answered(s) => Answered(s)'
    BY <1>3, <2>2 DEF Answered
  <2> QED BY <1>1, <2>3, <2>4
<1>7. Stored'
  <2>1. \A v \in Worker : ~(job'[v].at = "ack" /\ Acknowledges(v)')
    BY <1>1, <1>2, <1>4, <1>5 DEF AckPending, At
  <2> QED BY <2>1 DEF Stored
<1>8. Clean'
  BY <1>1 DEF Clean, Marked
<1> QED BY <1>6, <1>7, <1>8 DEF Judged

\* A failure or a crash that leaves a late write behind is recorded.
LEMMA JudgedFault ==
    ASSUME Basic, Judged, NEW w \in Worker, Fail(w) \/ Crash(w), ~spoilt'
    PROVE  Judged'
<1>1. /\ TypeOK /\ ~Stale(w) /\ UNCHANGED row /\ \A v \in Worker \ {w} : job'[v] = job[v]
      /\ job'[w].at \in {"backoff", "release", "idle"}
  <2>1. TypeOK /\ ~Stale(w) /\ UNCHANGED row
    BY DEF Basic, Fail, Crash, Spoils, Stale
  <2>2. /\ \A v \in Worker \ {w} : job'[v] = job[v]
        /\ job'[w].at \in {"backoff", "release", "idle"}
    <3>1. CASE Fail(w)
      BY <2>1, <3>1, FailEffect
    <3>2. CASE Crash(w)
      BY <2>1, <3>2 DEF Crash, TypeOK, NoJob
    <3> QED BY <3>1, <3>2
  <2> QED BY <2>1, <2>2
<1>2. CASE UNCHANGED points
  BY <1>1, <1>2, Undisturbed
<1>3. CASE ~UNCHANGED points
  <2>1. job[w].at = "write"
    BY <1>3 DEF Fail, Crash, At
  <2>2. Owns(w)
    BY <1>1, <2>1 DEF Stale, Writing
  <2>3. row.pending
    BY <2>1, <2>2 DEF Basic, HolderDirty
  <2>4. \A v \in Worker \ {w} : ~Acknowledges(v)'
    BY <1>1, <2>2 DEF Acknowledges, Owns
  <2> QED BY <1>1, <2>3, <2>4 DEF Judged, Erased, Stored, Clean
<1> QED BY <1>2, <1>3

LEMMA JudgedStep ==
    ASSUME Basic, Judged, NEW w \in Worker, Step(w), ~spoilt'
    PROVE  Judged'
<1>0. TypeOK /\ HolderDirty /\ Registered
  BY DEF Basic
<1>1. CASE Register(w)
  <2>1. job[w].at = "idle" /\ UNCHANGED <<row, points>>
    BY <1>1 DEF Register, At
  <2>2. /\ \A v \in Worker \ {w} : job'[v] = job[v]
        /\ job'[w].at = "prepare"
    BY <1>0, <1>1, RegisterEffect
  <2>3. ~Stale(w)
    BY <2>1 DEF Stale, Writing
  <2> QED BY <2>1, <2>2, <2>3, Undisturbed
<1>14. CASE Scan(w)
  <2>1. PICK place \in {"mark", "finish", "claim"} : Moves(w, place)
    BY <1>0, <1>14, ScanEffect
  <2>2. job[w].at = "prepare" /\ UNCHANGED <<row, points>>
    BY <1>0, <1>14, ScanEffect DEF At
  <2>3. ~Stale(w)
    BY <2>2 DEF Stale, Writing
  <2> QED BY <2>1, <2>2, <2>3, Undisturbed DEF Moves
<1>2. CASE Backfill(w)
  <2>1. /\ job[w].at = "mark" /\ UNCHANGED points /\ Moves(w, "cursor") /\ Marked
        /\ row'.owner = row.owner
    BY <1>0, <1>2, BackfillEffect DEF At
  <2>2. ~Stale(w)
    BY <2>1 DEF Stale, Writing
  <2> QED BY <2>1, <2>2, Undisturbed DEF Moves, Marked
<1>3. CASE MoveCursor(w) \/ Prepared(w)
  <2>1. job[w].at \in {"cursor", "finish"} /\ UNCHANGED <<row, points>> /\ Moves(w, "claim")
    BY <1>0, <1>3, PrepareEffect
  <2>2. ~Stale(w)
    BY <2>1 DEF Stale, Writing
  <2> QED BY <2>1, <2>2, Undisturbed DEF Moves
<1>4. CASE Claim(w)
  <2>1. /\ job[w].at = "claim" /\ UNCHANGED points
        /\ \/ Moves(w, "read") /\ Marked /\ row'.owner = w
           \/ Moves(w, "idle") /\ UNCHANGED row
    BY <1>0, <1>4, ClaimEffect DEF At
  <2>2. ~Stale(w)
    BY <2>1 DEF Stale, Writing
  <2>3. CASE Moves(w, "read") /\ Marked /\ row'.owner = w
    BY <2>1, <2>2, <2>3, Undisturbed DEF Moves, Marked
  <2>4. CASE Moves(w, "idle") /\ UNCHANGED row
    BY <2>1, <2>2, <2>4, Undisturbed DEF Moves
  <2> QED BY <2>1, <2>3, <2>4
<1>5. CASE Read(w)
  <2>1. job[w].at = "read" /\ UNCHANGED <<row, points>>
    BY <1>5 DEF Read, At
  <2>2. /\ \A v \in Worker \ {w} : job'[v] = job[v]
        /\ job'[w].at \in {"release", "list", "write"}
    BY <1>0, <1>5, ReadEffect, MovesIf, PlaceNames DEF Read, Moves
  <2>3. ~Stale(w)
    BY <2>1 DEF Stale, Writing
  <2> QED BY <2>1, <2>2, <2>3, Undisturbed
<1>6. CASE List(w)
  <2>1. job[w].at = "list" /\ UNCHANGED <<row, scan, points, spoilt>>
    BY <1>6 DEF List, At
  <2>2. /\ \A v \in Worker \ {w} : job'[v] = job[v]
        /\ job'[w].at = "erase" /\ job'[w].todo = {s \in Space : scan[s] # "absent"}
        /\ job'[w].rev = job[w].rev /\ job'[w].space = job[w].space
    BY <1>0, <1>6, ListEffect
  <2>3. \A v \in Worker : Stale(v) => Stale(v)' /\ job'[v].space = job[v].space
    BY <2>1, <2>2 DEF Stale, Writing, Owns
  <2>4. \A v \in Worker : Acknowledges(v)' <=> Acknowledges(v)
    BY <2>1, <2>2 DEF Acknowledges, Owns
  <2>5. \A s \in Space : Answered(s) => Answered(s)'
    BY <2>3 DEF Answered
  <2>6. \A s \in Space \ job'[w].todo : points[s] = 0
    BY <1>0, <2>2 DEF Registered
  <2>7. Erased'
    BY <2>1, <2>2, <2>4, <2>5, <2>6 DEF Judged, Erased
  <2>8. Stored'
    BY <2>1, <2>2, <2>3, <2>4 DEF Judged, Stored
  <2>9. Clean'
    BY <2>1, <2>3 DEF Judged, Clean, Indexed
  <2> QED BY <2>7, <2>8, <2>9 DEF Judged
<1>7. CASE Erase(w)
  BY <1>7, JudgedErase
<1>8. CASE Upsert(w)
  BY <1>8, JudgedUpsert
<1>9. CASE Ack(w)
  BY <1>9, JudgedAck
<1>10. CASE Requeue(w)
  BY <1>10, JudgedRequeue
<1>11. CASE Backoff(w) \/ Release(w)
  <2>1. /\ job[w].at \in {"backoff", "release"} /\ UNCHANGED points
        /\ Moves(w, "release") \/ Moves(w, "idle")
        /\ Spared(row, row') /\ row'.owner \in {row.owner, None}
    BY <1>0, <1>11, QuietEffect
  <2>2. ~Stale(w)
    BY <2>1 DEF Stale, Writing
  <2> QED BY <2>1, <2>2, Undisturbed DEF Moves, Spared
<1> QED
  BY <1>1, <1>2, <1>3, <1>4, <1>5, <1>6, <1>7, <1>8, <1>9, <1>10, <1>11, <1>14 DEF Step

LEMMA JudgedNext ==
    ASSUME Basic, Judged, [Next]_vars, ~spoilt'
    PROVE  Judged'
<1>0. TypeOK
  BY DEF Basic
<1>1. CASE UNCHANGED <<row, points, job>>
  BY <1>1 DEF Judged, Erased, Stored, Clean, Answered, Stale, Writing, Owns, Acknowledges, Indexed
<1>2. CASE User
  <2>1. row'.rev = row.rev + 1 /\ row'.pending = TRUE /\ UNCHANGED job
    BY <1>0, <1>2, UserEffect
  <2>2. \A w \in Worker : job[w].rev <= row.rev /\ job[w].rev \in Nat /\ row.rev \in Nat
    BY <1>0 DEF Basic, Revised, TypeOK, Jobs, Rows, Revisions
  <2>3. \A w \in Worker : ~Acknowledges(w)'
    BY <2>1, <2>2 DEF Acknowledges
  <2> QED BY <2>1, <2>3 DEF Judged, Erased, Stored, Clean
<1>3. CASE Time \/ \E w \in Worker : Heartbeat(w) \/ Stall(w)
  <2>1. Spared(row, row') /\ row'.owner = row.owner /\ UNCHANGED <<points, job>>
    BY <1>0, <1>3, TimeEffect
  <2>2. \A w \in Worker : (Stale(w)' <=> Stale(w)) /\ (Acknowledges(w)' <=> Acknowledges(w))
    BY <2>1 DEF Stale, Writing, Owns, Acknowledges, Spared
  <2>3. (Indexed' <=> Indexed) /\ \A s \in Space : Answered(s)' <=> Answered(s)
    BY <2>1, <2>2 DEF Indexed, Answered, Spared
  <2> QED BY <2>1, <2>2, <2>3 DEF Judged, Erased, Stored, Clean, Spared
<1>4. ASSUME NEW w \in Worker, Step(w) PROVE Judged'
  BY <1>4, JudgedStep
<1>5. ASSUME NEW w \in Worker, Fail(w) \/ Crash(w) PROVE Judged'
  BY <1>5, JudgedFault
<1> QED
  BY <1>1, <1>2, <1>3, <1>4, <1>5 DEF Next, vars, Reconfigure

\* The invariant of both theorems below.
IndexInv == Basic /\ (spoilt \/ Judged)

LEMMA IndexInvInit == Init => IndexInv
  BY BasicInit, JudgedInit DEF IndexInv

LEMMA IndexInvNext == IndexInv /\ [Next]_vars => IndexInv'
<1> SUFFICES ASSUME IndexInv, [Next]_vars PROVE IndexInv'
  OBVIOUS
<1>1. Basic'
  BY BasicNext DEF IndexInv
<1>2. ~spoilt' => ~spoilt
  BY DEF Next, vars, User, Update, Remove, Rebuild, Time, Lapse, Due, Reconfigure, Heartbeat, Stall,
         Fail, Crash, Spoils, Step, Register, Scan, Backfill, MoveCursor, Prepared, Claim, Read, List,
         Erase, Upsert, Ack, Requeue, Backoff, Release
<1> QED BY <1>1, <1>2, JudgedNext DEF IndexInv

\* Once no worker is between its write and its verdict, an acknowledged row has
\* its last revision in its space, or is in none when it was removed, unless a
\* late write was left that no requeue repairs.
THEOREM SettledIsIndexedCorrect == Spec => []SettledIsIndexed
<1>1. IndexInv => SettledIsIndexed
  BY DEF IndexInv, Judged, Clean, Stale, SettledIsIndexed, AcknowledgedIsIndexed
<1> QED
  BY <1>1, IndexInvInit, IndexInvNext, PTL DEF Spec

\* A dirty mark ends only by the acknowledgement of the last revision, while the
\* index is right or another worker is still to judge.
THEOREM DirtyUntilIndexedCorrect == Spec => DirtyUntilIndexed
<1> DEFINE Allowed == row.pending /\ ~row'.pending =>
                         \/ spoilt
                         \/ Indexed'
                         \/ \E w \in Worker : Writing(w)' /\ ~Acknowledges(w)
<1>1. ASSUME IndexInv, [Next]_vars PROVE [Allowed]_vars
  <2> SUFFICES ASSUME row.pending, ~row'.pending, ~spoilt PROVE Allowed
    OBVIOUS
  <2>0. TypeOK /\ Basic /\ Judged
    BY <1>1 DEF IndexInv, Basic
  <2>1. \E w \in Worker : Ack(w)
    <3>1. ~(User \/ UNCHANGED row)
      BY <2>0, UserEffect
    <3>2. ~(Time \/ \E w \in Worker : Heartbeat(w) \/ Stall(w))
      BY <2>0, TimeEffect DEF Spared
    <3>3. ASSUME NEW w \in Worker, Step(w) PROVE Ack(w)
      <4>1. ~Backfill(w) /\ ~Requeue(w)
        BY <2>0, BackfillEffect, RequeueEffect DEF Marked
      <4>2. ~Claim(w) /\ ~(Backoff(w) \/ Release(w))
        BY <2>0, ClaimEffect, QuietEffect DEF Marked, Spared
      <4> QED BY <3>1, <3>3, <4>1, <4>2 DEF Step, Register, Scan, MoveCursor, Prepared, Read, List, Erase, Upsert
    <3> QED BY <1>1, <3>1, <3>2, <3>3 DEF Next, vars, Reconfigure, Fail, Crash
  <2> QED BY <2>0, <2>1, JudgedAck
<1> QED
  BY <1>1, IndexInvInit, IndexInvNext, PTL DEF Spec, DirtyUntilIndexed
=============================================================================
