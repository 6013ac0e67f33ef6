----------------------------- MODULE MCMemoryIndex -----------------------------
(***************************************************************************)
(* Two workers and two vector spaces; one edit after the creation, and two  *)
(* faults, enough for a worker that loses its lease and then fails.         *)
(***************************************************************************)
EXTENDS MemoryIndex
=============================================================================
