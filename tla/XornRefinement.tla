--------------------------- MODULE XornRefinement ---------------------------
(* The storage backend implements the interface promised in XornRevisions. *)
EXTENDS XornStorage

(* Refinement: every behaviour of the storage backend is one of revisions  *)
(* that are values of their own (copy-on-write is invisible, and so is a   *)
(* call that failed half-way).                                             *)
Document(r) == [data |-> View(r).objects, order |-> View(r).order]
Promised == INSTANCE XornRevisions WITH doc <- [r \in Revs |-> Document(r)]
RevisionsAreValues == Promised!Spec
=============================================================================
