--------------------------- MODULE MCXornStorage ---------------------------
(* Small instances of XornStorage for TLC.                                 *)
EXTENDS XornRefinement, TLC

\* Revisions and cells are addresses: no action tells them apart.
Symmetry == Permutations(Revs) \cup Permutations(Cells)

\* No action reads ret: states that differ in it only have the same successors.
NoRet == <<live, is_transient, obstates, children, parent, refcnt, content,
           next_object_id, aborted>>

(* Few objects, however many revisions refer to them, or few references,   *)
(* of which a revision that is alone may have one more.  States beyond are *)
(* checked, but not explored further.                                      *)
CONSTANTS FewObjects, MaxReferences
Entries == {ref \in Revs \X Objects : ref[2] \in DOMAIN obstates[ref[1]]}
Small ==
  \/ next_object_id <= FewObjects
  \/ Cardinality(Entries) <= MaxReferences + (IF Cardinality(live) = 1 THEN 1 ELSE 0)
=============================================================================
