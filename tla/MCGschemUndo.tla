---------------------------- MODULE MCGschemUndo ----------------------------
(* Small instances of GschemUndo for TLC.                                  *)
EXTENDS UndoRefinement, TLC

(* Short histories that are trimmed, and long ones with viewport records.  *)
(* The bound of the records is not reached where they are trimmed.         *)
MCSettings == {[undo_levels |-> 2, undo_panzoom |-> FALSE], [undo_levels |-> 9, undo_panzoom |-> TRUE]}
Trimming == {[undo_levels |-> 2, undo_panzoom |-> FALSE]}

CONSTANTS MaxTrimmed, MaxViewed
Short ==
  \A p \in Pages : Len(undo[p]) <= IF rc.undo_panzoom THEN MaxViewed ELSE MaxTrimmed

(* Besides the main page there is another one, which stays empty but may   *)
(* be recorded any number of times, and there are few checks that it takes *)
(* from the main page.                                                     *)
CONSTANTS Main, MaxMissed
Small ==
  /\ Short
  /\ \A p \in Pages \ {Main} :
       content[p] = Empty /\ disk[p] = Empty /\ Len(undo[p]) <= 1 /\ (rc.undo_panzoom => p \notin open)
  /\ \A p \in Pages : missed[p] <= IF p = Main THEN MaxMissed ELSE 0

Symmetry == Permutations(Contents \ {Empty})
=============================================================================
