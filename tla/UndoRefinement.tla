--------------------------- MODULE UndoRefinement ---------------------------
(* Undo in gschem is the history of UndoHistory: a record that holds a     *)
(* content is a step of it, viewport records are not.                      *)
EXTENDS GschemUndo

Held(list, from, to) ==
  LET at == {i \in from..to : HasData(list[i])}
      nth(k) == CHOOSE i \in at : Cardinality({j \in at : j < i}) = k - 1
  IN  [k \in 1..Cardinality(at) |-> list[nth(k)].data]

Story(p) ==
  IF p \notin open THEN [past |-> << >>, present |-> None, future |-> << >>]
  ELSE LET before == Held(undo[p], 1, current[p])
       IN  [past |-> SubSeq(before, 1, Len(before) - 1),
            present |-> content[p],
            future |-> Held(undo[p], current[p] + 1, Len(undo[p]))]

History == INSTANCE UndoHistory WITH undo_levels <- UndoLevels, history <- [p \in Pages |-> Story(p)]

(* Undo and redo walk through exactly the contents the page had, in their  *)
(* order, and no more of them are forgotten than the limit allows.         *)
UndoIsHistory == History!Spec
=============================================================================
