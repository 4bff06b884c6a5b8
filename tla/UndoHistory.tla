---------------------------- MODULE UndoHistory ----------------------------
(***************************************************************************)
(* What undo promises to the user of gschem: each open page has a present  *)
(* content, the contents it had before (the past, latest last) and the     *)
(* contents that were undone (the future, nearest first).  There are no    *)
(* files, no records and no limits checked now and then, only the rule     *)
(* that at least the last undo_levels - 1 steps can be undone.             *)
(***************************************************************************)
EXTENDS Integers, Sequences

CONSTANTS Pages, Contents

VARIABLES undo_levels, open, history
vars == <<undo_levels, open, history>>

Blank == [past |-> << >>, present |-> "none", future |-> << >>]

Init == undo_levels \in Nat \ {0} /\ open = {} /\ history = [p \in Pages |-> Blank]

Open(p, c) ==
  /\ p \notin open
  /\ open' = open \cup {p}
  /\ history' = [history EXCEPT ![p] = [Blank EXCEPT !.present = c]]

Close(p) ==
  /\ p \in open
  /\ open' = open \ {p}
  /\ history' = [history EXCEPT ![p] = Blank]

(* The oldest contents may be forgotten, but not the last undo_levels - 1. *)
Remembered(past, kept) ==
  \E k \in 0..Len(past) :
    /\ kept = SubSeq(past, k + 1, Len(past))
    /\ k > 0 => Len(kept) >= undo_levels - 1

(* Changing the content ends the future: what was undone is gone.          *)
Edit(p, c) ==
  /\ p \in open
  /\ \E k \in 0..Len(history[p].past) + 1 :
       LET past == Append(history[p].past, history[p].present)
           kept == SubSeq(past, k + 1, Len(past))
       IN  /\ Remembered(past, kept)
           /\ history' = [history EXCEPT ![p] = [past |-> kept, present |-> c, future |-> << >>]]
  /\ UNCHANGED open

\* Panning and zooming are commands, so they end the future as well.
Look(p) ==
  /\ p \in open
  /\ history' = [history EXCEPT ![p].future = << >>]
  /\ UNCHANGED open

Undo(p) ==
  /\ p \in open
  /\ LET h == history[p]
     IN  /\ h.past # << >>
         /\ history' = [history EXCEPT ![p] =
              [past |-> SubSeq(h.past, 1, Len(h.past) - 1),
               present |-> h.past[Len(h.past)],
               future |-> <<h.present>> \o h.future]]
  /\ UNCHANGED open

Redo(p) ==
  /\ p \in open
  /\ LET h == history[p]
     IN  /\ h.future # << >>
         /\ history' = [history EXCEPT ![p] =
              [past |-> Append(h.past, h.present),
               present |-> h.future[1],
               future |-> SubSeq(h.future, 2, Len(h.future))]]
  /\ UNCHANGED open

Next ==
  /\ UNCHANGED undo_levels
  /\ \E p \in Pages :
       \/ \E c \in Contents : Open(p, c) \/ Edit(p, c)
       \/ Close(p) \/ Look(p) \/ Undo(p) \/ Redo(p)

Spec == Init /\ [][Next]_vars
=============================================================================
