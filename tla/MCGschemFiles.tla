--------------------------- MODULE MCGschemFiles ---------------------------
(* Small instances of GschemFiles for TLC.                                 *)
EXTENDS GschemFiles

CONSTANTS
  Link, Target,  \* the name that is a link, if any, and where it leads
  Main           \* the file that other programs write

RealNames == [n \in Names |-> IF n = Link THEN Target ELSE n]
FoldedNames == [n \in Names |-> n]

(* Other programs write the main file only; the others come into being by  *)
(* Save As, and end before they have a backup or an autosave.              *)
OthersWriteMain == \A n \in Names \ {Main} : written'[n] # written[n] => saving # Idle
Small == \A n \in Names \ {Main} : backup[n] = Missing /\ auto[n] = Missing
=============================================================================
