SPECIFICATION FairSpec
CONSTANTS
  Pages = {p1}
  Names = {n1}
  Contents = {empty, c1}
  Empty = empty
  Garbage = garbage
  Closed = closed
  Missing = missing
  Idle = idle
  Real <- RealNames
  Folded <- FoldedNames
  Link = none
  Target = none
  MakeBackups = FALSE
  UndoControl = TRUE
  DiskFull = FALSE
  Main = n1
PROPERTIES AutosaveFollows
