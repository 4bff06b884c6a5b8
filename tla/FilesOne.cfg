SPECIFICATION Spec
CONSTANTS
  Pages = {p1}
  Names = {n1, n2}
  Contents = {empty, c1}
  Empty = empty
  Garbage = garbage
  Closed = closed
  Missing = missing
  Idle = idle
  Real <- RealNames
  Folded <- FoldedNames
  Link = none
  Target = none
  MakeBackups = TRUE
  UndoControl = TRUE
  DiskFull = TRUE
  Main = n1
CONSTRAINT Small
ACTION_CONSTRAINT OthersWriteMain
INVARIANTS TypeOK SavedVersionSurvives UnchangedPageIsInFile QuietPageIsAutosaved AutosaveIsLeftOver
