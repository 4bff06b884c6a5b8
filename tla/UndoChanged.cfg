SPECIFICATION Spec
CONSTANTS
  Pages = {p1}
  Contents = {empty, a}
  Empty = empty
  Settings <- Trimming
  UndoPadding = 1
  CheckEvery = 1
  Medium = "disk"
  DiskFull = FALSE
  MaxTrimmed = 6
  MaxViewed = 5
  Main = p1
  MaxMissed = 2
SYMMETRY Symmetry
CONSTRAINT Small
INVARIANTS UnchangedIsSaved
