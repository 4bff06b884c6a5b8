SPECIFICATION Spec
CONSTANTS
  Pages = {p1, p2}
  Contents = {empty, a, b}
  Empty = empty
  Settings <- MCSettings
  UndoPadding = 2
  CheckEvery = 2
  Medium = "disk"
  DiskFull = FALSE
  MaxTrimmed = 9
  MaxViewed = 5
  Main = p1
  MaxMissed = 1
SYMMETRY Symmetry
CONSTRAINT Small
INVARIANTS TypeOK HistoryBounded CursorShowsContent
PROPERTIES UndoIsHistory
