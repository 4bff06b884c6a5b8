SPECIFICATION Spec
CONSTANTS
  Symbols <- MCSymbols
  SheetRevision = sheetrev
  SymbolPins <- MCSymbolPins
  Sheets <- MCSheets
  RecursionLimit = 5
INVARIANTS TypeOK ConnectionsAreTouches PiecesAreComponents
