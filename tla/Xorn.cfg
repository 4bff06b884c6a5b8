SPECIFICATION Spec
CONSTANTS
  Revs = {r1, r2}
  Cells = {c1, c2, c3}
  MaxId = 4
  ObTypes = {"net", "text"}
  Data = {d1}
  BadData = bad
  MaxReferences = 2
  FewObjects = 2
SYMMETRY Symmetry
VIEW NoRet
CONSTRAINT Small
CHECK_DEADLOCK FALSE
INVARIANTS TypeOK RefcountExact NoDanglingState TreeConsistent AttachmentsTyped
PROPERTIES ErrorChangesNothing RevisionsAreValues
