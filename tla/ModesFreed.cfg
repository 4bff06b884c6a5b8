\* Actions that are interrupted: redo while objects are placed.
SPECIFICATION Spec
CONSTANTS
  Objects = {o1, o2, o3, o4}
  NewAtOnce = 1
  NULL = none
  Interrupts = {"redo"}
SYMMETRY Symmetry
INVARIANTS NothingFreedInUse
