\* Actions that are interrupted by rotating or by asking for a path.
SPECIFICATION Spec
CONSTANTS
  Objects = {o1, o2, o3, o4, o5}
  NewAtOnce = 2
  NULL = none
  Interrupts = {"path", "rotate"}
SYMMETRY Symmetry
INVARIANTS TypeOK NothingFreedInUse PlaceListIsOwned
PROPERTIES EndsCleanly PathsAreBegun ChangesAreRecorded
\* The program stops when the assertion in o_path_end fails.
CHECK_DEADLOCK FALSE
