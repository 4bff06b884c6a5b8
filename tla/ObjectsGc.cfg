SPECIFICATION Spec
CONSTANTS
  Objects = {o1, o2}
  Pages = {p1}
  Wrappers = {w1, w2}
  Kinds = {"net", "bus", "pin", "text", "component"}
  Lines <- MCLines
  None = none
CONSTRAINTS OneOfAKind OneOutdated
SYMMETRY Symmetry
INVARIANT CleanupByC
