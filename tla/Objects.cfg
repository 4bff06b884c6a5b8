SPECIFICATION Spec
CONSTANTS
  Objects = {o1, o2, o3}
  Pages = {p1}
  Wrappers = {w1}
  Kinds = {"net", "bus", "pin", "text", "component"}
  Lines <- MCLines
  None = none
CONSTRAINTS OneOfAKind OneOutdated
SYMMETRY Symmetry
INVARIANTS TypeOK LinksAgree OwnedOnce ConnectionsAreTouches
