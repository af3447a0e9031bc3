SPECIFICATION Spec
CONSTANTS
  Cell = {c1, c2, c3}
  Slot = {s1}
  NULL = NULL
  AssertReuse = TRUE
  MaxLinks = 3
SYMMETRY Symmetry
INVARIANTS
  IdleLeavesNoGarbage
