SPECIFICATION Spec
CONSTANTS
  Cell = {c1, c2, c3}
  Slot = {s1}
  NULL = NULL
  AssertReuse = FALSE
  MaxLinks = 3
SYMMETRY Symmetry
INVARIANTS
  UnreferencedIsNotLive
