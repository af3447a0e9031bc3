SPECIFICATION Spec
CONSTANTS
  Cell = {c1, c2, c3}
  Slot = {s1, s2}
  NULL = NULL
  AssertReuse = TRUE
  MaxLinks = 3
SYMMETRY Symmetry
CONSTRAINT FewLinks
INVARIANTS
  SweepsUnreachable
  PendingWakesCollector
  AccessibleIsAlive
  AssertionsHold
  Bookkeeping
PROPERTIES
  LifeCycle
  KeepsPromise
  CollectorAdvances
