SPECIFICATION Spec
CONSTANTS
  Cell = {c1, c2}
  Slot = {"s1", "s2"}
  NULL = NULL
  AssertReuse = FALSE
  SlotOrder <- TwoSlots
INVARIANTS
  ListsAreWhole
  CountersAreExact
  FinalizedOnce
  ResetReturnsAll
PROPERTIES
  WorksOnSets
  PendingIsFreed
  ComesToRest
  FreesGarbage
