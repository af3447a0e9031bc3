SPECIFICATION Spec
CONSTANTS
  Block = {b1, b2, b3, b4}
  MaxLen = 3
  NULL = NULL
SYMMETRY Symmetry
INVARIANTS
  ListIsWhole
  BlocksAccountedFor
PROPERTY GivesFittingBlocks
