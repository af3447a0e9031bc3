SPECIFICATION Spec
CONSTANTS
  MaxSymLen = 3
  Inputs <- ReaderInputs
INVARIANTS
  TypeOK
  HeldIsRooted
  NoStrayRoots
PROPERTIES
  ReadsAsWritten
  PrintsReadable
  ReadingAdvances
