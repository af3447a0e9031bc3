SPECIFICATION Spec
CONSTANT ValueBits = 12
CONSTANT MaxSymLen = 32
CONSTANT Programs <- LoopRuns
INVARIANT PendingBodyHasItsVariables
