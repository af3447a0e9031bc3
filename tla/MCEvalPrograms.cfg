SPECIFICATION Spec
CONSTANT ValueBits = 12
CONSTANT MaxSymLen = 32
CONSTANT Programs <- ProgramRuns
INVARIANT TypeOK
INVARIANT CallsKeepDefiningScope
INVARIANT PendingBodyHasItsVariables
INVARIANT ScopesAreGivenUp
INVARIANT TailCallsAreFlat
INVARIANT FramesResume
PROPERTY ErrorStops
PROPERTY ListsOnlyGrow
PROPERTY KeepsMeaning
