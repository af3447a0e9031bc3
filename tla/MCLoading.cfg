SPECIFICATION Spec
CONSTANTS
  Fd <- FewDescriptors
  MaxDepth = 4
INVARIANTS
  FilesFollowCalls
  LocksFollowCalls
  ErrorsReachMain
  EnvironmentStaysAlive
  
PROPERTY FailureEndsProgram
