SPECIFICATION Spec
CONSTANTS
  Fd <- FewDescriptors
  MaxDepth = 4
INVARIANT LockedIsNeverFreed
