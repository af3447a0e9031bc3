SPECIFICATION Spec
CONSTANTS
  MaxSymLen = 3
  Inputs <- UnclosedInputs
INVARIANT ErrorsAreReported
