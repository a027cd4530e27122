CONSTANTS
  Bits = 5
  MaxDim = 6
  MaxLen = 40
  Builds = {"release"}

SPECIFICATION Spec

INVARIANT RejectsMismatch
