SPECIFICATION Spec
CONSTANTS
  MaxNonce = 2
  MaxBulk = 2
INVARIANT SentIsSigned
INVARIANT VersionsFit
CHECK_DEADLOCK FALSE
