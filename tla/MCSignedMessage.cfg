CONSTANTS
  PRIME = 16
  U128End = 8
  I128End = 4
  Messages <- MCMessages
  Accounts <- MCAccounts
  Contracts <- MCContracts
  Options <- MCOptions
  Forests <- MCForests
  Sample = {2, 7}
SPECIFICATION Spec
CHECK_DEADLOCK FALSE
INVARIANTS
  VerifiedIsSigned
  SignedVerifies
  VerdictIsContracts
  ProofsAreOfMembers
