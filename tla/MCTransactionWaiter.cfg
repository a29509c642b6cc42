SPECIFICATION FairSpec
CONSTANTS
  Retries = 3
  ErrorChoices <- MCErrorChoices
  SuccessChoices <- MCSuccessChoices
INVARIANT OutcomeTold
INVARIANT NoEarlyTimeout
PROPERTY WaitEnds
CHECK_DEADLOCK FALSE
