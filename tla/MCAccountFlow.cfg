SPECIFICATION FairSpec
CONSTANTS
  c1 = c1
  c2 = c2
  c3 = c3
  a = a
  b = b
  p = p
  q = q
  Calls = {c1, c2, c3}
  Accounts = {a, b}
  Addresses = {p, q}
  NoAddress = NoAddress
  JobChoices <- MCJobChoices
INVARIANT NoncesFit
INVARIANT DeploymentsCanSucceed
INVARIANT AddressesHold
INVARIANT GoesOnIfDeclared
PROPERTY EveryCallEnds
CHECK_DEADLOCK FALSE
