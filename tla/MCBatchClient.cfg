SPECIFICATION FairSpec
CONSTANTS
  c1 = c1
  c2 = c2
  c3 = c3
  x = x
  y = y
  NoId = NoId
  NoCall = NoCall
  ReuseIds = FALSE
  Calls <- MCCalls
  IdChoices <- MCIdChoices
INVARIANT TypeOK
INVARIANT NoRequestLost
INVARIANT PostedOnce
INVARIANT PromisesBelong
PROPERTY ImplementsRequestReply
PROPERTY EveryFetchSettles
CHECK_DEADLOCK FALSE
