SPECIFICATION ProviderSpec
CONSTANTS
  Retries = 3
  MaxHeight = 4
  BasicSize = 3
  BigSize = 2
  Jobs <- MCJobs
INVARIANT OutcomeTold
INVARIANT NamesLeadHome
INVARIANT ProfileIsOfAddress
INVARIANT EstimateIsAffordable
INVARIANT DeclarationsAreRight
PROPERTY CallEnds
CHECK_DEADLOCK FALSE
