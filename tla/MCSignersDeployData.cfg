SPECIFICATION Spec
CONSTANTS
  Callers <- MCCallers
  Signers <- MCSignersSet
  ClassOf <- MCClassOf
  PathOf <- MCPathOf
  JobsOf <- MCJobsOf
  Transports <- MCTransports
  PartLen = 3
  DAMLimit = 2
  AmountLimit = 2
  PriceLimit = 2
INVARIANT DeploymentDataIsSent
