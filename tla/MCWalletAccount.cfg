SPECIFICATION FairSpec
CONSTANTS
  Accounts = {a, b}
  Chains = {node, other, third}
  NodeChain = node
  None = None
  MaxMessages = 4
  MaxSwitches = 3
  MaxAsks = 2
INVARIANT WorksWithWalletsAccount
INVARIANT NoFormerChain
PROPERTY AddressSettles
CHECK_DEADLOCK FALSE
