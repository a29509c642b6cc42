CONSTANTS
  Orders <- MCOrders
  Account <- MCAccount
  Options <- MCOptions
  CallsOf <- MCCallsOf
  Version <- MCVersion
  Nonce <- MCNonce
  Executors = {20, 21}
  Nonces = {1, 2}
  Supports <- MCSupports
  Batches <- MCBatches
  MaxTime = 3
SPECIFICATION Spec
CHECK_DEADLOCK FALSE
INVARIANTS
  ExecutedAsOrdered
  RevertHasCause

