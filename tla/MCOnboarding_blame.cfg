SPECIFICATION Spec
CONSTANTS
  Verification = {v1, v2}
  Lifetime = 4
  RefreshMargin = 3
  TokenCallTimeout = 1
  ConnectorCallTimeout = 1
  ConnectorMaxRetries = 1
  MaxRevocations = 1
  None = None
INVARIANT RejectionIsGenuine
