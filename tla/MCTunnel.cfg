CONSTANTS
  Retries <- MCRetries
  Unlimited = Unlimited
  BackoffInitial = 1
  BackoffCap = 3
  AttemptCap = 4
  MaxQueue = 2

SPECIFICATION TunnelSpec
INVARIANTS
  WithinBudget
  NothingStale
PROPERTIES
  Settles
