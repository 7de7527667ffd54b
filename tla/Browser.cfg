CONSTANTS
  MaxTries = 3
  MaxReconnectAttempts = 2
SPECIFICATION Spec
INVARIANTS StatusTruthful OneConnection PingsMatch
PROPERTIES NoRetryAfterEnd Settles
CHECK_DEADLOCK FALSE
