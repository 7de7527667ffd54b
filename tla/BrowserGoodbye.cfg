CONSTANTS
  MaxTries = 2
  MaxReconnectAttempts = 2
SPECIFICATION Spec
INVARIANTS DisconnectClearsActions
CHECK_DEADLOCK FALSE
