CONSTANTS
  Contents = {"open", "list"}
  Orders = {TRUE, FALSE}
  MaxChanges = 2
  MaxSwitches = 1
  MaxConnections = 2
  MaxResets = 1
  MaxHostedChanges = 1
  Setups <- MCSetups
SPECIFICATION HostSpec
INVARIANTS ButtonsAreCurrent NoConflict OneBar
PROPERTIES EventuallyShown
CHECK_DEADLOCK FALSE
