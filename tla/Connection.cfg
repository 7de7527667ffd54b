CONSTANTS
  Setups <- MCSetups
  ReadOnly = FALSE
  Cap = 1
  Window = 1
SPECIFICATION Spec
INVARIANTS LeavesNothingBehind
PROPERTIES SessionSpec DisconnectCleansUp GoodbyeDelivered SessionEndFreesSlot
CHECK_DEADLOCK FALSE
