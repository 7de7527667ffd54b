CONSTANTS
  Sizes = {80, 81}
  MaxWrites = 0
  MaxScrollback = 0
  MaxGestures = 0
  MaxLayouts = 2
SPECIFICATION Spec
PROPERTY GridFollowsContainer
CHECK_DEADLOCK FALSE
