CONSTANTS
  Appliers = {input}
  Wrapped = FALSE
  MaxCalls = 4
SPECIFICATION ResizeSpec
INVARIANTS NoLateResize SizesAgree
PROPERTIES NeverBackwards LastSizeArrives
CHECK_DEADLOCK FALSE
