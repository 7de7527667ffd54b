CONSTANTS
  Fingers = {f1, f2}
  Outside = {f3}
  LastCell = 2
  Null = Null
  Texts = {"x"}
  Window = 2
SPECIFICATION UserSpec
INVARIANTS NothingHeld SentOnce
PROPERTIES TouchesPaired NotReportedTwice
CHECK_DEADLOCK FALSE
