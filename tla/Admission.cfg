CONSTANTS
  Requests = {r1, r2, r3, r4}
  Limits = {0, 1, 2}
  Outer = {"reject", "skip"}
SPECIFICATION Spec
INVARIANTS CountExact
PROPERTIES RefusedOnlyWhenFull SlotsSpec
