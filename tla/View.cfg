CONSTANTS
  Sizes <- MCSizes
  MaxWrites = 2
  MaxScrollback = 1
  MaxGestures = 2
  MaxLayouts = 1
  LastRow = 2
  MaxHistory = 1
  MaxOutputs = 1
  MaxMoves = 3
  Glyphs = {a, b, c}
  Wide = {c}
  CellSizes <- MCCellSizes
  FirstSize = 2
  MaxSize = 4
  MaxCells = 3
  MaxResets = 1
  Images = {i, j, k}
  Areas = {1, 2}
  Budget = 3
  MaxRevisions = 1
  Widths = {6, 7, 9}
  Heights = {8, 11, 16}
  Strokes = {1, 2}
  MaxChanges = 4
  MaxEvents = 4
  Pictures = {p}
  Tall = 2
  MaxEpoch = 3
SPECIFICATION PageSpec
INVARIANTS RowsCurrent CellsDrawn NothingLeft AlwaysDraws
PROPERTIES NoTornFrame ContentSettles
CHECK_DEADLOCK FALSE
