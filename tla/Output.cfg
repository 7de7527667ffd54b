SPECIFICATION Spec
CONSTANTS
  MaxBody = 4
  MaxRecords = 2
  MaxClock = 2
  Reports <- MCReports
CHECK_DEADLOCK FALSE
INVARIANTS RecordsMatchStream BarShowsRecords
