SPECIFICATION PathsSpec
CONSTANTS
  MaxTokens = 2
  BufSize = 12
  ChunkSize = 2
  MaxAPCBody = 4
  MaxConnects = 2
  MaxPrograms = 2
  MaxOutput = 2
  MaxAttempts = 1
INVARIANTS OutputKept
PROPERTIES ExitNoticed
CHECK_DEADLOCK FALSE
