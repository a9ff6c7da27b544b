\* One process with a reviewing mode, one restart, one instruction and every control.
CONSTANTS
  Hosted = FALSE
  Workers = {w1}
  Instructions = {i1}
  MaxCalls = 3
  MaxTools = 2
  MaxAttempts = 5
  MaxBatch = 1
  Review = TRUE
  MaxRestarts = 1
SPECIFICATION LocalSpec
CHECK_DEADLOCK FALSE
INVARIANTS
  NoStaleDraft
  NoStrandedTurn
PROPERTIES
  ResumeReturns
