\* One process, one restart, asked whether a turn may complete on an unchecked change.
CONSTANTS
  Hosted = FALSE
  Workers = {w1}
  Instructions = {i1}
  MaxCalls = 3
  MaxTools = 2
  MaxAttempts = 5
  MaxBatch = 1
  Review = FALSE
  MaxRestarts = 1
SPECIFICATION LocalSpec
CHECK_DEADLOCK FALSE
INVARIANTS
  DeliveryChecked
