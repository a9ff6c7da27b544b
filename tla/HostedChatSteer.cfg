\* The instance of HostedChat.cfg, asked whether a turn may complete without an
\* instruction that was accepted.
CONSTANTS
  Hosted = TRUE
  Workers = {w1, w2}
  Instructions = {i1}
  MaxCalls = 2
  MaxTools = 2
  MaxAttempts = 4
  MaxBatch = 1
  Review = FALSE
  MaxRuns = 2
SPECIFICATION HostedSpec
INVARIANTS
  NoStaleDraft
SYMMETRY Symmetry
CHECK_DEADLOCK FALSE
