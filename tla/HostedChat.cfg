\* Two serverless invocations of one turn, two leases, two model and two tool calls,
\* one instruction and every control: the second run meets what the first left.
CONSTANTS
  Hosted = TRUE
  Workers = {w1, w2}
  Instructions = {i1}
  MaxCalls = 2
  MaxTools = 2
  MaxAttempts = 4
  MaxBatch = 1
  Review = FALSE
  MaxRuns = 2
SPECIFICATION HostedSpec
INVARIANTS
  EffectsAccounted
  RecordedChangesChecked
  WorksOnExecuting
PROPERTIES
  WritesFenced
SYMMETRY Symmetry
CHECK_DEADLOCK FALSE
