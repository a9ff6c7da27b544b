\* One job, two runners under one worker identity: crashes, time-outs, late
\* settlements, cancellation and a full event table, under the fairness of timers,
\* polling and aborted handlers.
SPECIFICATION FairSpec
CONSTANTS
  JobIds = {j1}
  IdempotencyKeys = {k1}
  Inputs <- OneInput
  WorkerIds = {w1}
  LeaseMs = 2
  RetryDelays = {0, 1}
  MaxOverdue = 0
  MaxJobs = 1
  MaxJobEvents = 8
  NoWorker = NoWorker
  NoInput = NoInput
  Runners = {r1, r2}
  WorkerId <- SharedWorkerId
  TimeoutMs = 2
  NoLease = NoLease
INVARIANTS
  RowsSound Fenced
PROPERTY
  ImplementsLifecycle EventuallySettled
