\* Two plans over three tasks whose claims nest, with room for one or two records; and
\* three tool calls, two of them under one idempotency key, over one grant;
\* and two model calls over two slots.
CONSTANTS
  TaskOrder <- MCTaskOrder
  Claims <- MCClaims
  SpecialistOrder <- MCSpecialistOrder
  Serves <- MCServes
  MaxConcurrency <- MCMaxConcurrency
  MaxBatchSize = 2
  MaxActive = 2
  LeaseDuration = 1
  RecordLimits = {1, 2}
  MaxPlans = 2
  MaxExecutions = 2
  MaxTime = 1
  ToolCalls = {"w1", "w2", "r"}
  SideEffecting = {"w1", "w2"}
  HighRisk = {"w2"}
  Cancellable = {"w1"}
  Inputs = {"x", "y"}
  ReadAttempts = 2
  GrantOrder <- MCGrantOrder
  GrantCalls <- MCGrantCalls
  SlotOrder <- MCSlotOrder
  ModelCalls = {"g", "h"}
  HttpAnswers <- MCHttpAnswers
  ShortCooldown = 1
  LimitCooldown = 2
  CredentialCooldown = 2
  MinRetry = 1
  MaxRetry = 2
  MaxEvents = 2
  MaxPoolTime = 1
  NoRetryAfter = NoRetryAfter
SPECIFICATION KernelSpec
CHECK_DEADLOCK FALSE
INVARIANTS
  CoordinationSound
  CallsSound
PROPERTIES
  ResultUnderLease
  CallersServed
