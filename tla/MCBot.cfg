\* Two workers over two days of an interval, a daily or an event automation, with leases that expire and
\* wake-ups that are retried; two workers and two claims of one task; three hook requests; three
\* webhook requests over two deliveries.
SPECIFICATION BotSpec
CONSTANTS
  w1 = w1 w2 = w2 w3 = w3 d1 = d1 d2 = d2 e1 = e1 e2 = e2
  Workers = {w1, w2}
  Deliveries = {d1, d2}
  Cadences = {"interval", "daily", "event"}
  Every = 2
  TicksPerDay = 3
  Hour = 1
  Lease = 0
  RetryDelay = 1
  MaxAttempts = 2
  MaxDailyWakeups = 1
  MaxNow = 4
  MaxClaims = 4
  NoTime = NoTime
  TaskWorkers = {w1, w2}
  MaxTaskClaims = 2
  TaskAttempts = 2
  TaskTeams <- MCTaskTeams
  NoTask = NoTask
  HookCalls = {w1, w2, w3}
  Repositories = {"r1", "r2"}
  EventHandlers = {w1, w2, w3}
  GitHubDeliveries = {e1, e2}
  DeliveryEvent <- MCDeliveryEvent
  Selectors <- MCSelectors
  NoHook = NoHook
SYMMETRY BotSymmetry
CHECK_DEADLOCK FALSE
INVARIANTS
  AutomationsSound
  BotTaskSound
  HooksSound
