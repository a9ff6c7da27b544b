\* Two mission versions and lifecycle events in pages of one, two responses under way, two commands under two
\* keys, two workers over three leases; bounded gate requests and failure signals, two multi-file calls over
\* three files, two calls that drive one coding mission; two jobs under two keys;
\* two builds of a skill, two requests and a run in two hands; three evaluations of three models, two failures
\* and one cached result.
SPECIFICATION ServicesSpec
CONSTANTS
  k1 = k1 k2 = k2 j1 = j1 j2 = j2 w1 = w1 w2 = w2 r1 = r1
  NoWorker = NoWorker NoInput = NoInput NoLease = NoLease
  MaxMissionVersion = 2
  MaxLifecycle = 2
  PageLimit = 1
  MaxInFlight = 2
  NoClient = NoClient
  CommandKeys = {k1, k2}
  CommandCalls = {q1, q2}
  IssueTimes = {1, 2}
  ComparesVersion = FALSE
  Challenges = {i1}
  MaxStreamVersion = 2
  NoCommand = NoCommand
  HostedWorkers = {w1, w2}
  MaxGeneration = 3
  StateHashes = {"h1", "h2"}
  NoHosted = NoHosted
  MaxEvidenceAge = 1
  GateRequests <- MCRequests
  FailureSignals <- MCSignals
  RecoveryBudgets <- MCBudgets
  MaxRepeated = 2
  MaxFailures = 4
  Coders = {w1, w2}
  Files = {1, 2, 3}
  Overlapping <- MCOverlapping
  Tree0 <- MCTree
  Proposals <- MCProposals
  Absent = Absent
  Drivers = {w1, w2}
  Texts = {0, 1, 2}
  GoodTexts = {2}
  LongFile = TRUE
  MaxOutsideEdits = 1
  Revisions = {1, 2}
  NeedsConnection = TRUE
  SkillRequests = {"q", "r"}
  RunWorkers = {1, 2}
  NotInstalled = NotInstalled
  Profiles <- MCProfiles
  Evaluations <- MCEvaluations
  RouteFailures <- MCFailures
  RouteRequests <- MCTasks
  RouterConfig <- MCRouterConfig
  FailurePolicy <- MCFailurePolicy
  PriceUnit = 2
  MaxEntries = 1
  Answers = {1}
  MaxRegistered = 3
  MaxReported = 2
  MaxNow = 2
  NoWork = NoWork
CHECK_DEADLOCK FALSE
INVARIANTS
  ClientsSound
  SettledByItsLease
  DecisionsSound
  OrchestratorsSound
  KeysNameJobs
  OneRevisionPerRun
