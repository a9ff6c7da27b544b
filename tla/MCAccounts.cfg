\* Three model calls over a month boundary; two approval rows; three browser requests over two actions; three
\* requests over a project's items and builds; three overlapping calls on one sandbox key, three on one bound profile, three processes for one slot.
SPECIFICATION AccountSpec
CONSTANTS
  q1 = q1 q2 = q2 q3 = q3
  Requests = {q1, q2, q3}
  HalfWeight = 2
  Estimates <- TwoEstimates
  Usages <- TwoUsages
  MonthlyOcu = 4
  DailyOcu = 3
  Expiry = 1
  TicksPerDay = 1
  DaysPerMonth = 2
  MaxTime = 3
  DatesAreText = FALSE
  ApprovalIds = {1, 2}
  BotActions <- MCBotActions
  NoApproval = NoApproval
  BrowserCalls = {q1, q2, q3}
  BrowserRequests <- MCBrowserRequests
  BrowserActions = {1, 2}
  RiskProfile = "ASSISTED"
  MaxActions = 2
  ReadLimit = 20
  NoAction = NoAction
  WorkspaceCalls = {q1, q2, q3}
  Texts = {1, 2}
  ProjectRuns = {7, 8}
  AnsweredRuns = {7}
  ItemLimit = 5
  ContextLimit = 5
  Repository = TRUE
  Page = Page
  NoCall = NoCall
  NoText = 0
  SandboxCalls = {q1, q2, q3}
  ExecutionKeys = {k1, k2}
  Policies = {p1, p2, p3}
  BackendPolicies = {p1, p2}
  Commands = {x1, x2}
  CleanupReasons = {"completed", "other"}
  NoSandbox = NoSandbox
  BackendCalls = {q1, q2, q3}
  Profiles = {m1, m2}
  BoundProfiles = {m1}
  CredentialBound = {m1}
  Timeouts = {1, 2}
  ReleaseReasons = {"completed", "failed"}
  NoSession = NoSession
  ProcessCalls = {q1, q2, q3}
  MaxConcurrent = 1
  MaxOutput = 1
SYMMETRY CallSymmetry
CHECK_DEADLOCK FALSE
INVARIANTS
  AccountsBalance
  ApprovalsExact
  BrowserSound
  WorkspaceSound
  ExecutionSound
PROPERTIES
  ChargedWithinPlan
  SessionsHandedOutAlive
