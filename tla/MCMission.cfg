\* Two callers race over the whole lifecycle of a mission, long enough for a repair loop and a
\* pause on the way to COMPLETED; or they race on tasks, budget and failures, and repeat requests
\* under a key; or they take snapshots and save them late as checkpoints.
SPECIFICATION MissionSpec
CONSTANTS
  c1 = c1 c2 = c2 k1 = k1 t1 = t1 cost = cost sig = sig
  Tasks = {t1}
  Dimensions = {cost}
  BudgetLimits <- UnitLimit
  Debits <- UnitDebit
  Signatures = {sig}
  MaxEquivalentFailures = 2
  Callers = {c1, c2}
  Keys = {k1}
  Fresh = Fresh
  MaxMissionEvents = 17
  MaxLedgerEvents = 4
  MaxSavedEvents = 3
  NoCall = NoCall
  NoBatch = NoBatch
  NoCheckpoint = NoCheckpoint
SYMMETRY Symmetry
INVARIANTS
  NeverPoisoned LedgerSound PauseKeepsPlace RecoveryExact
