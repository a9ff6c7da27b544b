\* Two lessons of one key, two tasks and two requests, asked whether a lesson that was contradicted
\* after its commit began may enter memory.
SPECIFICATION LearningSpec
CONSTANTS
  Lessons = {l1, l2}
  Tasks = {1, 2}
  ProposalKeys = {1, 2}
  LearningCalls = {"c", "d"}
  EstablishmentSupport = 2
  NoRecord = NoRecord
CHECK_DEADLOCK FALSE
INVARIANTS
  OnlyClearEnters
