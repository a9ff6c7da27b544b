\* Three memories of one key, two texts of an item and two promotions; two contradicting lessons with two tasks;
\* one skill in two versions, fifteen source snapshots, two curations, two packs and two task classes.
SPECIFICATION KnowledgeSpec
CONSTANTS
  pa = pa pb = pb l1 = l1 l2 = l2
  MemIds = {1, 2, 3} SummaryId = 3 CallerIds = {2} IdemKeys = {k} ItemMemory = 1
  Promoters = {pa, pb} ItemTexts = {"x", "y"} MaxEdits = 1 MaxClock = 1 MaxVersion = 2
  EpisodicMaxAge = 0 ProjectMaxAge = 0 MemoryInputs <- MCInputs NoMemory = NoMemory NoContent = NoContent
  Lessons = {l1, l2} Tasks = {1, 2} ProposalKeys = {1, 2} LearningCalls = {"c", "d"} EstablishmentSupport = 2 NoRecord = NoRecord
  SkillNames = {"n"} SkillVersions = {1, 2} SkillTimes = {0, 1} NoSkill = NoSkill Synthesizers = {"a"}
  EvidenceRefs <- MCRefs Packages <- MCPackages Submitters = {"model", "trusted_user"}
  Snapshots <- MCSnapshots Intakes = {"i"} Curators = {"c", "d"} CurationClasses <- MCClasses Evaluations <- MCEvaluations
  MaxFiles = 3 MaxFileBytes = 2 MaxTotalBytes = 3 MaxFindings = 1 MaxEvidenceAge = 0
  PackKeys = {1, 2} TaskClasses = {"t", "u"} MaxPackContext = 2 MaxPacks = 2 MaxSelectionAge = 0 MaxOsClock = 1
  Loaders = {"l"} NoPack = NoPack
SYMMETRY LessonSymmetry
CHECK_DEADLOCK FALSE
INVARIANTS
  MemorySound
  LearningSound
  SkillsSound
