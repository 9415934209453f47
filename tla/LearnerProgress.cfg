SPECIFICATION Spec
CONSTANTS
  MinUnits = 2
  MaxUnits = 7
  UnitSpan = 3
  UnitCap = 6
  Questions = {"q1", "m1", "q3", "m3"}
  KnowledgeOf <- mcKnowledgeOf
  QuizBank = {"q1", "q3"}
  CheckBank = {"m1", "m3"}
  AtTarget = {"m1", "m3"}
  Recommended <- mcRecommended
  Relations <- mcRelations
  Documents <- mcDocuments
  TagsOf <- mcTagsOf
  Rewrites <- mcRewrites
  Branches = 4
  Depth = 7
  Anchors = 4
  LinkCap = 3
  Focus = {"k1"}
  Later <- mcLater
  Outcomes = {"revised", "kept", "failed"}
  LegacyMinimum = 2
  CountWindow = 20
  MaxTasks = 3
  MaxChecks = 2
  MaxTries = 1
  MaxEdits = 1
  MaxSignals = 2
  MaxRequests = 5
  Overlap = TRUE
INVARIANTS
  CurrentFollowsPrerequisites
  CountedOnce
  
  OneTaskPerDecision

  
  
CHECK_DEADLOCK FALSE
