SPECIFICATION ProfileSpec
CONSTANTS
    Knowledge <- mcKnowledge
    CategoryOf <- mcCategoryOf
    PrerequisitesOf <- mcPrerequisitesOf
    AbilityWeights <- mcAbilityWeights
    Tags = {"tag"}
    InitialMinimum = 3
    Prior = 72
    Questions = {"d1", "d2", "d3", "d4", "q1", "q2", "m1", "m2"}
    KnowledgeOf <- mcKnowledgeOf
    DifficultyOf <- mcDifficultyOf
    DiagnosticBank = {"d1", "d2", "d3", "d4"}
    ShortAnswers = {"d2", "d4"}
    QuizBank = {"q1", "q2"}
    CheckBank = {"m1", "m2"}
    AtTarget = {"q1", "q2"}
    Units <- mcUnits
    MaxAnswers = 3
INVARIANTS
    
    KnownByFormalAnswers
    PlanHasRoom
CHECK_DEADLOCK FALSE
