SPECIFICATION QuizSpec
CONSTANTS
    Questions <- mcQuestions
    Banks <- mcBanks
    Targets = {"k1", "k2"}
    Profiles = {"beginner"}
    MaxRounds = 2
    MaxEdits = 1
INVARIANTS
    QuizFromBank
    PreflightHolds
CHECK_DEADLOCK FALSE
