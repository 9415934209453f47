SPECIFICATION Spec
CONSTANTS
    Sessions = {d1, d2}
    Choices = {c1}
    Right = {c1}
    Shorts = {a1, a2}
    Sheets = {"plain", "skipped", "blank"}
    Jobs = {j1, j2}
    Scores = {0, 90}
    MaxClaims = 3
    MaxFaults = 1
    NoSheet = NoSheet
SYMMETRY mcSymmetry
INVARIANTS
    ScoredOnce
    RetryHonoured
    NoLostMistake
PROPERTY
    ScoresKept
CHECK_DEADLOCK FALSE
