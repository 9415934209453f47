SPECIFICATION FairSpec
CONSTANTS
    MaxTurns = 3
    Sessions = {s1}
    Messages <- mcMessages
    MaxOverlap = 2
    MaxSpecial = 1
INVARIANTS
    SignalsCountedOnce
PROPERTIES
    RepliesSettle
    ReviewStarts
CHECK_DEADLOCK FALSE
