SPECIFICATION FairSpec
CONSTANTS
    Tasks = {1, 2}
    Slots = {slot}
    Recovery = recovery
    Requests = {r1}
    NoTask = NoTask
    NoCkpt = NoCkpt
    MaxRounds = 0
    MaxUnsaved = 1
    MaxCrashes = 1
    MaxUpgrades = 0
    MaxRetries = 0
PROPERTY
    PendingStarts
CHECK_DEADLOCK FALSE
