SPECIFICATION FairSpec
CONSTANTS
    Tasks = {1}
    Slots = {slot1, slot2}
    Recovery = recovery
    Requests = {r1, r2}
    NoTask = NoTask
    NoCkpt = NoCkpt
    MaxRounds = 0
    MaxUnsaved = 1
    MaxCrashes = 2
    MaxUpgrades = 0
    MaxRetries = 2
INVARIANTS
    NoOrphanRun
    OneInvocation
PROPERTY
    InterruptedSettles
CHECK_DEADLOCK FALSE
