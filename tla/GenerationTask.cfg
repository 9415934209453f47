SPECIFICATION Spec
CONSTANTS
    Tasks = {1, 2}
    Slots = {slot}
    Recovery = recovery
    Requests = {r1}
    NoTask = NoTask
    NoCkpt = NoCkpt
    MaxRounds = 1
    MaxUnsaved = 1
    MaxCrashes = 1
    MaxUpgrades = 1
    MaxRetries = 1
INVARIANTS
    RecoveryBudget
    CheckpointBehindRows
PROPERTY
    ImplementsLifecycle
CHECK_DEADLOCK FALSE
