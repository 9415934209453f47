SPECIFICATION Spec
CONSTANTS
    Tasks = {1, 2, 3}
    Types = {lecture, quiz}
    Requested = {{lecture, quiz}}
    NoTask = NoTask
    MaxChanges = 2
    MaxRetries = 1
SYMMETRY Symmetry
INVARIANTS
    
    
    RefreshHasWorker
    ChangesOffered
CHECK_DEADLOCK FALSE
