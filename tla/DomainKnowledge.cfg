SPECIFICATION Spec
CONSTANTS
    Docs = {d1}
    Linked = {}
    Base = base
    Rebuild = rebuild
    Live = live
    NoCand = NoCand
    MaxColls = 3
    MaxEdits = 1
    MaxEvents = 1
INVARIANTS
    ActiveIndexExists
    
    
    RunningHasThread

    
CONSTRAINT
    UntilOvertaken
CHECK_DEADLOCK FALSE
