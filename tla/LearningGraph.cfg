SPECIFICATION FairSpec
CONSTANTS
    Types = {lecture, quiz}
    Sources = {s1, s2, s3}
    Capacity = 2
    MaxRevisions = 2
    NoPlan = NoPlan
INVARIANTS
    CitationsRetained
    DecidedOnCurrentArtifacts
    GivesUpOnlyWhenExhausted
PROPERTY
    Termination
