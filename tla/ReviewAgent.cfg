SPECIFICATION Spec
CONSTANTS
    Chunks = {"c1", "c2", "c3"}
    KnowledgeOf <- mcKnowledgeOf
    CapabilitiesOf <- mcCapabilitiesOf
    Related = {}
    Capacity = 2
    Sites = {"s1", "s2"}
    Place <- mcPlace
    Roles = {primary, secondary}
    QuotedIn <- mcQuotedIn
    Targets = {"k1"}
    Kinds <- mcKinds
    Texts = {"a", "b"}
    FirstTexts = {"a"}
    Voices = {"supported", "contradicted"}
    Collections <- mcCollections
    Explicit <- mcExplicit
    Practice = TRUE
    NResults = 2
    BatchSizes = {1, 2}
    MaxRounds = 1
    MaxFaults = 1
    MaxDissents = 2
    NoReport = NoReport
SYMMETRY mcSymmetry
INVARIANTS
    VerdictsCurrent
    PassIsConsensus
    
CHECK_DEADLOCK FALSE
