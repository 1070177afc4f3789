CONSTANTS
    None = None
    Grants <- MCGrants
    LLCandidate <- MCCandidates
    Plans <- MCPlans
    Span = 3
    T1Default = 1
    T2Default = 2
    NakMaxRestarts = 1
    MaxConflicts = 2
SPECIFICATION Spec
INVARIANTS
    AddressFollowsLease
    
    
PROPERTIES
    ExpiryIsActedOn
CHECK_DEADLOCK FALSE
