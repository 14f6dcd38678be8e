CONSTANTS
    a1 = a1
    a2 = a2
    a3 = a3
    a4 = a4
    Address <- MCAddress
    Lists <- MCLists
    DecisionOn <- MCDecisionOn
    Concurrency = 2
    MaxRetries = 3
    Limit = 2
SPECIFICATION Spec
CONSTANT RetryAfter = {"none", "seconds", "date"}
INVARIANTS
    TypeOK
    PermitsKept
    NoSilentGap
PROPERTY
    Answered
