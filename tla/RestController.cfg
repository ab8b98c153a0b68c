SPECIFICATION FairSpec
CONSTANTS
    Workers = {w1, w2}
    Requests = {"r1", "r2"}
    Seeded <- FirstPolicies
    Postable <- NewPolicies
    Digits = 10
    MaxCalls = 4
    MaxFaults = 2
    Nobody = Nobody
    NoFile = NoFile
INVARIANTS
    TypeOK
    CreatedInForce
    DecisionsAccounted
PROPERTIES
    ImplementsPolicyBook
    EveryCallReturns
CHECK_DEADLOCK FALSE
