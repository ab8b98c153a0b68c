SPECIFICATION Spec
CONSTANTS
    Workers = {w1, w2}
    Limit = 1
    MaxCalls = 1
INVARIANTS
    FailureIs503
