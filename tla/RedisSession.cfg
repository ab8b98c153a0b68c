SPECIFICATION FairSpec
CONSTANTS
    Workers = {w1, w2}
    Limit = 1
    MaxCalls = 2
INVARIANTS
    TypeOK
    ReplyIsOwn
    AtMostOnce
    AllowedWasGranted
PROPERTIES
    EveryCallReturns
