SPECIFICATION FairSpec
CONSTANTS
    Workers = {w1, w2}
    Keys = {k1, k2}
    Entries = {e1, e2, e3, e4}
    Limit = 1
    Kinds <- SafeKinds
    MaxCalls = 2
    NoEntry = NoEntry
    NoWorker = NoWorker
INVARIANTS
    TypeOK
    NoOverAdmission
    OneQuotaPerRenewal
    ResultCoherent
PROPERTIES
    ImplementsLedger
    EveryCallReturns
