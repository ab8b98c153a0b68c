SPECIFICATION Spec
CONSTANTS
    Main = Main
    Threads = {t1, t2}
    Tenants = {a}
    Stress = stress
    Empty = empty
    Settings <- LargeSettings
    Entries = {e1, e2, e3, e4}
    NoEntry = NoEntry
    NoWorker = NoWorker
    Limit = 2
    ReqsEach = 2
    MaxBurst = 1
    MaxCommands = 2
    MaxFaults = 0
    Nothing = Nothing
INVARIANTS
    RestoredAsSet
