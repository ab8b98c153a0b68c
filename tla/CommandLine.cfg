SPECIFICATION Spec
CONSTANTS
    Main = Main
    Threads = {t1, t2}
    Tenants = {a}
    Stress = stress
    Empty = empty
    Settings <- PlainSettings
    Entries = {e1, e2, e3, e4, e5, e6}
    NoEntry = NoEntry
    NoWorker = NoWorker
    Limit = 2
    ReqsEach = 2
    MaxBurst = 2
    MaxCommands = 3
    MaxFaults = 1
    Nothing = Nothing
INVARIANTS
    TypeOK
    StressReport
    RestoredAsSet
