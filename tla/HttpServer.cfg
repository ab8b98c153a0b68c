SPECIFICATION FairSpec
CONSTANTS
    Connections = {c1, c2, c3}
    Workers = {w1, w2}
    MaxQueued = 2
    MaxHeader = 1
    MaxBody = 2
    Buffer = 3
    Blank = 2
    NoConnection = NoConnection
INVARIANTS
    TypeOK
    OneHandler
    NoLostWakeup
    WholeRequest
PROPERTIES
    EveryConnectionClosed
CHECK_DEADLOCK FALSE
