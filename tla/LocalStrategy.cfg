SPECIFICATION Spec
CONSTANTS
    Capacity = 7
    Rate = 2
    Cost = 3
    Limit = 2
    Window = 3
    IntMax = 7
    MaxTime = 10
INVARIANTS
    TypeOK
    AdmissionBound
    BurstBound
    EstimateBound
    DenialsJustified
PROPERTIES
    ImplementsTokenBucket
    ImplementsRollingWindow
