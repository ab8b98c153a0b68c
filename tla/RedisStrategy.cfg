SPECIFICATION Spec
CONSTANTS
    Capacity = 5
    Rate = 2
    Cost = 3
    Limit = 3
    Window = 2
    Second = 1
    MaxTime = 6
INVARIANTS
    TypeOK
    AdmissionBound
    DenialsJustified
PROPERTIES
    ImplementsLocal
