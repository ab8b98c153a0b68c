SPECIFICATION Spec
CONSTANTS
    Limit = 2
    Window = 3
    IntMax = 2
    MaxTime = 10
INVARIANTS
    AtMostTwiceLimit
