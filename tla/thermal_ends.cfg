SPECIFICATION Spec
CONSTANTS
    Nodes = 2
    Busy <- Workers
    Idle = 0
    Heat = 3
    Tolerance = 1
    Budget = 2
    Arms = 2
    MaxFailures = 1
INVARIANTS
    TypeOK
PROPERTIES
    GateEnds
    EveryStepCounts
CHECK_DEADLOCK FALSE
