SPECIFICATION Spec
\* The contract's numbers, in degrees and sleeps of 20 s.
CONSTANTS
    Nodes = 1
    Busy = {}
    Idle = 43
    Heat = 10
    Tolerance = 3
    Budget = 45
    Arms = 2
    MaxFailures = 0
INVARIANTS
    SameThermalState
\* A command ends, and the node then stays as cool as it gets.
CHECK_DEADLOCK FALSE
