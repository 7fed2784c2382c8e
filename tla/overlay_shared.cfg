SPECIFICATION Spec
CONSTANTS
    p1 = p1
    p2 = p2
    p3 = p3
    Processes = {p1, p2, p3}
    Owned <- TwoSubmissions
    Listed <- OneListed
    Names = {1, 2, 3}
    MaxStarts = 3
    MaxInstalls = 1
INVARIANTS
    TypeOK
    AppliedIsOverlay
    NeverRevertsUpstream
    RacesThatSucceedAgree
    OthersUntouched
SYMMETRY Symmetry
\* The bounds on starts and installations can be used up.
CHECK_DEADLOCK FALSE
