SPECIFICATION Spec
CONSTANTS
    p1 = p1
    p2 = p2
    p3 = p3
    Processes = {p1, p2}
    Owned <- OneSubmission
    Listed <- OneSubmission
    Names = {1, 2}
    MaxStarts = 2
    MaxInstalls = 0
INVARIANTS
    SitePackagesUntouched
\* The bounds on starts and installations can be used up.
CHECK_DEADLOCK FALSE
