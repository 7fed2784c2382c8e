SPECIFICATION Spec
CONSTANTS
    Arms = 2
    Requests = 2
    MaxPolls = 2
    MaxServers = 4
    MaxDeaths = 1
    MaxKills = 1
INVARIANTS
    TypeOK
    ArmMeasuresItsServer
    StartsAlone
PROPERTIES
    CommandEnds
CHECK_DEADLOCK FALSE
