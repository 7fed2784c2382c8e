SPECIFICATION Spec
CONSTANTS
    Nodes = 2
    Arms = 2
    Requests = 1
    Rounds = 2
    MaxPolls = 1
    MaxBoots = 3
    MaxLost = 2
    MaxDeaths = 1
    MaxKills = 1
INVARIANTS
    TypeOK
    ArmIsItsOwn
    StartsOnFreeGpus
PROPERTIES
    CommandEnds
CHECK_DEADLOCK FALSE
