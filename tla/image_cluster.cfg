SPECIFICATION Spec
CONSTANTS
    Nodes = 2
    BasePort = 25500
    Arms = 2
    MaxBoots = 3
    MaxPolls = 1
    MaxLost = 2
    MaxDeaths = 1
    MaxKills = 1
INVARIANTS
    TypeOK
    GroupIsOwn
    NoSelfClash
PROPERTIES
    CommandEnds
\* The bound on boots can be used up.
CHECK_DEADLOCK FALSE
