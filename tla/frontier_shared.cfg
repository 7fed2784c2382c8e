SPECIFICATION Spec
CONSTANTS
    c1 = c1
    c2 = c2
    win = win
    small = small
    Commands = {c1, c2}
    Records <- MCRecords
    DecodeSpeedup <- MCDecode
    PrefillSpeedup <- MCPrefill
    GRID = 1000
    PCT = 10
    MaxPromotions = 4
    MaxBaselines = 2
    MaxCrashes = 1
INVARIANTS
    TypeOK
    ChainConsistent
    HeadlineTelescopes
    SerialDurability
PROPERTIES
    KeepsTheChain
\* Commands run until their bounds are used up; then nothing is left to do.
CHECK_DEADLOCK FALSE
