SPECIFICATION Spec
CONSTANTS
    Patches <- MCPatches
    Prompts <- MCPrompts
    ProbePrompts = 2
    Dispatch <- MCDispatch
    Changes <- MCChanges
    Knife = {"t1"}
    Faster <- MCFaster
    Promotable <- MCPromotable
    MaxAttempts = 2
    MaxIncidents = 1
INVARIANTS
    TypeOK
    FilteredIsNeverBenched
    NoEffectIsInert
    
    BlamedIsChanged
