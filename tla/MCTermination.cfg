SPECIFICATION QuitFairSpec
CONSTANTS
    Names = {m1, m2}
    MaxFlaps = 6
INVARIANTS
    RunEndsOnce
    
PROPERTIES
    QuitLeadsToExit
CHECK_DEADLOCK FALSE
