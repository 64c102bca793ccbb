SPECIFICATION FairSpec
CONSTANTS
    Pids = {1, 2, 3}
    Owners = {1, 2}
    NoOwner = 0
    arp_gateway = TRUE
    MaxConfigs = 2
    MaxSignals = 1
    MaxRequests = 3
    MaxFaults = 1
INVARIANTS
    TimersAreSound
    NoClientIsLeftBehind
    ConnectionIsCurrent
PROPERTIES
    AcquisitionEnds
CHECK_DEADLOCK FALSE
