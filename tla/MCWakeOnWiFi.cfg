SPECIFICATION FairSpec
CONSTANTS
    MaxSsids = 1
    ForceWakeToScan = FALSE
    MaxSetRetries = 1
    MaxDarkResumes = 2
    MaxScanRetries = 1
    WiphyAtStart = FALSE
    MaxCycles = 3
    MaxHastyCycles = 2
    MaxFaults = 1
    MaxEvents = 1
    MaxHastyEvents = 0
INVARIANTS
    AwakeIsDisarmed
    SleepsAsPlanned
    ReadyAfterActions
PROPERTIES
    CallbackIsRun
CHECK_DEADLOCK FALSE
