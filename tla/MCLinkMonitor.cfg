SPECIFICATION FairSpec
CONSTANTS
    Services = {s1, s2}
    NoService = NoService
    Macs = {m1, m2}
    NoMac = NoMac
    FailureThreshold = 3
    UnicastThreshold = 2
    MinRequests = 2
    MonitorCycles = 2
    MaxEvents = 7
INVARIANTS
    OneMonitorRuns
    UnreliableIsSelected
    GatewayIsAnnounced
PROPERTIES
    SilenceIsReported
CHECK_DEADLOCK FALSE
