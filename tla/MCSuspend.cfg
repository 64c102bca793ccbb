SPECIFICATION SuspendFairSpec
CONSTANTS
    Plain = {eth}
    WiFis = {wlan}
    Modems = {wwan}
    MaxAnnouncements = 2
    MaxIncidents = 2
INVARIANTS
    ReadinessIsTrue
PROPERTIES
    ReadinessIsReported
CHECK_DEADLOCK FALSE
