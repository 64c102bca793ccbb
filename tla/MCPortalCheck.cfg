CONSTANTS
  kMaxRequestAttempts = 3
  kMaxFailuresInContentPhase = 2
  Leases = {l1, l2}
  Fallback = Fallback
  V6Servers = V6Servers
  NoServers = NoServers
  PortalRetry = TRUE
  MaxEvents = 4
SPECIFICATION Spec
INVARIANTS
    DetectorIsSound
    FallbackIsSound
PROPERTIES
    CheckEnds
    ImplementsAbstraction
CHECK_DEADLOCK FALSE
