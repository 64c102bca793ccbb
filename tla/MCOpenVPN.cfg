SPECIFICATION FairSpec
CONSTANTS
    Pids = {p1, p2}
    NoPid = NoPid
    Tunnels = {t1, t2}
    NoTunnel = NoTunnel
    MaxEvents = 5
INVARIANTS
    DriverIsSound
    AttemptIsTimed
    HoldIsJustified
PROPERTIES
    ClientsEnd
CHECK_DEADLOCK FALSE
