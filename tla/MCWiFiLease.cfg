SPECIFICATION Spec
CONSTANTS
    home = home
    work = work
    b1 = b1
    b2 = b2
    b3 = b3
    Services = {home, work}
    NoService = NoService
    Bsses = {b1, b2, b3}
    ServiceOf <- MCServiceOf
    Hidden = {work}
INVARIANT ConnectedHasDevice
CHECK_DEADLOCK FALSE
