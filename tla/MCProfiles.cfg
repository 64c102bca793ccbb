SPECIFICATION Spec
CONSTANTS
    anne = anne
    bob = bob
    WiFi = {home}
    Ethernet = {wire}
    MachineProfiles = {default}
    UserProfiles <- MCUserProfiles
    DefaultId = default
    Keys = {k1}
    Statics = {ip1}
    None = None
    Ephemeral = Ephemeral
    Keep = Keep
    MaxExits = 2
    MaxCorruptions = 1
SYMMETRY Symmetry
CONSTRAINT OneService
INVARIANTS
    EntriesMatchServices
    LoginSurvives
PROPERTIES
    ForgottenIsGone
    LogoutForgets
