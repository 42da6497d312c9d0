CONSTANTS
    plain = plain
    full = full
    Profiles = {plain, full}
    Features <- MCFeatures
    MAX_DRIVER_MESSAGES = 2
    MaxTimeouts = 1
    Faults = {"unplug", "read", "uinput", "profile", "nodevice"}
SPECIFICATION FairSpec
INVARIANTS
    ExitRestoresLizardMode
PROPERTIES
    RequestsServed
    SwapsComplete
    StopEnds
    KeyboardSuppressed
